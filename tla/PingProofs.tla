------------------------------ MODULE PingProofs ------------------------------
(***************************************************************************)
(* Proofs about the VRP ping dialect, for any jobs, any slack and any      *)
(* number of commands.                                                     *)
(***************************************************************************)
EXTENDS PingOutput, SequenceTheorems, FiniteSetTheorems, WellFoundedInduction, TLAPS

-----------------------------------------------------------------------------
(***************************************************************************)
(* Sequences of lines.                                                     *)
(***************************************************************************)
Kinds == {"echo", "head", "reply", "unreadable", "statistics",
          "error", "timeout", "sent", "received"}
PrintedLine == [kind : Kinds, number : 0 .. job.count]

\* The last packet, when it is neither answered nor given up.
Late == IF pending THEN 1 ELSE 0

TextTyped ==
  /\ out \in Seq(PrintedLine)
  /\ begins \in Seq(Nat) /\ Len(begins) <= MaxCommands
  /\ begins # <<>> => begins[Len(begins)] \in 1 .. Len(out)
  /\ phase # "idle" => begins # <<>>
CountsTyped ==
  /\ job \in Jobs
  /\ phase \in {"idle", "echoed", "pinging"}
  /\ sent \in 0 .. job.count /\ received \in 0 .. sent - Late
  /\ pending \in BOOLEAN /\ broken \in BOOLEAN /\ stalled \in BOOLEAN
  /\ elapsed \in Nat
Typed == TextTyped /\ CountsTyped

LEMMA JobTypes ==
  ASSUME job \in Jobs
  PROVE  job.count \in Nat \ {0} /\ job.timeout \in Nat /\ job.interval \in Nat
BY JobsAssumption

LEMMA Appended ==
  ASSUME NEW S, NEW s \in Seq(S), NEW e \in S
  PROVE  /\ Append(s, e) \in Seq(S)
         /\ Len(s) \in Nat /\ Len(Append(s, e)) = Len(s) + 1
BY AppendProperties, LenProperties

LEMMA Joined ==
  ASSUME NEW S, NEW s \in Seq(S), NEW t \in Seq(S)
  PROVE  /\ s \o t \in Seq(S)
         /\ Len(s) \in Nat /\ Len(t) \in Nat /\ Len(s \o t) = Len(s) + Len(t)
         /\ \A i \in 1 .. Len(s) : (s \o t)[i] = s[i]
         /\ \A i \in 1 .. Len(t) : (s \o t)[Len(s) + i] = t[i]
<1>1. /\ Len(s) \in Nat /\ Len(t) \in Nat /\ s \o t \in Seq(S)
      /\ Len(s \o t) = Len(s) + Len(t)
      /\ \A i \in 1 .. Len(s) + Len(t) :
           (s \o t)[i] = IF i <= Len(s) THEN s[i] ELSE t[i - Len(s)]
  BY ConcatProperties, LenProperties
<1>2. ASSUME NEW i \in 1 .. Len(s) PROVE (s \o t)[i] = s[i]
  BY <1>1
<1>3. ASSUME NEW i \in 1 .. Len(t) PROVE (s \o t)[Len(s) + i] = t[i]
  <2>1. Len(s) + i \in 1 .. Len(s) + Len(t) /\ ~(Len(s) + i <= Len(s)) /\ Len(s) + i - Len(s) = i
    BY <1>1
  <2> QED BY <1>1, <2>1
<1> QED BY <1>1, <1>2, <1>3

LEMMA TypedInit == Init => Typed
<1> SUFFICES ASSUME Init PROVE Typed
  OBVIOUS
<1>1. out = <<>> /\ begins = <<>> /\ Len(begins) = 0
  BY EmptySeq DEF Init
<1>2. job.count \in Nat /\ MaxCommands \in Nat
  BY JobTypes, SlackAssumption DEF Init
<1>3. TextTyped
  BY <1>1, <1>2, EmptySeq DEF Init, TextTyped
<1>4. CountsTyped
  <2>1. Late = 0
    BY DEF Init, Late
  <2>2. pending \in BOOLEAN /\ broken \in BOOLEAN /\ stalled \in BOOLEAN
    BY DEF Init
  <2> QED BY <1>2, <2>1, <2>2 DEF Init, CountsTyped
<1> QED BY <1>3, <1>4 DEF Typed

LEMMA LateNext ==
  ASSUME CountsTyped, [Next]_vars
  PROVE  /\ Late \in {0, 1} /\ Late' \in {0, 1}
         /\ Send => Late = 0 /\ Late' = 1
         /\ Reply \/ TimeOut => Late = 1 /\ Late' = 0
         /\ Echo => Late' = 0
         /\ Refuse \/ Header \/ Stall \/ CtrlC \/ Statistics \/ UNCHANGED vars => Late' = Late
BY DEF Late, Next, Echo, Refuse, Header, Send, Reply, TimeOut, Stall, CtrlC, Statistics, vars

LEMMA FlagsNext ==
  ASSUME CountsTyped, [Next]_vars
  PROVE  pending' \in BOOLEAN /\ broken' \in BOOLEAN /\ stalled' \in BOOLEAN
BY DEF CountsTyped, Next, Echo, Refuse, Header, Send, Reply, TimeOut, Stall, CtrlC,
   Statistics, vars

LEMMA CountsNext ==
  ASSUME CountsTyped, [Next]_vars
  PROVE  CountsTyped'
<1>1. /\ job \in Jobs /\ job.count \in Nat \ {0}
      /\ phase \in {"idle", "echoed", "pinging"}
      /\ sent \in 0 .. job.count /\ received \in 0 .. sent - Late
      /\ elapsed \in Nat /\ Late \in {0, 1} /\ Late' \in {0, 1}
  BY JobTypes, LateNext DEF CountsTyped
<1>2. \A d \in Nat : 2 * Milliseconds(d) \in Nat
  BY DEF Milliseconds
<1>3. 2 * BuildCommand(job).m \in Nat /\ 2 * BuildCommand(job).t \in Nat
  BY <1>2, JobTypes DEF CountsTyped, BuildCommand
<1>4. BuildCommand(job).c = job.count
  BY DEF BuildCommand
<1> SUFFICES /\ job' = job /\ phase' \in {"idle", "echoed", "pinging"}
             /\ sent' \in 0 .. job.count /\ received' \in 0 .. sent' - Late'
             /\ elapsed' \in Nat
  BY <1>1, FlagsNext DEF CountsTyped
<1>5. CASE Echo
  <2>1. /\ UNCHANGED job /\ phase' = "echoed" /\ sent' = 0 /\ received' = 0
        /\ elapsed' \in 0 .. Slack - 1
    BY <1>5 DEF Echo
  <2>2. Late' = 0
    BY <1>5, LateNext
  <2> QED BY <1>1, <2>1, <2>2, SlackAssumption
<1>6. CASE Refuse \/ Header \/ Statistics
  BY <1>1, <1>6, LateNext DEF Refuse, Header, Statistics
<1>7. CASE Send
  <2>1. /\ UNCHANGED <<job, phase, received>> /\ sent < job.count /\ sent' = sent + 1
        /\ elapsed' \in {elapsed, elapsed + 0, elapsed + 2 * BuildCommand(job).m}
    BY <1>4, <1>7 DEF Send
  <2>2. Late = 0 /\ Late' = 1
    BY <1>7, LateNext
  <2> QED BY <1>1, <1>3, <2>1, <2>2
<1>8. CASE Reply \/ TimeOut
  <2>1. /\ UNCHANGED <<job, phase, sent>> /\ received' \in {received, received + 1}
        /\ elapsed' \in {elapsed, elapsed + 2 * BuildCommand(job).t}
    BY <1>8 DEF Reply, TimeOut
  <2>2. Late = 1 /\ Late' = 0
    BY <1>8, LateNext
  <2>3. elapsed' \in Nat
    BY <1>1, <1>3, <2>1
  <2>4. received' \in 0 .. sent' - Late'
    BY <1>1, <2>1, <2>2
  <2> QED BY <1>1, <2>1, <2>3, <2>4
<1>9. CASE Stall
  <2>1. CommandDeadline(job) \in Nat
    BY JobTypes, SlackAssumption DEF CountsTyped, CommandDeadline
  <2>2. /\ UNCHANGED <<job, phase, sent, received>>
        /\ elapsed' = elapsed + CommandDeadline(job)
    BY <1>9 DEF Stall
  <2>3. Late' = Late
    BY <1>9, LateNext
  <2> QED BY <1>1, <2>1, <2>2, <2>3
<1>10. CASE CtrlC \/ UNCHANGED vars
  BY <1>1, <1>10, LateNext DEF CtrlC, vars
<1> QED BY <1>5, <1>6, <1>7, <1>8, <1>9, <1>10 DEF Next

\* A step adds nothing to the text, one line, or the three of the statistics.
Adds(lines) == lines \in Seq(PrintedLine) /\ out' = out \o lines

LEMMA WhatIsPrinted ==
  ASSUME Typed, [Next]_vars
  PROVE  /\ PrintedLine' = PrintedLine
         /\ Echo => Adds(<<Text("echo")>>)
         /\ Refuse => Adds(<<Text("error")>>)
         /\ Header => Adds(<<Text("head")>>)
         /\ Reply => \E kind \in {"reply", "unreadable"} : Adds(<<Text(kind)>>)
         /\ TimeOut => Adds(<<Text("timeout")>>)
         /\ Statistics => Adds(<<Text("statistics"), Line("sent", sent), Line("received", received)>>)
         /\ Send \/ Stall \/ CtrlC \/ UNCHANGED vars => out' = out
<1>1. PrintedLine' = PrintedLine
  BY DEF Next, Echo, Refuse, Header, Send, Reply, TimeOut, Stall, CtrlC, Statistics, vars,
     PrintedLine
<1>2. job.count \in Nat /\ sent \in 0 .. job.count /\ received \in 0 .. job.count
  BY JobTypes DEF Typed, CountsTyped, Late
<1>3. /\ \A kind \in Kinds : Text(kind) \in PrintedLine
      /\ Line("sent", sent) \in PrintedLine /\ Line("received", received) \in PrintedLine
  BY <1>2 DEF Text, Line, PrintedLine, Kinds
<1>4. ASSUME NEW kind \in Kinds, out' = Append(out, Text(kind)) PROVE Adds(<<Text(kind)>>)
  <2>1. out \in Seq(PrintedLine)
    BY DEF Typed, TextTyped
  <2>2. <<Text(kind)>> \in Seq(PrintedLine)
    BY <1>3
  <2> QED BY <1>3, <1>4, <2>1, <2>2, AppendIsConcat DEF Adds
<1>5. \A kind \in {"echo", "error", "head", "reply", "unreadable", "timeout"} : kind \in Kinds
  BY DEF Kinds
<1>6. Echo \/ Refuse \/ Header \/ Reply \/ TimeOut =>
        /\ Echo => Adds(<<Text("echo")>>)
        /\ Refuse => Adds(<<Text("error")>>)
        /\ Header => Adds(<<Text("head")>>)
        /\ Reply => \E kind \in {"reply", "unreadable"} : Adds(<<Text(kind)>>)
        /\ TimeOut => Adds(<<Text("timeout")>>)
  BY <1>4, <1>5 DEF Echo, Refuse, Header, Reply, TimeOut
<1>7. Statistics => Adds(<<Text("statistics"), Line("sent", sent), Line("received", received)>>)
  <2>1. <<Text("statistics"), Line("sent", sent), Line("received", received)>> \in Seq(PrintedLine)
    BY <1>3 DEF Kinds
  <2> QED BY <2>1 DEF Statistics, Adds
<1>8. Send \/ Stall \/ CtrlC \/ UNCHANGED vars => out' = out
  BY DEF Send, Stall, CtrlC, vars
<1> QED BY <1>1, <1>6, <1>7, <1>8

LEMMA TextNext ==
  ASSUME Typed, [Next]_vars
  PROVE  TextTyped'
<1>1. /\ out \in Seq(PrintedLine) /\ begins \in Seq(Nat) /\ Len(begins) \in Nat
      /\ begins # <<>> => begins[Len(begins)] \in 1 .. Len(out)
      /\ phase # "idle" => begins # <<>>
      /\ Len(begins) <= MaxCommands /\ MaxCommands \in Nat
  BY SlackAssumption, LenProperties DEF Typed, TextTyped
<1>2. \/ out' = out
      \/ \E lines \in Seq(PrintedLine) : out' = out \o lines
  BY WhatIsPrinted DEF Next, Adds
<1>3. out' \in Seq(PrintedLine)' /\ Len(out') >= Len(out)
  <2>1. ASSUME NEW lines \in Seq(PrintedLine), out' = out \o lines
        PROVE  out' \in Seq(PrintedLine) /\ Len(out') >= Len(out)
    BY <1>1, <2>1, Joined
  <2>2. out' = out => out' \in Seq(PrintedLine) /\ Len(out') >= Len(out)
    BY <1>1, LenProperties
  <2>3. PrintedLine' = PrintedLine
    BY WhatIsPrinted
  <2> QED BY <1>2, <2>1, <2>2, <2>3
<1>4. CASE Echo
  <2>1. /\ begins' \in Seq(Nat) /\ Len(begins') = Len(begins) + 1
        /\ begins'[Len(begins')] = Len(out) + 1 /\ begins' # <<>>
    BY <1>1, <1>4, AppendProperties, LenProperties DEF Echo
  <2>2. Len(out') = Len(out) + 1
    BY <1>1, <1>4, Joined, WhatIsPrinted DEF Adds
  <2> QED BY <1>1, <1>3, <1>4, <2>1, <2>2 DEF Echo, TextTyped
<1>5. ASSUME begins' = begins, phase' # "idle" => phase # "idle" PROVE TextTyped'
  <2>1. begins' # <<>> => begins'[Len(begins')] \in 1 .. Len(out')
    BY <1>1, <1>3, <1>5, LenProperties
  <2> QED BY <1>1, <1>3, <1>5, <2>1 DEF TextTyped
<1>6. ~Echo => begins' = begins /\ (phase' # "idle" => phase # "idle")
  BY DEF Next, Refuse, Header, Send, Reply, TimeOut, Stall, CtrlC, Statistics, vars
<1> QED BY <1>4, <1>5, <1>6

LEMMA AlwaysTyped == Spec => []Typed
<1>1. Typed /\ [Next]_vars => Typed'
  BY CountsNext, TextNext DEF Typed
<1> QED BY <1>1, TypedInit, PTL DEF Spec

\* Every variable keeps its type, and the router counts no more packets than
\* the command asks for (huawei.go:57-73).
THEOREM PingTypes == Spec => []TypeOK
<1>1. ASSUME Typed PROVE TypeOK
  <2>1. \A i \in DOMAIN out : out[i] \in PrintedLine
    BY <1>1 DEF Typed, TextTyped
  <2>2. \A l \in ToSet(out) :
          /\ l.number \in 0 .. job.count
          /\ ShowsDest(l) \/ l.kind \in {"error", "timeout", "sent", "received"}
    BY <2>1 DEF ToSet, PrintedLine, Kinds, ShowsDest
  <2> QED BY <1>1, <2>2, JobTypes DEF Typed, TextTyped, CountsTyped, Late, TypeOK
<1> QED BY <1>1, AlwaysTyped, PTL

-----------------------------------------------------------------------------
(***************************************************************************)
(* No text makes up a loss.  The router prints the two counts of a command *)
(* on two lines, one after the other, so any piece of the text whose first *)
(* line is not a second count takes both counts of one command, whichever  *)
(* of the commands it is.                                                  *)
(***************************************************************************)
Paired ==
  \A k \in 1 .. Len(out) :
    /\ out[k].kind = "received" =>
         /\ k - 1 \in 1 .. Len(out) /\ out[k - 1].kind = "sent"
         /\ [sent |-> out[k - 1].number, received |-> out[k].number] \in counts
    /\ out[k].kind = "sent" => k + 1 \in 1 .. Len(out) /\ out[k + 1].kind = "received"

\* Lines that are not counts change nothing.
LEMMA PairedWith ==
  ASSUME Typed, Paired, NEW lines \in Seq(PrintedLine), out' = out \o lines, counts' = counts,
         \A i \in 1 .. Len(lines) : lines[i].kind \notin {"sent", "received"}
  PROVE  Paired'
<1>1. out \in Seq(PrintedLine)
  BY DEF Typed, TextTyped
<1>2. /\ Len(out) \in Nat /\ Len(lines) \in Nat /\ Len(out') = Len(out) + Len(lines)
      /\ \A i \in 1 .. Len(out) : out'[i] = out[i]
      /\ \A i \in 1 .. Len(lines) : out'[Len(out) + i] = lines[i]
  BY <1>1, Joined
<1> SUFFICES ASSUME NEW k \in 1 .. Len(out')
             PROVE  /\ out'[k].kind = "received" =>
                         /\ k - 1 \in 1 .. Len(out') /\ out'[k - 1].kind = "sent"
                         /\ [sent |-> out'[k - 1].number, received |-> out'[k].number] \in counts
                    /\ out'[k].kind = "sent" => k + 1 \in 1 .. Len(out') /\ out'[k + 1].kind = "received"
  BY DEF Paired
<1>3. CASE k \in 1 .. Len(out)
  <2>1. out'[k] = out[k] /\ 1 .. Len(out) \subseteq 1 .. Len(out')
    BY <1>2, <1>3
  <2>2. out[k].kind = "received" => out'[k - 1] = out[k - 1]
    BY <1>2, <1>3 DEF Paired
  <2>3. out[k].kind = "sent" => out'[k + 1] = out[k + 1]
    BY <1>2, <1>3 DEF Paired
  <2> QED BY <1>3, <2>1, <2>2, <2>3 DEF Paired
<1>4. CASE k \notin 1 .. Len(out)
  <2>1. k - Len(out) \in 1 .. Len(lines) /\ k = Len(out) + (k - Len(out))
    BY <1>2, <1>4
  <2>2. out'[k].kind \notin {"sent", "received"}
    BY <1>2, <2>1
  <2> QED BY <2>2
<1> QED BY <1>3, <1>4

LEMMA PairedNext ==
  ASSUME Typed, Paired, [Next]_vars
  PROVE  Paired'
<1>1. ASSUME NEW kind \in {"echo", "error", "head", "reply", "unreadable", "timeout"},
             Adds(<<Text(kind)>>), counts' = counts
      PROVE  Paired'
  <2> DEFINE t == <<Text(kind)>>
  <2>1. \A i \in 1 .. Len(t) : t[i].kind \notin {"sent", "received"}
    BY DEF Text, Line
  <2>2. t \in Seq(PrintedLine) /\ out' = out \o t
    BY <1>1 DEF Adds
  <2> HIDE DEF t
  <2> QED BY <1>1, <2>1, <2>2, PairedWith
<1>2. CASE Echo \/ Refuse \/ Header \/ Reply \/ TimeOut
  <2>1. counts' = counts
    BY <1>2 DEF Echo, Refuse, Header, Reply, TimeOut
  <2> QED BY <1>1, <1>2, <2>1, WhatIsPrinted
<1>3. CASE Send \/ Stall \/ CtrlC \/ UNCHANGED vars
  <2>1. UNCHANGED <<out, counts>>
    BY <1>3 DEF Send, Stall, CtrlC, vars
  <2> QED BY <2>1 DEF Paired
<1>4. CASE Statistics
  <2> DEFINE t == <<Text("statistics"), Line("sent", sent), Line("received", received)>>
  <2>1. /\ t \in Seq(PrintedLine) /\ out' = out \o t
        /\ counts' = counts \cup {[sent |-> sent, received |-> received]}
    BY <1>4, WhatIsPrinted DEF Adds, Statistics
  <2>2. /\ Len(t) = 3 /\ t[1].kind = "statistics"
        /\ t[2].kind = "sent" /\ t[2].number = sent
        /\ t[3].kind = "received" /\ t[3].number = received
    BY DEF Text, Line
  <2> HIDE DEF t
  <2>3. out \in Seq(PrintedLine)
    BY DEF Typed, TextTyped
  <2>4. /\ Len(out) \in Nat /\ Len(out') = Len(out) + 3
        /\ \A i \in 1 .. Len(out) : out'[i] = out[i]
        /\ out'[Len(out) + 1] = t[1] /\ out'[Len(out) + 2] = t[2] /\ out'[Len(out) + 3] = t[3]
    <3>1. /\ Len(out) \in Nat /\ Len(out') = Len(out) + Len(t)
          /\ \A i \in 1 .. Len(out) : out'[i] = out[i]
          /\ \A i \in 1 .. Len(t) : out'[Len(out) + i] = t[i]
      BY <2>1, <2>3, Joined
    <3>2. 1 \in 1 .. Len(t) /\ 2 \in 1 .. Len(t) /\ 3 \in 1 .. Len(t)
      BY <2>2
    <3> QED BY <2>2, <3>1, <3>2
  <2> SUFFICES ASSUME NEW k \in 1 .. Len(out')
               PROVE  /\ out'[k].kind = "received" =>
                           /\ k - 1 \in 1 .. Len(out') /\ out'[k - 1].kind = "sent"
                           /\ [sent |-> out'[k - 1].number, received |-> out'[k].number] \in counts'
                      /\ out'[k].kind = "sent" =>
                           k + 1 \in 1 .. Len(out') /\ out'[k + 1].kind = "received"
    BY DEF Paired
  <2>5. CASE k \in 1 .. Len(out)
    <3>1. out'[k] = out[k] /\ counts \subseteq counts' /\ 1 .. Len(out) \subseteq 1 .. Len(out')
      BY <2>1, <2>4, <2>5
    <3>2. out[k].kind = "received" => out'[k - 1] = out[k - 1]
      BY <2>4, <2>5 DEF Paired
    <3>3. out[k].kind = "sent" => out'[k + 1] = out[k + 1]
      BY <2>4, <2>5 DEF Paired
    <3> QED BY <2>5, <3>1, <3>2, <3>3 DEF Paired
  <2>6. CASE k = Len(out) + 1
    BY <2>2, <2>4, <2>6
  <2>7. CASE k = Len(out) + 2
    <3>1. k + 1 = Len(out) + 3 /\ k + 1 \in 1 .. Len(out')
      BY <2>4, <2>7
    <3> QED BY <2>2, <2>4, <2>7, <3>1
  <2>8. CASE k = Len(out) + 3
    <3>1. k - 1 = Len(out) + 2 /\ k - 1 \in 1 .. Len(out')
      BY <2>4, <2>8
    <3> QED BY <2>1, <2>2, <2>4, <2>8, <3>1
  <2> QED BY <2>4, <2>5, <2>6, <2>7, <2>8
<1> QED BY <1>2, <1>3, <1>4 DEF Next

\* The first line of a kind in a text that has one.
LEMMA FirstLine ==
  ASSUME NEW text \in Seq(PrintedLine), NEW kind, Found(text, kind) # {}
  PROVE  \E k \in Found(text, kind) :
           /\ First(text, kind) = text[k].number
           /\ \A l \in Found(text, kind) : k <= l
<1> DEFINE S == Found(text, kind)
<1>1. S \subseteq Nat
  BY LenProperties DEF Found
<1> HIDE DEF S
<1>2. S # {}
  BY DEF S
<1> DEFINE Less == {ss \in Nat \X Nat : ss[1] < ss[2]}
<1>3. IsWellFoundedOn(Less, Nat)
  BY NatLessThanWellFounded DEF OpToRel
<1>4. PICK k \in S : \A l \in S : ~(<<l, k>> \in Less)
  <2> HIDE DEF Less
  <2> QED BY <1>1, <1>2, <1>3, WFMin
<1>5. \A l \in S : k <= l
  <2> TAKE l \in S
  <2>1. <<l, k>> \in Nat \X Nat /\ <<l, k>>[1] = l /\ <<l, k>>[2] = k
    BY <1>1
  <2>2. ~(l < k)
    BY <1>4, <2>1
  <2> QED BY <1>1, <2>2
<1>6. Min(S) \in S /\ \A l \in S : Min(S) <= l
  BY <1>5 DEF Min
<1>7. First(text, kind) = text[Min(S)].number
  BY DEF First, S
<1> QED BY <1>6, <1>7 DEF S

\* A piece of the text, line by line.
LEMMA PieceLines ==
  ASSUME out \in Seq(PrintedLine), NEW i \in 1 .. Len(out), NEW j \in 1 .. Len(out)
  PROVE  LET text == SubSeq(out, i, j)
         IN /\ text \in Seq(PrintedLine)
            /\ \A k \in DOMAIN text :
                 k \in Nat \ {0} /\ k + i - 1 \in 1 .. Len(out) /\ text[k] = out[k + i - 1]
<1> DEFINE text == SubSeq(out, i, j)
<1>1. Len(out) \in Nat
  BY LenProperties
<1>2. i \in Int /\ j \in Int /\ \A k \in i .. j : out[k] \in PrintedLine
  BY <1>1
<1>3. /\ text \in Seq(PrintedLine) /\ Len(text) = (IF i <= j THEN j - i + 1 ELSE 0)
      /\ \A k \in 1 .. j - i + 1 : text[k] = out[i + k - 1]
  BY <1>2, SubSeqProperties
<1> HIDE DEF text
<1>4. DOMAIN text = 1 .. Len(text)
  BY <1>3, LenProperties
<1>5. ASSUME NEW k \in DOMAIN text
      PROVE  k \in Nat \ {0} /\ k + i - 1 \in 1 .. Len(out) /\ text[k] = out[k + i - 1]
  <2>1. k \in 1 .. j - i + 1 /\ i + k - 1 = k + i - 1
    BY <1>1, <1>3, <1>4
  <2> QED BY <1>1, <1>3, <2>1
<1> QED BY <1>3, <1>5 DEF text

\* No text makes up a loss: whatever piece of what the router printed Run
\* returns, half a command or the end of one and the beginning of the next,
\* what ParseOutput accepts is the sent and received counts of one command
\* (huawei.go:91-115).
THEOREM NoTextMakesUpALoss == Spec => []NoFalseLoss
<1>1. Init => Paired
  <2>1. Len(<<>>) = 0
    BY EmptySeq
  <2> QED BY <2>1 DEF Init, Paired
<1>2. Typed /\ Paired /\ [Next]_vars => Paired'
  BY PairedNext
<1>3. ASSUME Typed, Paired PROVE NoFalseLoss
  <2>1. out \in Seq(PrintedLine) /\ Len(out) \in Nat /\ DOMAIN out = 1 .. Len(out)
    BY <1>3, LenProperties DEF Typed, TextTyped
  <2> SUFFICES ASSUME NEW text \in Pieces, ParseOutput(text).ok
               PROVE  [sent     |-> ParseOutput(text).sent,
                       received |-> ParseOutput(text).replies] \in counts
    BY DEF NoFalseLoss
  <2>2. PICK i \in Begins, j \in 1 .. Len(out) : text = SubSeq(out, i, j)
    BY DEF Pieces
  <2>3. /\ i \in 1 .. Len(out)
        /\ (i > 1 /\ ShowsDest(out[i - 1])) \/ out[i].kind \in {"reply", "unreadable"}
    BY DEF Begins
  <2>4. /\ text \in Seq(PrintedLine)
        /\ \A k \in DOMAIN text :
             k \in Nat \ {0} /\ k + i - 1 \in 1 .. Len(out) /\ text[k] = out[k + i - 1]
    BY <2>1, <2>3, <2>2, PieceLines
  <2>5. /\ Found(text, "sent") # {} /\ Found(text, "received") # {}
        /\ ParseOutput(text).sent = First(text, "sent")
        /\ ParseOutput(text).replies = First(text, "received")
    BY DEF ParseOutput, ErrParse
  <2>6. PICK p \in Found(text, "sent") :
          First(text, "sent") = text[p].number /\ \A l \in Found(text, "sent") : p <= l
    BY <2>4, <2>5, FirstLine
  <2>7. PICK q \in Found(text, "received") :
          First(text, "received") = text[q].number /\ \A l \in Found(text, "received") : q <= l
    BY <2>4, <2>5, FirstLine
  <2>8. /\ p \in DOMAIN text /\ p \in Nat \ {0} /\ text[p].kind = "sent"
        /\ p + i - 1 \in 1 .. Len(out) /\ text[p] = out[p + i - 1]
        /\ q \in DOMAIN text /\ q \in Nat \ {0} /\ text[q].kind = "received"
        /\ q + i - 1 \in 1 .. Len(out) /\ text[q] = out[q + i - 1]
    BY <2>4 DEF Found
  <2>9. /\ (q + i - 1) - 1 \in 1 .. Len(out) /\ out[(q + i - 1) - 1].kind = "sent"
        /\ [sent |-> out[(q + i - 1) - 1].number, received |-> out[q + i - 1].number] \in counts
    BY <1>3, <2>8 DEF Paired
  \* The piece does not begin with a second count.
  <2>10. q # 1
    <3> SUFFICES ASSUME q = 1 PROVE FALSE
      OBVIOUS
    <3>1. (q + i - 1) - 1 = i - 1 /\ q + i - 1 = i
      BY <2>3
    <3>2. out[i - 1].kind = "sent" /\ out[i].kind = "received"
      BY <2>8, <2>9, <3>1
    <3> QED BY <2>3, <3>2 DEF ShowsDest
  <2>11. Len(text) \in Nat /\ DOMAIN text = 1 .. Len(text)
    BY <2>4, LenProperties
  <2>12. q - 1 \in Found(text, "sent")
    <3>1. q - 1 \in DOMAIN text
      BY <2>8, <2>10, <2>11
    <3>2. (q - 1) + i - 1 = (q + i - 1) - 1
      BY <2>3, <2>8
    <3> QED BY <2>4, <2>9, <3>1, <3>2 DEF Found
  <2>13. p <= q - 1
    BY <2>6, <2>12
  <2>14. p + 1 \in Found(text, "received")
    <3>1. p + 1 \in DOMAIN text
      BY <2>8, <2>11, <2>13
    <3>2. (p + i - 1) + 1 = (p + 1) + i - 1
      BY <2>3, <2>8
    <3>3. out[(p + i - 1) + 1].kind = "received"
      BY <1>3, <2>8 DEF Paired
    <3> QED BY <2>4, <3>1, <3>2, <3>3 DEF Found
  <2>15. q <= p + 1
    BY <2>7, <2>14
  <2>16. p + i - 1 = (q + i - 1) - 1
    BY <2>3, <2>8, <2>13, <2>15
  <2> QED BY <2>5, <2>6, <2>7, <2>8, <2>9, <2>16
<1> QED BY <1>1, <1>2, <1>3, AlwaysTyped, PTL DEF Spec

-----------------------------------------------------------------------------
(***************************************************************************)
(* An obeyed command ends in time.  Every packet given up cost a timeout   *)
(* at most, every packet but the first a pause, and the rest took less     *)
(* than the slack; the milliseconds of the command are no longer than the  *)
(* durations CommandDeadline counts.                                       *)
(***************************************************************************)
TimedOut == sent - received - Late
Pauses   == IF sent = 0 THEN 0 ELSE sent - 1
InTime ==
  ~stalled => elapsed <= Slack - 1 + TimedOut * job.timeout + Pauses * job.interval

LEMMA OneMore ==
  ASSUME NEW a \in Nat, NEW b \in Nat
  PROVE  a * b \in Nat /\ (a + 1) * b = a * b + b
OBVIOUS

LEMMA Monotone ==
  ASSUME NEW a \in Nat, NEW c \in Nat, NEW b \in Nat, a <= c
  PROVE  a * b <= c * b
<1>1. PICK d \in Nat : c = a + d
  <2>1. c - a \in Nat /\ c = a + (c - a)
    OBVIOUS
  <2> QED BY <2>1
<1>2. (a + d) * b = a * b + d * b /\ a * b \in Nat /\ d * b \in Nat
  OBVIOUS
<1> QED BY <1>1, <1>2

LEMMA WholeMilliseconds ==
  ASSUME NEW d \in Nat
  PROVE  2 * Milliseconds(d) \in Nat /\ 2 * Milliseconds(d) <= d
BY DEF Milliseconds

\* How many packets were given up, and how many pauses there were.
LEMMA TimedOutType ==
  ASSUME CountsTyped
  PROVE  /\ TimedOut \in Nat /\ Pauses \in Nat
         /\ TimedOut <= job.count /\ Pauses <= job.count
<1>1. Late \in {0, 1}
  BY DEF Late
<1>2. /\ sent \in Nat /\ received \in 0 .. sent - Late
      /\ job.count \in Nat /\ sent <= job.count
  BY JobTypes DEF CountsTyped
<1> QED BY <1>1, <1>2 DEF TimedOut, Pauses

LEMMA TimedOutNext ==
  ASSUME CountsTyped, [Next]_vars
  PROVE  /\ TimedOut \in Nat /\ TimedOut' \in Nat /\ Pauses \in Nat /\ Pauses' \in Nat
         /\ TimeOut => TimedOut' = TimedOut + 1 /\ Pauses' = Pauses
         /\ Send => TimedOut' = TimedOut /\ Pauses' = IF sent = 0 THEN Pauses ELSE Pauses + 1
         /\ Refuse \/ Header \/ Reply \/ Stall \/ CtrlC \/ Statistics \/ UNCHANGED vars =>
              TimedOut' = TimedOut /\ Pauses' = Pauses
<1>1. /\ sent \in Nat /\ received \in Nat /\ Late \in {0, 1} /\ received + Late <= sent
      /\ job.count \in Nat /\ sent <= job.count
  BY JobTypes, LateNext DEF CountsTyped
<1>2. TimedOut \in Nat /\ Pauses \in Nat
  BY TimedOutType
<1>3. TimedOut' \in Nat /\ Pauses' \in Nat
  <2>1. CountsTyped' /\ Late' \in Nat
    BY CountsNext, LateNext
  <2>2. job' = job
    BY DEF Next, Echo, Refuse, Header, Send, Reply, TimeOut, Stall, CtrlC, Statistics, vars
  <2>3. sent' \in Nat /\ received' \in 0 .. sent' - Late'
    <3>1. sent' \in 0 .. job'.count /\ received' \in 0 .. sent' - Late'
      BY <2>1 DEF CountsTyped
    <3>2. sent' \in 0 .. job.count
      BY <2>2, <3>1
    <3> QED BY <1>1, <3>1, <3>2
  <2>4. \A s, l \in Nat : \A r \in 0 .. s - l : s - r - l \in Nat
    OBVIOUS
  <2>5. TimedOut' \in Nat
    BY <2>1, <2>3, <2>4 DEF TimedOut
  <2>6. Pauses' \in Nat
    <3>1. \A s \in Nat : (IF s = 0 THEN 0 ELSE s - 1) \in Nat
      OBVIOUS
    <3> QED BY <2>3, <3>1 DEF Pauses
  <2> QED BY <2>5, <2>6
<1>4. TimeOut => TimedOut' = TimedOut + 1 /\ Pauses' = Pauses
  <2> SUFFICES ASSUME TimeOut PROVE TimedOut' = TimedOut + 1 /\ Pauses' = Pauses
    OBVIOUS
  <2>1. UNCHANGED <<sent, received>> /\ Late = 1 /\ Late' = 0
    BY LateNext DEF TimeOut
  <2>2. \A s, r \in Nat : s - r - 0 = (s - r - 1) + 1
    OBVIOUS
  <2>3. sent' - received' - Late' = (sent - received - Late) + 1
    BY <1>1, <2>1, <2>2
  <2> QED BY <2>1, <2>3 DEF TimedOut, Pauses
<1>5. Send => TimedOut' = TimedOut /\ Pauses' = IF sent = 0 THEN Pauses ELSE Pauses + 1
  <2> SUFFICES ASSUME Send
               PROVE  TimedOut' = TimedOut /\ Pauses' = IF sent = 0 THEN Pauses ELSE Pauses + 1
    OBVIOUS
  <2>1. sent' = sent + 1 /\ received' = received /\ Late = 0 /\ Late' = 1
    BY LateNext DEF Send
  <2>2. \A s, r \in Nat : (s + 1) - r - 1 = s - r - 0
    OBVIOUS
  <2>3. sent' - received' - Late' = sent - received - Late
    BY <1>1, <2>1, <2>2
  <2>4. Pauses' = IF sent = 0 THEN Pauses ELSE Pauses + 1
    BY <1>1, <2>1 DEF Pauses
  <2> QED BY <2>3, <2>4 DEF TimedOut
<1>6. Reply => TimedOut' = TimedOut /\ Pauses' = Pauses
  <2> SUFFICES ASSUME Reply PROVE TimedOut' = TimedOut /\ Pauses' = Pauses
    OBVIOUS
  <2>1. sent' = sent /\ received' = received + 1 /\ Late = 1 /\ Late' = 0
    BY LateNext DEF Reply
  <2>2. \A s, r \in Nat : s - (r + 1) - 0 = s - r - 1
    OBVIOUS
  <2>3. sent' - received' - Late' = sent - received - Late
    BY <1>1, <2>1, <2>2
  <2> QED BY <2>1, <2>3 DEF TimedOut, Pauses
<1>7. Refuse \/ Header \/ Stall \/ CtrlC \/ Statistics \/ UNCHANGED vars =>
        TimedOut' = TimedOut /\ Pauses' = Pauses
  <2> SUFFICES ASSUME Refuse \/ Header \/ Stall \/ CtrlC \/ Statistics \/ UNCHANGED vars
               PROVE  TimedOut' = TimedOut /\ Pauses' = Pauses
    OBVIOUS
  <2>1. UNCHANGED <<sent, received>>
    BY DEF Refuse, Header, Stall, CtrlC, Statistics, vars
  <2>2. Late' = Late
    BY LateNext
  <2> QED BY <2>1, <2>2 DEF TimedOut, Pauses
<1> QED BY <1>2, <1>3, <1>4, <1>5, <1>6, <1>7

LEMMA InTimeNext ==
  ASSUME CountsTyped, InTime, [Next]_vars
  PROVE  InTime'
<1> DEFINE T == job.timeout
           I == job.interval
<1>1. /\ job' = job /\ T \in Nat /\ I \in Nat /\ elapsed \in Nat /\ Slack \in Nat \ {0}
      /\ TimedOut \in Nat /\ Pauses \in Nat
  <2>1. job' = job
    BY DEF Next, Echo, Refuse, Header, Send, Reply, TimeOut, Stall, CtrlC, Statistics, vars
  <2> QED BY <2>1, JobTypes, TimedOutNext, SlackAssumption DEF CountsTyped
<1>2. /\ 2 * BuildCommand(job).m \in Nat /\ 2 * BuildCommand(job).m <= I
      /\ 2 * BuildCommand(job).t \in Nat /\ 2 * BuildCommand(job).t <= T
  BY <1>1, WholeMilliseconds DEF BuildCommand
<1>3. /\ TimedOut * T \in Nat /\ (TimedOut + 1) * T = TimedOut * T + T
      /\ Pauses * I \in Nat /\ (Pauses + 1) * I = Pauses * I + I
  BY <1>1, OneMore
<1> SUFFICES ASSUME ~stalled'
             PROVE  elapsed' <= Slack - 1 + TimedOut' * T + Pauses' * I
  BY <1>1 DEF InTime
<1>4. CASE Echo
  <2>1. elapsed' \in 0 .. Slack - 1
    BY <1>4 DEF Echo
  <2>2. TimedOut' * T \in Nat /\ Pauses' * I \in Nat
    BY <1>1, TimedOutNext, OneMore
  <2> QED BY <1>1, <2>1, <2>2
<1>5. ASSUME ~stalled PROVE elapsed <= Slack - 1 + TimedOut * T + Pauses * I
  BY <1>5 DEF InTime
<1>6. CASE Send
  <2>1. ~stalled /\ elapsed' = elapsed + (IF sent = 0 THEN 0 ELSE 2 * BuildCommand(job).m)
    BY <1>6 DEF Send
  <2>2. CASE sent = 0
    <3>1. TimedOut' = TimedOut /\ Pauses' = Pauses /\ elapsed' = elapsed
      BY <1>1, <1>6, <2>1, <2>2, TimedOutNext
    <3> QED BY <1>5, <2>1, <3>1
  <2>3. CASE sent # 0
    <3>1. /\ TimedOut' = TimedOut /\ Pauses' = Pauses + 1
          /\ elapsed' = elapsed + 2 * BuildCommand(job).m
      BY <1>6, <2>1, <2>3, TimedOutNext
    <3>2. elapsed' <= elapsed + I
      BY <1>1, <1>2, <3>1
    <3>3. elapsed + I <= Slack - 1 + TimedOut * T + (Pauses * I + I)
      BY <1>1, <1>3, <1>5, <2>1
    <3> QED BY <1>1, <1>2, <1>3, <3>1, <3>2, <3>3
  <2> QED BY <2>2, <2>3
<1>7. CASE TimeOut
  <2>1. ~stalled /\ elapsed' = elapsed + 2 * BuildCommand(job).t
    BY <1>7 DEF TimeOut
  <2>2. TimedOut' = TimedOut + 1 /\ Pauses' = Pauses
    BY <1>7, TimedOutNext
  <2>3. elapsed' <= elapsed + T
    BY <1>1, <1>2, <2>1
  <2>4. elapsed + T <= Slack - 1 + (TimedOut * T + T) + Pauses * I
    BY <1>1, <1>3, <1>5, <2>1
  <2> QED BY <1>1, <1>2, <1>3, <2>1, <2>2, <2>3, <2>4
<1>8. CASE Stall
  BY <1>8 DEF Stall
<1>9. CASE Refuse \/ Header \/ Reply \/ CtrlC \/ Statistics \/ UNCHANGED vars
  <2>1. ~stalled /\ elapsed' = elapsed /\ sent' = sent
    BY <1>9 DEF Refuse, Header, Reply, CtrlC, Statistics, vars
  <2>2. TimedOut' = TimedOut /\ Pauses' = Pauses
    BY <1>9, TimedOutNext
  <2> QED BY <1>5, <2>1, <2>2
<1> QED BY <1>4, <1>6, <1>7, <1>8, <1>9 DEF Next

\* A lossy link is not taken for a broken session: however many packets are
\* sent, lost and paused between, a router that keeps to -t and -m ends the
\* command before CommandDeadline (huawei.go:80-88).
THEOREM ObeyedCommandsEndInTime == Spec => []ObeyedCommandEndsInTime
<1>1. Init => InTime
  <2> SUFFICES ASSUME Init PROVE InTime
    OBVIOUS
  <2>1. job.timeout \in Nat /\ job.interval \in Nat /\ Slack \in Nat \ {0}
    BY JobTypes, SlackAssumption DEF Init
  <2>2. TimedOut = 0 /\ Pauses = 0 /\ elapsed = 0
    <3>1. Late = 0
      BY DEF Init, Late
    <3>2. sent = 0 /\ received = 0 /\ elapsed = 0
      BY DEF Init
    <3> QED BY <3>1, <3>2 DEF TimedOut, Pauses
  <2>3. 0 * job.timeout = 0 /\ 0 * job.interval = 0
    BY <2>1
  <2>4. elapsed <= Slack - 1 + TimedOut * job.timeout + Pauses * job.interval
    BY <2>1, <2>2, <2>3
  <2> QED BY <2>4 DEF InTime
<1>2. CountsTyped /\ InTime /\ [Next]_vars => InTime'
  BY InTimeNext
<1>3. ASSUME CountsTyped, InTime PROVE ObeyedCommandEndsInTime
  <2> DEFINE T == job.timeout
             I == job.interval
  <2>1. /\ T \in Nat /\ I \in Nat /\ job.count \in Nat /\ elapsed \in Nat /\ Slack \in Nat
    BY <1>3, JobTypes, SlackAssumption DEF CountsTyped
  <2>2. /\ TimedOut \in Nat /\ Pauses \in Nat /\ TimedOut <= job.count /\ Pauses <= job.count
    BY <1>3, TimedOutType
  <2>3. TimedOut * T <= job.count * T /\ Pauses * I <= job.count * I
    BY <2>1, <2>2, Monotone
  <2>4. /\ TimedOut * T \in Nat /\ Pauses * I \in Nat
        /\ job.count * T \in Nat /\ job.count * I \in Nat
    BY <2>1, <2>2, OneMore
  <2>5. job.count * (T + I) = job.count * T + job.count * I
    BY <2>1
  <2>6. ~stalled => elapsed < job.count * T + job.count * I + Slack
    BY <1>3, <2>1, <2>3, <2>4 DEF InTime
  <2> QED BY <2>5, <2>6 DEF ObeyedCommandEndsInTime, CommandDeadline
<1> QED BY <1>1, <1>2, <1>3, AlwaysTyped, PTL DEF Spec, Typed

-----------------------------------------------------------------------------
(***************************************************************************)
(* A whole output is understood: the lines of the current command tally    *)
(* with what the router counts, packet by packet.                          *)
(***************************************************************************)
Own        == SubSeq(out, begins[Len(begins)] + 1, Len(out))
Many(kind) == Cardinality(Found(Own, kind))

Tallied == Many("reply") + Many("unreadable") = received /\ Many("timeout") = TimedOut
Counted(kind, number) == \E k : Found(Own, kind) = {k} /\ Own[k].number = number
OwnIsTallied ==
  begins # <<>> =>
    /\ phase = "echoed" => Own = <<>> /\ received = 0 /\ TimedOut = 0
    /\ phase = "pinging" => Tallied /\ Found(Own, "sent") = {} /\ Found(Own, "received") = {}
    /\ phase = "idle" =>
         \/ Found(Own, "error") # {}
         \/ /\ Tallied /\ Counted("sent", sent) /\ Counted("received", received)
            /\ broken \/ Late = 0

\* The end of a text that grows.
LEMMA CutJoined ==
  ASSUME NEW S, NEW s \in Seq(S), NEW t \in Seq(S), NEW b \in 1 .. Len(s)
  PROVE  LET a == SubSeq(s, b + 1, Len(s))
         IN a \in Seq(S) /\ SubSeq(s \o t, b + 1, Len(s \o t)) = a \o t
<1> DEFINE a == SubSeq(s, b + 1, Len(s))
           j == s \o t
           c == SubSeq(j, b + 1, Len(j))
<1>1. /\ Len(s) \in Nat /\ Len(t) \in Nat /\ j \in Seq(S) /\ Len(j) = Len(s) + Len(t)
      /\ \A i \in 1 .. Len(s) : j[i] = s[i]
      /\ \A i \in 1 .. Len(t) : j[Len(s) + i] = t[i]
  BY Joined
<1>2. /\ \A i \in b + 1 .. Len(s) : s[i] \in S
      /\ b + 1 \in Int /\ Len(s) \in Int
  BY <1>1
<1> HIDE DEF j
<1>3. /\ a \in Seq(S) /\ Len(a) = Len(s) - b
      /\ \A i \in 1 .. Len(s) - b : a[i] = s[b + i]
  <2>1. /\ a \in Seq(S) /\ Len(a) = (IF b + 1 <= Len(s) THEN Len(s) - (b + 1) + 1 ELSE 0)
        /\ \A i \in 1 .. Len(s) - (b + 1) + 1 : a[i] = s[(b + 1) + i - 1]
    BY <1>2, SubSeqProperties
  <2> HIDE DEF a
  <2>2. Len(a) = Len(s) - b
    BY <1>1, <2>1
  <2>3. ASSUME NEW i \in 1 .. Len(s) - b PROVE a[i] = s[b + i]
    <3>1. i \in 1 .. Len(s) - (b + 1) + 1 /\ (b + 1) + i - 1 = b + i
      BY <1>1
    <3> QED BY <2>1, <3>1
  <2> QED BY <2>1, <2>2, <2>3
<1>4. /\ c \in Seq(S) /\ Len(c) = Len(j) - b
      /\ \A i \in 1 .. Len(j) - b : c[i] = j[b + i]
  <2>1. /\ \A i \in b + 1 .. Len(j) : j[i] \in S
        /\ b + 1 \in Int /\ Len(j) \in Int
    BY <1>1
  <2>2. /\ c \in Seq(S) /\ Len(c) = (IF b + 1 <= Len(j) THEN Len(j) - (b + 1) + 1 ELSE 0)
        /\ \A i \in 1 .. Len(j) - (b + 1) + 1 : c[i] = j[(b + 1) + i - 1]
    BY <2>1, SubSeqProperties
  <2> HIDE DEF c
  <2>3. Len(c) = Len(j) - b
    BY <1>1, <2>2
  <2>4. ASSUME NEW i \in 1 .. Len(j) - b PROVE c[i] = j[b + i]
    <3>1. i \in 1 .. Len(j) - (b + 1) + 1 /\ (b + 1) + i - 1 = b + i
      BY <1>1
    <3> QED BY <2>2, <3>1
  <2> QED BY <2>2, <2>3, <2>4
<1> HIDE DEF a, c
<1>5. /\ a \o t \in Seq(S) /\ Len(a \o t) = Len(a) + Len(t)
      /\ \A i \in 1 .. Len(a) : (a \o t)[i] = a[i]
      /\ \A i \in 1 .. Len(t) : (a \o t)[Len(a) + i] = t[i]
  <2>1. a \in Seq(S)
    BY <1>3
  <2> QED BY <2>1, Joined
<1>6. Len(c) = Len(a \o t)
  BY <1>1, <1>3, <1>4, <1>5
<1>7. ASSUME NEW i \in 1 .. Len(c) PROVE c[i] = (a \o t)[i]
  <2>1. CASE i <= Len(a)
    <3>1. i \in 1 .. Len(s) - b /\ i \in 1 .. Len(j) - b /\ b + i \in 1 .. Len(s)
      BY <1>1, <1>3, <1>4, <2>1
    <3> QED BY <1>1, <1>3, <1>4, <1>5, <3>1
  <2>2. CASE ~(i <= Len(a))
    <3>1. /\ i \in 1 .. Len(j) - b /\ i - Len(a) \in 1 .. Len(t)
          /\ b + i = Len(s) + (i - Len(a)) /\ i = Len(a) + (i - Len(a))
      BY <1>1, <1>3, <1>4, <2>2
    <3> QED BY <1>1, <1>4, <1>5, <3>1
  <2> QED BY <2>1, <2>2
<1>8. c = a \o t
  BY <1>4, <1>5, <1>6, <1>7, SeqEqual
<1> QED BY <1>3, <1>8 DEF a, c, j

\* The lines of a kind, in a text that grows.
LEMMA FoundJoined ==
  ASSUME NEW s \in Seq(PrintedLine), NEW t \in Seq(PrintedLine), NEW kind
  PROVE  Found(s \o t, kind) = Found(s, kind) \cup {Len(s) + i : i \in Found(t, kind)}
<1>1. /\ s \o t \in Seq(PrintedLine)
      /\ Len(s) \in Nat /\ Len(t) \in Nat /\ Len(s \o t) = Len(s) + Len(t)
      /\ \A i \in 1 .. Len(s) : (s \o t)[i] = s[i]
      /\ \A i \in 1 .. Len(t) : (s \o t)[Len(s) + i] = t[i]
  BY Joined
<1>2. /\ DOMAIN s = 1 .. Len(s) /\ DOMAIN t = 1 .. Len(t)
      /\ DOMAIN (s \o t) = 1 .. Len(s) + Len(t)
  BY <1>1, LenProperties
<1>3. ASSUME NEW k \in Found(s \o t, kind)
      PROVE  k \in Found(s, kind) \cup {Len(s) + i : i \in Found(t, kind)}
  <2>1. k \in 1 .. Len(s) + Len(t) /\ (s \o t)[k].kind = kind
    BY <1>2 DEF Found
  <2>2. CASE k <= Len(s)
    <3>1. k \in 1 .. Len(s)
      BY <1>1, <2>1, <2>2
    <3> QED BY <1>1, <1>2, <2>1, <3>1 DEF Found
  <2>3. CASE ~(k <= Len(s))
    <3>1. k - Len(s) \in 1 .. Len(t) /\ k = Len(s) + (k - Len(s))
      BY <1>1, <2>1, <2>3
    <3>2. k - Len(s) \in Found(t, kind)
      BY <1>1, <1>2, <2>1, <3>1 DEF Found
    <3> QED BY <3>1, <3>2
  <2> QED BY <2>2, <2>3
<1>4. Found(s, kind) \subseteq Found(s \o t, kind)
  BY <1>1, <1>2 DEF Found
<1>5. ASSUME NEW i \in Found(t, kind) PROVE Len(s) + i \in Found(s \o t, kind)
  <2>1. i \in 1 .. Len(t) /\ t[i].kind = kind
    BY <1>2 DEF Found
  <2>2. Len(s) + i \in 1 .. Len(s) + Len(t)
    BY <1>1, <2>1
  <2> QED BY <1>1, <1>2, <2>1, <2>2 DEF Found
<1> QED BY <1>3, <1>4, <1>5

LEMMA FoundNothing ==
  ASSUME NEW kind
  PROVE  Found(<<>>, kind) = {} /\ Cardinality({}) = 0
BY FS_EmptySet DEF Found

LEMMA FoundFinite ==
  ASSUME NEW s \in Seq(PrintedLine), NEW kind
  PROVE  IsFiniteSet(Found(s, kind)) /\ Cardinality(Found(s, kind)) \in Nat
<1>1. Len(s) \in Nat /\ DOMAIN s = 1 .. Len(s)
  BY LenProperties
<1>2. IsFiniteSet(1 .. Len(s))
  BY <1>1, FS_Interval
<1>3. Found(s, kind) \in SUBSET (1 .. Len(s))
  BY <1>1 DEF Found
<1> QED BY <1>2, <1>3, FS_Subset, FS_CardinalityType

\* One more line counts for its kind only.
LEMMA FoundOne ==
  ASSUME NEW s \in Seq(PrintedLine), NEW e \in PrintedLine, NEW kind
  PROVE  /\ Found(s \o <<e>>, kind) =
              IF e.kind = kind THEN Found(s, kind) \cup {Len(s) + 1} ELSE Found(s, kind)
         /\ Cardinality(Found(s, kind)) \in Nat
         /\ Cardinality(Found(s \o <<e>>, kind)) =
              IF e.kind = kind THEN Cardinality(Found(s, kind)) + 1
                               ELSE Cardinality(Found(s, kind))
<1>1. /\ <<e>> \in Seq(PrintedLine) /\ Len(s) \in Nat /\ DOMAIN s = 1 .. Len(s)
  BY LenProperties
<1>2. Found(<<e>>, kind) = IF e.kind = kind THEN {1} ELSE {}
  BY DEF Found
<1>3. Found(s \o <<e>>, kind) =
        IF e.kind = kind THEN Found(s, kind) \cup {Len(s) + 1} ELSE Found(s, kind)
  <2>1. Found(s \o <<e>>, kind) = Found(s, kind) \cup {Len(s) + i : i \in Found(<<e>>, kind)}
    BY <1>1, FoundJoined
  <2>2. {Len(s) + i : i \in {1}} = {Len(s) + 1} /\ {Len(s) + i : i \in {}} = {}
    OBVIOUS
  <2> QED BY <1>2, <2>1, <2>2
<1>4. IsFiniteSet(Found(s, kind)) /\ Cardinality(Found(s, kind)) \in Nat
  BY FoundFinite
<1>5. Len(s) + 1 \notin Found(s, kind)
  BY <1>1 DEF Found
<1> QED BY <1>3, <1>4, <1>5, FS_AddElement

\* The output of the current command grows with the text.
LEMMA OwnGrows ==
  ASSUME Typed, begins # <<>>, begins' = begins, NEW lines \in Seq(PrintedLine),
         out' = out \o lines
  PROVE  Own \in Seq(PrintedLine) /\ Own' = Own \o lines
<1>1. out \in Seq(PrintedLine) /\ begins[Len(begins)] \in 1 .. Len(out)
  BY DEF Typed, TextTyped
<1> QED BY <1>1, CutJoined DEF Own

\* What one line adds to the tally.
LEMMA TallyOne ==
  ASSUME Typed, begins # <<>>, begins' = begins, NEW k \in Kinds, Adds(<<Text(k)>>), NEW kind
  PROVE  /\ Many(kind) \in Nat
         /\ Many(kind)' = IF k = kind THEN Many(kind) + 1 ELSE Many(kind)
         /\ k # kind => Found(Own, kind)' = Found(Own, kind)
         /\ k = kind => Found(Own, kind)' # {}
<1>1. Text(k) \in PrintedLine /\ Text(k).kind = k
  BY JobTypes DEF Text, Line, PrintedLine, Typed, CountsTyped
<1>2. Own \in Seq(PrintedLine) /\ Own' = Own \o <<Text(k)>>
  BY OwnGrows DEF Adds
<1>3. Found(Own, kind)' = Found(Own \o <<Text(k)>>, kind)
  BY <1>2 DEF Found
<1>4. /\ Found(Own, kind)' = IF k = kind THEN Found(Own, kind) \cup {Len(Own) + 1} ELSE Found(Own, kind)
      /\ Cardinality(Found(Own, kind)) \in Nat
      /\ Cardinality(Found(Own, kind)') =
           IF k = kind THEN Cardinality(Found(Own, kind)) + 1 ELSE Cardinality(Found(Own, kind))
  BY <1>1, <1>2, <1>3, FoundOne
<1> QED BY <1>4 DEF Many

LEMMA TallyNext ==
  ASSUME Typed, OwnIsTallied, [Next]_vars
  PROVE  OwnIsTallied'
<1>1. /\ TimedOut \in Nat /\ received \in Nat
      /\ phase # "idle" => begins # <<>>
  BY TimedOutType DEF Typed, TextTyped, CountsTyped
<1>2. CASE Echo
  <2>1. phase' = "echoed" /\ sent' = 0 /\ received' = 0 /\ begins' = Append(begins, Len(out) + 1)
    BY <1>2 DEF Echo
  <2>2. Adds(<<Text("echo")>>)
    BY <1>2, WhatIsPrinted
  <2>3. /\ Len(out) \in Nat /\ Len(out') = Len(out) + 1 /\ out' \in Seq(PrintedLine)
    <3>1. out \in Seq(PrintedLine)
      BY DEF Typed, TextTyped
    <3> QED BY <2>2, <3>1, Joined DEF Adds
  <2>4. begins'[Len(begins')] = Len(out')
    <3>1. begins \in Seq(Nat) /\ Len(out) + 1 \in Nat
      BY <2>3 DEF Typed, TextTyped
    <3> QED BY <2>1, <2>3, <3>1, AppendProperties
  <2>5. Own' = <<>>
    <3>1. \A b \in Nat : b + 1 > b /\ b + 1 \in Int /\ b \in Int
      OBVIOUS
    <3>2. SubSeq(out', Len(out') + 1, Len(out')) = <<>>
      BY <2>3, <3>1, SubSeqEmpty
    <3> QED BY <2>4, <3>2 DEF Own
  <2>6. TimedOut' = 0
    <3>1. Late' = 0
      BY <1>2, LateNext DEF Typed
    <3> QED BY <2>1, <3>1 DEF TimedOut
  <2> QED BY <2>1, <2>5, <2>6 DEF OwnIsTallied
<1>3. CASE Refuse
  <2>1. begins' = begins /\ phase' = "idle" /\ phase = "echoed" /\ Adds(<<Text("error")>>)
    BY <1>3, WhatIsPrinted DEF Refuse
  <2>2. "error" \in Kinds
    BY DEF Kinds
  <2>3. Found(Own, "error")' # {}
    BY <1>1, <2>1, <2>2, TallyOne
  <2> QED BY <2>1, <2>3 DEF OwnIsTallied
<1>4. CASE Header
  <2>1. /\ begins' = begins /\ phase' = "pinging" /\ phase = "echoed" /\ Adds(<<Text("head")>>)
        /\ received' = received
    BY <1>4, WhatIsPrinted DEF Header
  <2>2. Own = <<>> /\ received = 0 /\ TimedOut = 0
    BY <1>1, <2>1 DEF OwnIsTallied
  <2>3. TimedOut' = TimedOut
    BY <1>4, TimedOutNext DEF Typed
  <2>4. \A kind \in {"reply", "unreadable", "timeout", "sent", "received"} :
          Found(Own, kind)' = {} /\ Many(kind)' = 0
    <3> TAKE kind \in {"reply", "unreadable", "timeout", "sent", "received"}
    <3>1. "head" \in Kinds /\ "head" # kind
      BY DEF Kinds
    <3>2. Found(Own, kind) = {} /\ Many(kind) = 0
      BY <2>2, FoundNothing DEF Many
    <3> QED BY <1>1, <2>1, <3>1, <3>2, TallyOne
  <2> QED BY <2>1, <2>2, <2>3, <2>4 DEF OwnIsTallied, Tallied
<1>5. CASE Reply
  <2>1. /\ begins' = begins /\ phase' = "pinging" /\ phase = "pinging" /\ received' = received + 1
    BY <1>5 DEF Reply
  <2>2. PICK k \in {"reply", "unreadable"} : Adds(<<Text(k)>>)
    BY <1>5, WhatIsPrinted
  <2>3. Tallied /\ Found(Own, "sent") = {} /\ Found(Own, "received") = {}
    BY <1>1, <2>1 DEF OwnIsTallied
  <2>4. TimedOut' = TimedOut
    BY <1>5, TimedOutNext DEF Typed
  <2>5. k \in Kinds /\ begins # <<>>
    BY <1>1, <2>1 DEF Kinds
  <2>6. /\ Many("timeout")' = Many("timeout")
        /\ Found(Own, "sent")' = {} /\ Found(Own, "received")' = {}
    BY <2>1, <2>2, <2>3, <2>5, TallyOne
  <2>7. /\ Many("reply") \in Nat /\ Many("unreadable") \in Nat
        /\ Many("reply")' = IF k = "reply" THEN Many("reply") + 1 ELSE Many("reply")
        /\ Many("unreadable")' = IF k = "unreadable" THEN Many("unreadable") + 1 ELSE Many("unreadable")
    BY <2>1, <2>2, <2>5, TallyOne
  <2>8. Many("reply")' + Many("unreadable")' = received'
    BY <1>1, <2>1, <2>2, <2>3, <2>7 DEF Tallied
  <2> QED BY <2>1, <2>3, <2>4, <2>6, <2>8 DEF OwnIsTallied, Tallied
<1>6. CASE TimeOut
  <2>1. /\ begins' = begins /\ phase' = "pinging" /\ phase = "pinging" /\ received' = received
        /\ Adds(<<Text("timeout")>>)
    BY <1>6, WhatIsPrinted DEF TimeOut
  <2>2. Tallied /\ Found(Own, "sent") = {} /\ Found(Own, "received") = {}
    BY <1>1, <2>1 DEF OwnIsTallied
  <2>3. TimedOut' = TimedOut + 1
    BY <1>6, TimedOutNext DEF Typed
  <2>4. "timeout" \in Kinds /\ begins # <<>>
    BY <1>1, <2>1 DEF Kinds
  <2>5. /\ Many("timeout")' = Many("timeout") + 1
        /\ Many("reply")' = Many("reply") /\ Many("unreadable")' = Many("unreadable")
        /\ Found(Own, "sent")' = {} /\ Found(Own, "received")' = {}
    BY <2>1, <2>2, <2>4, TallyOne
  <2> QED BY <2>1, <2>2, <2>3, <2>5 DEF OwnIsTallied, Tallied
<1>7. CASE Send \/ Stall \/ CtrlC \/ UNCHANGED vars
  <2>1. /\ UNCHANGED <<out, begins, phase, received>> /\ (Send \/ phase # "idle" \/ UNCHANGED vars)
        /\ Send => phase = "pinging"
    BY <1>7 DEF Send, Stall, CtrlC, vars
  <2>2. TimedOut' = TimedOut
    BY <1>7, TimedOutNext DEF Typed
  <2>3. /\ Own' = Own /\ \A kind : Found(Own, kind)' = Found(Own, kind)
        /\ Tallied' = Tallied
    BY <2>1, <2>2 DEF Own, Found, Tallied, Many
  <2>4. CASE phase # "idle"
    BY <2>1, <2>2, <2>3, <2>4 DEF OwnIsTallied
  <2>5. CASE phase = "idle"
    <3>1. UNCHANGED vars
      BY <2>1, <2>5
    <3>2. UNCHANGED <<sent, broken>> /\ Late' = Late
      BY <3>1 DEF vars, Late
    <3>3. Counted("sent", sent)' = Counted("sent", sent)
          /\ Counted("received", received)' = Counted("received", received)
      BY <2>1, <2>3, <3>2 DEF Counted
    <3> QED BY <2>1, <2>3, <2>5, <3>2, <3>3 DEF OwnIsTallied
  <2> QED BY <2>4, <2>5
<1>8. CASE Statistics
  <2> DEFINE t == <<Text("statistics"), Line("sent", sent), Line("received", received)>>
  <2>1. /\ begins' = begins /\ phase' = "idle" /\ phase = "pinging"
        /\ UNCHANGED <<sent, received, broken>>
        /\ t \in Seq(PrintedLine) /\ out' = out \o t
    BY <1>8, WhatIsPrinted DEF Statistics, Adds
  <2>2. Tallied /\ Found(Own, "sent") = {} /\ Found(Own, "received") = {} /\ begins # <<>>
    BY <1>1, <2>1 DEF OwnIsTallied
  <2>3. TimedOut' = TimedOut /\ Late' = Late
    BY <1>8, TimedOutNext, LateNext DEF Typed
  <2>4. broken \/ Late = 0
    BY <1>8 DEF Statistics, Late
  <2>5. /\ t[2].number = sent /\ t[3].number = received /\ Len(t) = 3
        /\ Found(t, "sent") = {2} /\ Found(t, "received") = {3}
        /\ \A kind \in {"reply", "unreadable", "timeout"} : Found(t, kind) = {}
    BY DEF Found, Text, Line
  <2> HIDE DEF t
  <2>6. Own \in Seq(PrintedLine) /\ Own' = Own \o t
    BY <2>1, <2>2, OwnGrows
  <2>7. \A kind : Found(Own, kind)' = Found(Own, kind) \cup {Len(Own) + i : i \in Found(t, kind)}
    <3> TAKE kind
    <3>1. Found(Own, kind)' = Found(Own \o t, kind)
      BY <2>6 DEF Found
    <3> QED BY <2>1, <2>6, <3>1, FoundJoined
  <2>8. \A kind \in {"reply", "unreadable", "timeout"} : Many(kind)' = Many(kind)
    <3> TAKE kind \in {"reply", "unreadable", "timeout"}
    <3>1. Found(Own, kind)' = Found(Own, kind)
      <4>1. Found(Own, kind)' = Found(Own, kind) \cup {Len(Own) + i : i \in {}}
        BY <2>5, <2>7
      <4> QED BY <4>1
    <3> QED BY <3>1 DEF Many
  <2>9. /\ Found(Own, "sent")' = {Len(Own) + 2} /\ Found(Own, "received")' = {Len(Own) + 3}
    <3>1. {Len(Own) + i : i \in {2}} = {Len(Own) + 2} /\ {Len(Own) + i : i \in {3}} = {Len(Own) + 3}
      OBVIOUS
    <3>2. /\ Found(Own, "sent")' = Found(Own, "sent") \cup {Len(Own) + i : i \in {2}}
          /\ Found(Own, "received")' = Found(Own, "received") \cup {Len(Own) + i : i \in {3}}
      BY <2>5, <2>7
    <3> QED BY <2>2, <3>1, <3>2
  <2>10. Own'[Len(Own) + 2] = t[2] /\ Own'[Len(Own) + 3] = t[3]
    <3>1. 2 \in 1 .. Len(t) /\ 3 \in 1 .. Len(t)
      BY <2>5
    <3>2. \A i \in 1 .. Len(t) : Own'[Len(Own) + i] = t[i]
      BY <2>1, <2>6, Joined
    <3> QED BY <3>1, <3>2
  <2>11. Counted("sent", sent)' /\ Counted("received", received)'
    BY <2>1, <2>5, <2>9, <2>10 DEF Counted
  <2>12. Tallied'
    BY <2>1, <2>2, <2>3, <2>8 DEF Tallied
  <2> QED BY <2>1, <2>3, <2>4, <2>11, <2>12 DEF OwnIsTallied
<1> QED BY <1>2, <1>3, <1>4, <1>5, <1>6, <1>7, <1>8 DEF Next

\* A whole output is understood: unless the router refused the command or gave
\* a reply in another format, ParseOutput finds the packets the router sent
\* and the answers it got, and of a command that was not interrupted the
\* timeouts make up the rest, as runJob expects (huawei.go:91-115,
\* scheduler.go:231).
THEOREM WholeOutputsAreUnderstood == Spec => []WholeOutputIsUnderstood
<1>1. Init => OwnIsTallied
  BY DEF Init, OwnIsTallied
<1>2. Typed /\ OwnIsTallied /\ [Next]_vars => OwnIsTallied'
  BY TallyNext
<1>3. ASSUME Typed, OwnIsTallied PROVE WholeOutputIsUnderstood
  <2> DEFINE res == ParseOutput(Own)
  <2> SUFFICES ASSUME begins # <<>>, phase = "idle", Found(Own, "error") = {},
                      Found(Own, "unreadable") = {}
               PROVE  /\ res.ok
                      /\ [sent |-> res.sent, received |-> res.replies] =
                           [sent |-> sent, received |-> received]
                      /\ broken \/ res.sent = res.replies + res.timeouts
    BY DEF WholeOutputIsUnderstood, Own
  <2>1. /\ Tallied /\ Counted("sent", sent) /\ Counted("received", received)
        /\ broken \/ Late = 0
    BY <1>3 DEF OwnIsTallied
  <2>2. Own \in Seq(PrintedLine)
    <3>1. out \in Seq(PrintedLine) /\ begins[Len(begins)] \in 1 .. Len(out)
      BY <1>3 DEF Typed, TextTyped
    <3> QED BY <3>1, EmptySeq, CutJoined DEF Own
  <2>3. /\ Found(Own, "sent") # {} /\ First(Own, "sent") = sent
        /\ Found(Own, "received") # {} /\ First(Own, "received") = received
    BY <2>1, <2>2, FirstLine DEF Counted
  <2>4. Cardinality(Found(Own, "reply")) = received
    <3>1. "head" \in Kinds /\ Cardinality({}) = 0
      BY FS_EmptySet DEF Kinds
    <3>2. Many("unreadable") = 0
      BY <3>1 DEF Many
    <3>3. Cardinality(Found(Own, "reply")) \in Nat
      BY <2>2, FoundFinite
    <3> QED BY <2>1, <3>2, <3>3 DEF Tallied, Many
  <2>5. res = [ok |-> TRUE, sent |-> sent, replies |-> received,
               timeouts |-> Cardinality(Found(Own, "timeout"))]
    BY <2>3, <2>4 DEF ParseOutput
  <2>6. Cardinality(Found(Own, "timeout")) = sent - received - Late
    BY <2>1 DEF Tallied, Many, TimedOut
  <2>7. broken \/ sent = received + Cardinality(Found(Own, "timeout"))
    <3>1. sent \in Nat /\ received \in Nat
      BY <1>3, JobTypes DEF Typed, CountsTyped
    <3>2. \A s, r \in Nat : s = r + (s - r - 0)
      OBVIOUS
    <3> QED BY <2>1, <2>6, <3>1, <3>2
  <2> QED BY <2>5, <2>7
<1> QED BY <1>1, <1>2, <1>3, AlwaysTyped, PTL DEF Spec
=============================================================================
