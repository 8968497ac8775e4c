---------------------------- MODULE SessionProofs -----------------------------
(***************************************************************************)
(* Proofs about a session, for any number of runs and stray prompts and    *)
(* any capacity of the channel.                                            *)
(***************************************************************************)
EXTENDS Session, SequenceTheorems, TLAPS

USE RunsAssumption, ChunkAssumption, StrayAssumption

-----------------------------------------------------------------------------
(***************************************************************************)
(* Type correctness.  Only a prompt or a question can be nobody's.         *)
(***************************************************************************)
RealPiece == {p \in Piece : p.kind \in {"echo", "out"} => p.of \in Runs}

Typed ==
  /\ TypeOK
  /\ {buf, held, stdout} \subseteq Seq(RealPiece)
  /\ chunks \in Seq(Seq(RealPiece))
  /\ strays <= strayed

LEMMA NoPieces ==
  /\ <<>> \in Seq(Piece) /\ <<>> \in Seq(RealPiece) /\ Len(<<>>) = 0
  /\ <<>> \in Seq(Seq(Piece)) /\ <<>> \in Seq(Seq(RealPiece))
  /\ <<>> \in Seq(Runs \cup {CtrlC})
BY EmptySeq

LEMMA TypedInit == Init => Typed
<1> SUFFICES ASSUME Init PROVE Typed
  OBVIOUS
<1>1. Nothing \in [run : Runs \cup {Nobody}, how : {"none", "ok", "timeout", "closed"},
                  outs : SUBSET Runs]
  BY DEF Nothing
<1>2. /\ {buf, held, stdout} \subseteq Seq(RealPiece) \cap Seq(Piece)
      /\ chunks \in Seq(Seq(RealPiece)) \cap Seq(Seq(Piece)) /\ Len(chunks) <= ChunkCap
      /\ stdin \in Seq(Runs \cup {CtrlC})
  BY NoPieces DEF Init
<1>3. /\ pc = "connect" /\ n \in Runs /\ running \in Runs \cup {Nobody}
      /\ 0 \in 0 .. MaxStray
  BY DEF Init, Runs
<1>4. /\ conn = "none" /\ reader = "none" /\ armed = FALSE /\ printed = FALSE
      /\ ret = Nothing /\ strays = 0 /\ strayed = 0
  BY DEF Init
<1>5. TypeOK
  BY <1>1, <1>2, <1>3, <1>4 DEF TypeOK
<1>6. strays <= strayed
  BY <1>4
<1> QED BY <1>2, <1>5, <1>6 DEF Typed

LEMMA RealPieces == Seq(RealPiece) \subseteq Seq(Piece)
<1>1. RealPiece \subseteq Piece
  BY DEF RealPiece
<1> QED BY <1>1, SeqMonotonic

LEMMA OutputType ==
  ASSUME Typed
  PROVE  Output \subseteq Runs
BY DEF Typed, Output, RealPiece

\* The steps of the goroutine that calls Dial, Run and Close.
LEMMA CallerType ==
  ASSUME Typed, Caller \/ StartRun \/ Close \/ Grants
  PROVE  Typed'
<1> USE DEF Typed, TypeOK, caller, link, stream, router, Asking, Waiting, Shut
<1>1. CASE Connect \/ ConnectFails \/ Unblocked \/ LoggedIn \/ Refused \/ Close
  BY <1>1 DEF Connect, ConnectFails, Unblocked, LoggedIn, Refused, Close
<1>2. CASE ShellOpens
  <2>1. \A kind \in {"prompt", "question"} : [kind |-> kind, of |-> Nobody] \in RealPiece
    BY DEF RealPiece, Piece
  <2>2. \A piece \in RealPiece : <<piece>> \in Seq(RealPiece)
    OBVIOUS
  <2>3. stdout' \in Seq(RealPiece)
    BY <1>2, <2>1, <2>2, NoPieces DEF ShellOpens, Prompt
  <2> QED BY <1>2, <2>3, RealPieces DEF ShellOpens
<1>3. CASE Learned \/ LoginFails \/ RunTimeout
  BY <1>3, NoPieces DEF Learned, LoginFails, RunTimeout
<1>4. CASE StartRun
  BY <1>4, NoPieces DEF StartRun, Runs
<1>5. CASE DrainChunk
  BY <1>5 DEF DrainChunk
<1>6. CASE Write \/ Interrupt
  <2>1. \A line \in Runs \cup {CtrlC} : Append(stdin, line) \in Seq(Runs \cup {CtrlC})
    BY AppendProperties
  <2> QED BY <1>6, <2>1 DEF Write, Interrupt
<1>7. CASE WriteFails \/ Gone \/ SettleTimeout
  BY <1>7 DEF WriteFails, Gone, SettleTimeout, ReturnClosed, Returns
<1>8. CASE Receive
  <2>1. Head(chunks) \in Seq(RealPiece) /\ Tail(chunks) \in Seq(Seq(RealPiece))
        /\ Tail(chunks) \in Seq(Seq(Piece)) /\ Len(Tail(chunks)) = Len(chunks) - 1
    BY <1>8, HeadTailProperties DEF Receive
  <2>2. buf' \in Seq(RealPiece)
    BY <1>8, <2>1, ConcatProperties DEF Receive
  <2> QED BY <1>8, <2>1, <2>2, RealPieces DEF Receive
<1>9. CASE Answered
  <2>1. [run |-> n, how |-> "ok", outs |-> Output] \in
          [run : Runs \cup {Nobody}, how : {"none", "ok", "timeout", "closed"},
           outs : SUBSET Runs]
    BY OutputType
  <2> QED BY <1>9, <2>1, NoPieces DEF Answered, ReturnKept, Returns
<1>10. CASE Settled
  BY <1>10, NoPieces DEF Settled, ReturnKept, Returns
<1> QED
  BY <1>1, <1>2, <1>3, <1>4, <1>5, <1>6, <1>7, <1>8, <1>9, <1>10 DEF Caller, Grants

LEMMA ReadLoopType ==
  ASSUME Typed, ReadLoop
  PROVE  Typed'
<1> USE DEF Typed, TypeOK, caller, link, router
<1>1. CASE Read
  <2>1. PICK k \in 1 .. Len(stdout) : /\ held' = SubSeq(stdout, 1, k)
                                      /\ stdout' = SubSeq(stdout, k + 1, Len(stdout))
    BY <1>1 DEF Read
  <2>2. held' \in Seq(RealPiece) /\ stdout' \in Seq(RealPiece)
    BY <2>1, SubSeqProperties
  <2> QED BY <1>1, <2>2, RealPieces DEF Read
<1>2. CASE SendChunk
  BY <1>2, AppendProperties DEF SendChunk
<1>3. CASE ReadFails
  BY <1>3 DEF ReadFails
<1> QED BY <1>1, <1>2, <1>3 DEF ReadLoop

LEMMA RouterType ==
  ASSUME Typed, Router \/ Disconnect \/ DeadlinePasses
  PROVE  Typed'
<1> USE DEF Typed, TypeOK, caller, link, stream, router
<1>1. ASSUME NEW piece \in RealPiece, Prints(piece)
      PROVE  stdout' \in Seq(RealPiece) /\ stdout' \in Seq(Piece)
  BY <1>1, RealPieces, AppendProperties DEF Prints
<1>2. CASE TakeCommand
  <2>1. Head(stdin) \in Runs /\ Tail(stdin) \in Seq(Runs \cup {CtrlC})
    BY <1>2 DEF TakeCommand
  <2>2. [kind |-> "echo", of |-> Head(stdin)] \in RealPiece
    BY <2>1 DEF RealPiece, Piece
  <2> QED BY <1>1, <1>2, <2>1, <2>2 DEF TakeCommand
<1>3. CASE PrintOutput
  <2>1. [kind |-> "out", of |-> running] \in RealPiece
    BY <1>3 DEF PrintOutput, RealPiece, Piece
  <2> QED BY <1>1, <1>3, <2>1 DEF PrintOutput
<1>4. \A r \in Runs \cup {Nobody} : Prompt(r) \in RealPiece
  BY DEF Prompt, RealPiece, Piece
<1>5. CASE Finish
  BY <1>1, <1>4, <1>5 DEF Finish
<1>6. CASE TakeCtrlC
  BY <1>1, <1>4, <1>6 DEF TakeCtrlC
<1>7. CASE IgnoreCtrlC
  BY <1>7 DEF IgnoreCtrlC
<1>8. CASE StrayPrompt
  BY <1>1, <1>4, <1>8 DEF StrayPrompt
<1>9. CASE Disconnect \/ DeadlinePasses
  BY <1>9 DEF Disconnect, DeadlinePasses
<1> QED BY <1>2, <1>3, <1>5, <1>6, <1>7, <1>8, <1>9 DEF Router

LEMMA TypedNext == Typed /\ [Next]_vars => Typed'
<1>1. CASE UNCHANGED vars
  BY <1>1 DEF vars, caller, link, stream, router, Typed, TypeOK
<1> QED BY <1>1, CallerType, ReadLoopType, RouterType DEF Next

LEMMA AlwaysTyped == Spec => []Typed
BY TypedInit, TypedNext, PTL DEF Spec

\* Every variable keeps its type, and the channel of readLoop holds at most
\* its capacity (session.go:184).
THEOREM SessionTypes == Spec => []TypeOK
BY AlwaysTyped, PTL DEF Typed

-----------------------------------------------------------------------------
(***************************************************************************)
(* The connection and its deadline.                                        *)
(***************************************************************************)
Dialled == DialIsOver /\ (pc = "connect" => conn = "none")

LEMMA DialledNext ==
  ASSUME Dialled, [Next]_vars
  PROVE  Dialled'
<1> USE DEF Dialled, DialIsOver, caller, link, stream, router
<1>1. CASE Caller
  BY <1>1 DEF Caller, Connect, ConnectFails, Unblocked, Learned, LoginFails, DrainChunk,
     Write, WriteFails, Receive, Gone, Answered, RunTimeout, Interrupt, Settled,
     SettleTimeout, ReturnKept, ReturnClosed, Shut, Waiting
<1>2. CASE StartRun \/ Close \/ Grants
  BY <1>2 DEF StartRun, Close, Grants, LoggedIn, ShellOpens, Refused, Shut
<1>3. CASE ReadLoop
  BY <1>3 DEF ReadLoop, Read, SendChunk, ReadFails
<1>4. CASE Router
  BY <1>4 DEF Router, TakeCommand, PrintOutput, Finish, TakeCtrlC, IgnoreCtrlC,
     StrayPrompt
<1>5. CASE Disconnect \/ DeadlinePasses
  BY <1>5 DEF Disconnect, DeadlinePasses
<1>6. CASE UNCHANGED vars
  BY <1>6 DEF vars
<1> QED BY <1>1, <1>2, <1>3, <1>4, <1>5, <1>6 DEF Next

\* A session that is closed, or that Dial did not return, has no connection;
\* one that Dial returned has no deadline left on it (session.go:93-120).
THEOREM DialLeavesNothing == Spec => []DialIsOver
<1>1. Init => Dialled
  BY DEF Init, Dialled, DialIsOver
<1>2. Dialled /\ [Next]_vars => Dialled'
  BY DialledNext
<1>3. Dialled => DialIsOver
  BY DEF Dialled
<1> QED BY <1>1, <1>2, <1>3, PTL DEF Spec

-----------------------------------------------------------------------------
(***************************************************************************)
(* The order of the stream.  The runs whose echo or output is read, in the *)
(* channel, held by readLoop or on its way, the run the router works on    *)
(* and the commands it has not read follow each other.                     *)
(***************************************************************************)
Told(piece)   == piece.kind \in {"echo", "out"}
Tells(s)      == {s[i].of : i \in {k \in DOMAIN s : Told(s[k])}}
Precede(A, B) == \A a \in A, b \in B : a <= b
Ordered(s)    == \A i, j \in DOMAIN s :
                   i <= j /\ Told(s[i]) /\ Told(s[j]) => s[i].of <= s[j].of

Commands == {stdin[i] : i \in DOMAIN stdin} \ {CtrlC}
Ahead    == ({running} \ {Nobody}) \cup Commands

Arriving ==
  /\ Ordered(held) /\ Ordered(stdout)
  /\ Precede(Tells(held), Tells(stdout))
  /\ Precede(Tells(held) \cup Tells(stdout), Ahead \cup {n})
Queued ==
  \A c \in DOMAIN chunks :
    /\ Ordered(chunks[c])
    /\ \A d \in DOMAIN chunks : c < d => Precede(Tells(chunks[c]), Tells(chunks[d]))
    /\ Precede(Tells(chunks[c]), Tells(held) \cup Tells(stdout) \cup Ahead \cup {n})
Received ==
  /\ Ordered(buf)
  /\ \A c \in DOMAIN chunks : Precede(Tells(buf), Tells(chunks[c]))
  /\ Precede(Tells(buf), Tells(held) \cup Tells(stdout) \cup Ahead \cup {n})
Asked ==
  /\ \A i, j \in DOMAIN stdin :
       i <= j /\ stdin[i] # CtrlC /\ stdin[j] # CtrlC => stdin[i] <= stdin[j]
  /\ Precede({running} \ {Nobody}, Commands)
  /\ Precede(Ahead, {n})
InOrder == Arriving /\ Queued /\ Received /\ Asked

(***************************************************************************)
(* What the sequences tell when they are cut, joined or extended.          *)
(***************************************************************************)
LEMMA TellsType ==
  ASSUME NEW s \in Seq(RealPiece)
  PROVE  Tells(s) \subseteq Runs
BY DEF Tells, Told, RealPiece

LEMMA TellsNothing == Tells(<<>>) = {} /\ Ordered(<<>>)
BY DEF Tells, Ordered

LEMMA TellsOfConcat ==
  ASSUME NEW s \in Seq(RealPiece), NEW t \in Seq(RealPiece),
         Ordered(s), Ordered(t), Precede(Tells(s), Tells(t))
  PROVE  Tells(s \o t) \subseteq Tells(s) \cup Tells(t) /\ Ordered(s \o t)
<1>1. /\ s \o t \in Seq(RealPiece) /\ Len(s \o t) = Len(s) + Len(t)
      /\ \A i \in 1 .. Len(s) + Len(t) :
           (s \o t)[i] = IF i <= Len(s) THEN s[i] ELSE t[i - Len(s)]
  BY ConcatProperties
<1>2. /\ DOMAIN s = 1 .. Len(s) /\ DOMAIN t = 1 .. Len(t) /\ Len(s) \in Nat /\ Len(t) \in Nat
      /\ DOMAIN (s \o t) = 1 .. Len(s) + Len(t)
  BY <1>1, LenProperties
<1>3. \A i \in DOMAIN (s \o t) :
        \/ i \in DOMAIN s /\ (s \o t)[i] = s[i]
        \/ i > Len(s) /\ i - Len(s) \in DOMAIN t /\ (s \o t)[i] = t[i - Len(s)]
  BY <1>1, <1>2
<1>4. Tells(s \o t) \subseteq Tells(s) \cup Tells(t)
  BY <1>3 DEF Tells
<1>5. ASSUME NEW i \in DOMAIN (s \o t), NEW j \in DOMAIN (s \o t), i <= j,
             Told((s \o t)[i]), Told((s \o t)[j])
      PROVE  (s \o t)[i].of <= (s \o t)[j].of
  <2>1. CASE j \in DOMAIN s /\ (s \o t)[j] = s[j]
    <3>1. i \in DOMAIN s /\ (s \o t)[i] = s[i]
      BY <1>2, <1>3, <1>5, <2>1
    <3> QED BY <1>5, <2>1, <3>1 DEF Ordered
  <2>2. CASE j > Len(s) /\ j - Len(s) \in DOMAIN t /\ (s \o t)[j] = t[j - Len(s)]
    <3>1. CASE i \in DOMAIN s /\ (s \o t)[i] = s[i]
      BY <1>5, <2>2, <3>1 DEF Tells, Precede
    <3>2. CASE i > Len(s) /\ i - Len(s) \in DOMAIN t /\ (s \o t)[i] = t[i - Len(s)]
      <4>1. i - Len(s) <= j - Len(s)
        BY <1>2, <1>5
      <4> QED BY <1>5, <2>2, <3>2, <4>1 DEF Ordered
    <3> QED BY <1>3, <3>1, <3>2
  <2> QED BY <1>3, <2>1, <2>2
<1> QED BY <1>4, <1>5 DEF Ordered

LEMMA TellsOfAppend ==
  ASSUME NEW s \in Seq(RealPiece), NEW piece \in RealPiece, Ordered(s),
         Told(piece) => Precede(Tells(s), {piece.of})
  PROVE  /\ Tells(Append(s, piece)) \subseteq
              Tells(s) \cup (IF Told(piece) THEN {piece.of} ELSE {})
         /\ Ordered(Append(s, piece))
<1> DEFINE t == <<piece>>
<1>1. t \in Seq(RealPiece) /\ Append(s, piece) = s \o t /\ DOMAIN t = {1} /\ t[1] = piece
  BY AppendIsConcat
<1>2. Tells(t) = IF Told(piece) THEN {piece.of} ELSE {}
  BY <1>1 DEF Tells
<1>3. Told(piece) => piece.of \in Int
  BY DEF Told, RealPiece, Runs
<1>4. Ordered(t)
  BY <1>1, <1>3 DEF Ordered
<1> HIDE DEF t
<1>5. Precede(Tells(s), Tells(t))
  BY <1>2 DEF Precede
<1>6. Tells(s \o t) \subseteq Tells(s) \cup Tells(t) /\ Ordered(s \o t)
  BY <1>1, <1>4, <1>5, TellsOfConcat
<1> QED BY <1>1, <1>2, <1>6

\* The second half of a sequence that is cut.
LEMMA CutTail ==
  ASSUME NEW s \in Seq(RealPiece), NEW k \in 1 .. Len(s)
  PROVE  LET b == SubSeq(s, k + 1, Len(s))
         IN /\ b \in Seq(RealPiece) /\ Len(b) = Len(s) - k /\ DOMAIN b = 1 .. Len(s) - k
            /\ \A i \in 1 .. Len(s) - k : b[i] = s[k + i]
<1> DEFINE b == SubSeq(s, k + 1, Len(s))
<1>1. Len(s) \in Nat /\ DOMAIN s = 1 .. Len(s)
  BY LenProperties
<1>2. k + 1 \in Int /\ Len(s) \in Int /\ \A i \in k + 1 .. Len(s) : s[i] \in RealPiece
  BY <1>1
<1>3. /\ b \in Seq(RealPiece)
      /\ Len(b) = IF k + 1 <= Len(s) THEN Len(s) - (k + 1) + 1 ELSE 0
      /\ \A i \in 1 .. Len(s) - (k + 1) + 1 : b[i] = s[(k + 1) + i - 1]
  BY <1>2, SubSeqProperties
<1> HIDE DEF b
<1>4. Len(b) = Len(s) - k
  <2>1. Len(s) \in Nat /\ k \in Nat /\ k <= Len(s)
    BY <1>1
  <2>2. (IF k + 1 <= Len(s) THEN Len(s) - (k + 1) + 1 ELSE 0) = Len(s) - k
    BY <2>1
  <2> QED BY <1>3, <2>2
<1>5. DOMAIN b = 1 .. Len(b)
  BY <1>3, LenProperties
<1>6. ASSUME NEW i \in 1 .. Len(s) - k PROVE b[i] = s[k + i]
  <2>1. i \in 1 .. Len(s) - (k + 1) + 1 /\ (k + 1) + i - 1 = k + i
    BY <1>1
  <2> QED BY <1>3, <2>1
<1> QED BY <1>3, <1>4, <1>5, <1>6 DEF b

\* Both halves of a sequence that is cut.
LEMMA TellsOfCut ==
  ASSUME NEW s \in Seq(RealPiece), NEW k \in 1 .. Len(s), Ordered(s)
  PROVE  LET a == SubSeq(s, 1, k)
             b == SubSeq(s, k + 1, Len(s))
         IN /\ Tells(a) \subseteq Tells(s) /\ Tells(b) \subseteq Tells(s)
            /\ Ordered(a) /\ Ordered(b) /\ Precede(Tells(a), Tells(b))
<1> DEFINE a == SubSeq(s, 1, k)
           b == SubSeq(s, k + 1, Len(s))
<1>1. Len(s) \in Nat /\ DOMAIN s = 1 .. Len(s)
  BY LenProperties
<1>2. a \in Seq(RealPiece) /\ Len(a) = k /\ DOMAIN a = 1 .. k /\ \A i \in 1 .. k : a[i] = s[i]
  BY <1>1, SubSeqProperties
<1>3. /\ b \in Seq(RealPiece) /\ Len(b) = Len(s) - k /\ DOMAIN b = 1 .. Len(s) - k
      /\ \A i \in 1 .. Len(s) - k : b[i] = s[k + i]
  BY CutTail
<1> HIDE DEF a, b
<1>4. \A i \in DOMAIN a : i \in DOMAIN s /\ i <= k /\ a[i] = s[i]
  BY <1>1, <1>2
<1>5. \A i \in DOMAIN b : k + i \in DOMAIN s /\ k <= k + i /\ b[i] = s[k + i]
  <2> TAKE i \in DOMAIN b
  <2>1. i \in 1 .. Len(s) - k /\ b[i] = s[k + i]
    BY <1>3
  <2>2. k + i \in 1 .. Len(s) /\ k <= k + i
    BY <1>1, <2>1
  <2> QED BY <1>1, <2>1, <2>2
<1>6. Tells(a) \subseteq Tells(s) /\ Ordered(a)
  BY <1>4 DEF Tells, Ordered
<1>7. Tells(b) \subseteq Tells(s)
  BY <1>5 DEF Tells
<1>8. Ordered(b)
  <2>1. \A i, j \in DOMAIN b : i <= j => k + i <= k + j
    BY <1>3
  <2> QED BY <1>5, <2>1 DEF Ordered
<1>9. Precede(Tells(a), Tells(b))
  <2>1. \A i \in DOMAIN a, j \in DOMAIN b : i <= k + j
    BY <1>2, <1>3
  <2> QED BY <1>4, <1>5, <2>1 DEF Precede, Tells, Ordered
<1> QED BY <1>6, <1>7, <1>8, <1>9 DEF a, b

(***************************************************************************)
(* The order is kept by what arrives, and by what is asked.                *)
(***************************************************************************)
LEMMA OrderOfRead ==
  ASSUME Typed, InOrder, Read
  PROVE  InOrder'
<1>1. UNCHANGED <<buf, chunks, stdin, running, n>>
  BY DEF Read, caller, router
<1>2. PICK k \in 1 .. Len(stdout) : /\ held' = SubSeq(stdout, 1, k)
                                    /\ stdout' = SubSeq(stdout, k + 1, Len(stdout))
  BY DEF Read
<1>3. /\ Tells(held') \subseteq Tells(stdout) /\ Tells(stdout') \subseteq Tells(stdout)
      /\ Ordered(held') /\ Ordered(stdout') /\ Precede(Tells(held'), Tells(stdout'))
  <2>1. stdout \in Seq(RealPiece) /\ Ordered(stdout)
    BY DEF Typed, InOrder, Arriving
  <2> QED BY <1>2, <2>1, TellsOfCut
<1>4. Ahead' = Ahead /\ Commands' = Commands
  BY <1>1 DEF Ahead, Commands
<1>5. Asked'
  BY <1>1, <1>4 DEF InOrder, Asked
<1>6. Arriving'
  BY <1>1, <1>3, <1>4 DEF InOrder, Arriving, Precede
<1>7. Queued'
  BY <1>1, <1>3, <1>4 DEF InOrder, Queued, Precede
<1>8. Received'
  BY <1>1, <1>3, <1>4 DEF InOrder, Received, Precede
<1> QED BY <1>5, <1>6, <1>7, <1>8 DEF InOrder

LEMMA OrderOfSend ==
  ASSUME Typed, InOrder, SendChunk
  PROVE  InOrder'
<1>1. UNCHANGED <<buf, stdout, stdin, running, n>>
  BY DEF SendChunk, caller, router
<1>2. chunks \in Seq(Seq(RealPiece)) /\ held \in Seq(RealPiece)
  BY DEF Typed
<1>3. /\ Tells(held') = {} /\ Ordered(held')
      /\ DOMAIN chunks' = 1 .. Len(chunks) + 1 /\ Len(chunks) \in Nat
      /\ \A c \in 1 .. Len(chunks) : c \in DOMAIN chunks /\ chunks'[c] = chunks[c]
      /\ chunks'[Len(chunks) + 1] = held
  BY <1>2, TellsNothing, AppendProperties, LenProperties DEF SendChunk
<1>4. Ahead' = Ahead /\ Commands' = Commands
  BY <1>1 DEF Ahead, Commands
<1>5. Asked'
  BY <1>1, <1>4 DEF InOrder, Asked
<1>6. Arriving'
  BY <1>1, <1>3, <1>4 DEF InOrder, Arriving, Precede
<1>7. Queued'
  <2> SUFFICES ASSUME NEW c \in DOMAIN chunks'
               PROVE  /\ Ordered(chunks'[c])
                      /\ \A d \in DOMAIN chunks' :
                           c < d => Precede(Tells(chunks'[c]), Tells(chunks'[d]))
                      /\ Precede(Tells(chunks'[c]),
                                 Tells(held') \cup Tells(stdout') \cup Ahead' \cup {n'})
    BY DEF Queued
  <2>1. CASE c = Len(chunks) + 1
    <3>1. \A d \in DOMAIN chunks' : ~(c < d)
      BY <1>3, <2>1
    <3> QED BY <1>1, <1>3, <1>4, <2>1, <3>1 DEF InOrder, Arriving, Precede
  <2>2. CASE c \in 1 .. Len(chunks)
    <3>1. \A d \in DOMAIN chunks' : d \in 1 .. Len(chunks) \/ d = Len(chunks) + 1
      BY <1>3
    <3> QED BY <1>1, <1>3, <1>4, <2>2, <3>1 DEF InOrder, Queued, Precede
  <2> QED BY <1>3, <2>1, <2>2
<1>8. Received'
  <2>1. \A c \in DOMAIN chunks' : c \in 1 .. Len(chunks) \/ c = Len(chunks) + 1
    BY <1>3
  <2> QED BY <1>1, <1>3, <1>4, <2>1 DEF InOrder, Received, Precede
<1> QED BY <1>5, <1>6, <1>7, <1>8 DEF InOrder

\* The first chunk is taken, and read or thrown away.
LEMMA OrderOfTake ==
  ASSUME Typed, InOrder, chunks # <<>>, chunks' = Tail(chunks),
         buf' \in {buf, buf \o Head(chunks)},
         UNCHANGED <<held, stdout, stdin, running, n>>
  PROVE  InOrder'
<1>1. chunks \in Seq(Seq(RealPiece)) /\ buf \in Seq(RealPiece)
  BY DEF Typed
<1>2. /\ Head(chunks) = chunks[1] /\ 1 \in DOMAIN chunks
      /\ \A c \in DOMAIN chunks' : /\ c \in Nat /\ 1 < c + 1 /\ c + 1 \in DOMAIN chunks
                                   /\ chunks'[c] = chunks[c + 1]
  BY <1>1, HeadTailProperties, LenProperties
<1>3. Ahead' = Ahead /\ Commands' = Commands
  BY DEF Ahead, Commands
<1>4. Tells(buf') \subseteq Tells(buf) \cup Tells(chunks[1]) /\ Ordered(buf')
  <2>1. /\ chunks[1] \in Seq(RealPiece) /\ Ordered(buf) /\ Ordered(chunks[1])
        /\ Precede(Tells(buf), Tells(chunks[1]))
    BY <1>1, <1>2, ElementOfSeq, LenProperties DEF InOrder, Received, Queued
  <2> QED BY <1>1, <1>2, <2>1, TellsOfConcat
<1>5. Asked' /\ Arriving'
  BY <1>3 DEF InOrder, Asked, Arriving
<1>6. Queued'
  <2>1. \A c, d \in DOMAIN chunks' : c < d => c + 1 < d + 1
    BY <1>2
  <2> QED BY <1>2, <1>3, <2>1 DEF InOrder, Queued
<1>7. Received'
  BY <1>2, <1>3, <1>4 DEF InOrder, Received, Queued, Precede
<1> QED BY <1>5, <1>6, <1>7 DEF InOrder

\* The text read so far is dropped, and a new run may begin.
LEMMA OrderOfClear ==
  ASSUME Typed, InOrder, buf' = <<>>, n' \in {n, n + 1},
         UNCHANGED <<held, stdout, chunks, stdin, running>>
  PROVE  InOrder'
<1>1. Ahead' = Ahead /\ Commands' = Commands
  BY DEF Ahead, Commands
<1>2. \A A : A \subseteq Int /\ Precede(A, {n}) => Precede(A, {n'})
  BY DEF Precede, Typed, TypeOK, Runs
<1>3. Tells(held) \subseteq Int /\ Tells(stdout) \subseteq Int
      /\ \A c \in DOMAIN chunks : Tells(chunks[c]) \subseteq Int
  BY TellsType, ElementOfSeq, LenProperties DEF Typed, Runs
<1>4. Ahead \subseteq Int
  BY ElementOfSeq, LenProperties DEF Ahead, Commands, Typed, TypeOK, Runs
<1>5. Asked'
  BY <1>1, <1>2, <1>4 DEF InOrder, Asked
<1>6. Arriving'
  BY <1>1, <1>2, <1>3 DEF InOrder, Arriving, Precede
<1>7. Queued'
  BY <1>1, <1>2, <1>3 DEF InOrder, Queued, Precede
<1>8. Received'
  BY <1>1, TellsNothing DEF Received, Precede
<1> QED BY <1>5, <1>6, <1>7, <1>8 DEF InOrder

\* A line is typed: the command of the run, or Ctrl-C.
LEMMA OrderOfWrite ==
  ASSUME Typed, InOrder, NEW line \in {n, CtrlC}, stdin' = Append(stdin, line),
         UNCHANGED <<buf, held, stdout, chunks, running, n>>
  PROVE  InOrder'
<1>1. /\ DOMAIN stdin = 1 .. Len(stdin) /\ Len(stdin) \in Nat
      /\ DOMAIN stdin' = 1 .. Len(stdin) + 1
      /\ \A i \in DOMAIN stdin : i \in DOMAIN stdin' /\ stdin'[i] = stdin[i]
      /\ stdin'[Len(stdin) + 1] = line
  <2>1. line \in Runs \cup {CtrlC} /\ stdin \in Seq(Runs \cup {CtrlC})
    BY DEF Typed, TypeOK
  <2> QED BY <2>1, AppendProperties, LenProperties
<1>2. Commands' \subseteq Commands \cup {n} /\ Ahead' \subseteq Ahead \cup {n}
  BY <1>1 DEF Commands, Ahead
<1>3. n <= n
  BY DEF Typed, TypeOK, Runs
<1>4. Asked'
  <2>1. \A i \in DOMAIN stdin' : i \in DOMAIN stdin \/ i = Len(stdin) + 1
    BY <1>1
  <2>2. \A i \in DOMAIN stdin : stdin[i] # CtrlC => stdin[i] <= n
    BY DEF InOrder, Asked, Ahead, Commands, Precede
  <2>3. \A i \in DOMAIN stdin : ~(Len(stdin) + 1 <= i)
    BY <1>1
  <2>4. \A i, j \in DOMAIN stdin' :
          i <= j /\ stdin'[i] # CtrlC /\ stdin'[j] # CtrlC => stdin'[i] <= stdin'[j]
    BY <1>1, <1>3, <2>1, <2>2, <2>3 DEF InOrder, Asked
  <2>5. Precede({running'} \ {Nobody}, Commands') /\ Precede(Ahead', {n'})
    BY <1>2, <1>3 DEF InOrder, Asked, Ahead, Precede
  <2> QED BY <2>4, <2>5 DEF Asked
<1>5. Arriving' /\ Queued' /\ Received'
  BY <1>2 DEF InOrder, Arriving, Queued, Received, Precede
<1> QED BY <1>4, <1>5 DEF InOrder

\* The router reads a line, or is done with its command.
LEMMA AskedOfRead ==
  ASSUME Typed, InOrder, UNCHANGED n,
         \/ stdin' = stdin /\ running' \in {running, Nobody}
         \/ /\ stdin # <<>> /\ stdin' = Tail(stdin)
            /\ \/ running' \in {running, Nobody}
               \/ running' = Head(stdin) /\ Head(stdin) # CtrlC
  PROVE  Asked' /\ Ahead' \subseteq Ahead
<1>1. stdin \in Seq(Runs \cup {CtrlC})
  BY DEF Typed, TypeOK
<1>2. CASE stdin' = stdin /\ running' \in {running, Nobody}
  BY <1>2 DEF InOrder, Asked, Ahead, Commands, Precede
<1>3. CASE stdin # <<>> /\ stdin' = Tail(stdin)
  <2>1. /\ Head(stdin) = stdin[1] /\ 1 \in DOMAIN stdin
        /\ \A i \in DOMAIN stdin' : /\ i \in Nat /\ 1 <= i + 1 /\ i + 1 \in DOMAIN stdin
                                    /\ stdin'[i] = stdin[i + 1]
    BY <1>1, <1>3, HeadTailProperties, LenProperties
  <2>2. Commands' \subseteq Commands /\ Ahead' \subseteq Ahead
    BY <1>3, <2>1 DEF Commands, Ahead
  <2>3. \A i, j \in DOMAIN stdin' : i <= j => i + 1 <= j + 1
    BY <2>1
  <2>4. \A i, j \in DOMAIN stdin' :
          i <= j /\ stdin'[i] # CtrlC /\ stdin'[j] # CtrlC => stdin'[i] <= stdin'[j]
    BY <2>1, <2>3 DEF InOrder, Asked
  <2>5. Precede({running'} \ {Nobody}, Commands')
    BY <1>3, <2>1, <2>2 DEF InOrder, Asked, Commands, Precede
  <2> QED BY <2>2, <2>4, <2>5 DEF InOrder, Asked, Precede
<1> QED BY <1>2, <1>3

\* What the router prints is of the command it works on.
LEMMA OrderOfPrint ==
  ASSUME Typed, InOrder, Asked', Ahead' \subseteq Ahead,
         NEW piece \in RealPiece, stdout' \in {stdout, Append(stdout, piece)},
         Told(piece) => piece.of \in Ahead /\ Precede({piece.of}, Ahead'),
         UNCHANGED <<buf, held, chunks, n>>
  PROVE  InOrder'
<1>1. CASE stdout' = stdout
  BY <1>1 DEF InOrder, Arriving, Queued, Received, Precede
<1>2. CASE stdout' = Append(stdout, piece)
  <2>1. Told(piece) => Precede(Tells(stdout), {piece.of})
    BY DEF InOrder, Arriving, Precede
  <2>2. stdout \in Seq(RealPiece) /\ Ordered(stdout)
    BY DEF Typed, InOrder, Arriving
  <2>3. Tells(stdout') \subseteq Tells(stdout) \cup (IF Told(piece) THEN {piece.of} ELSE {})
        /\ Ordered(stdout')
    BY <1>2, <2>1, <2>2, TellsOfAppend
  <2>4. Told(piece) => Precede({piece.of}, {n})
    BY DEF InOrder, Asked, Precede
  <2>5. Arriving'
    BY <2>3, <2>4 DEF InOrder, Arriving, Precede
  <2>6. Queued' /\ Received'
    BY <2>3 DEF InOrder, Queued, Received, Precede
  <2> QED BY <2>5, <2>6 DEF InOrder
<1> QED BY <1>1, <1>2

LEMMA InOrderRouter ==
  ASSUME Typed, InOrder, Router
  PROVE  InOrder'
<1> USE DEF caller, stream, Prints
<1>1. \A r \in Runs \cup {Nobody} : Prompt(r) \in RealPiece /\ ~Told(Prompt(r))
  BY DEF Prompt, RealPiece, Piece, Told
<1>2. running \in Runs \cup {Nobody} /\ Nobody \notin Runs
  BY DEF Typed, TypeOK, Runs, Nobody
<1>3. ASSUME UNCHANGED <<n, buf, held, chunks>>,
             \/ stdin' = stdin
             \/ stdin # <<>> /\ stdin' = Tail(stdin),
             running' \in {running, Nobody},
             \/ stdout' = stdout
             \/ \E r \in Runs \cup {Nobody} : stdout' = Append(stdout, Prompt(r))
      PROVE  InOrder'
  <2>1. Asked' /\ Ahead' \subseteq Ahead
    BY <1>3, AskedOfRead
  <2>2. PICK r \in Runs \cup {Nobody} : stdout' \in {stdout, Append(stdout, Prompt(r))}
    BY <1>3
  <2> QED BY <1>1, <1>3, <2>1, <2>2, OrderOfPrint
<1>4. CASE TakeCommand /\ running # Nobody
  BY <1>3, <1>4 DEF TakeCommand
<1>5. CASE TakeCommand /\ running = Nobody
  <2> DEFINE r == Head(stdin)
             piece == [kind |-> "echo", of |-> r]
  <2>1. stdin # <<>> /\ r # CtrlC /\ stdin' = Tail(stdin) /\ running' = r
        /\ stdout' = Append(stdout, piece) /\ UNCHANGED <<n, buf, held, chunks>>
    BY <1>5 DEF TakeCommand
  <2>2. stdin \in Seq(Runs \cup {CtrlC}) /\ r \in Runs /\ 1 \in DOMAIN stdin /\ r = stdin[1]
    BY <2>1, LenProperties DEF Typed, TypeOK
  <2>3. Asked' /\ Ahead' \subseteq Ahead
    BY <2>1, AskedOfRead
  <2>4. piece \in RealPiece /\ piece.of = r
    BY <2>2 DEF RealPiece, Piece
  <2>5. r \in Ahead
    BY <2>1, <2>2 DEF Ahead, Commands
  <2>6. Precede({r}, Ahead')
    <3>1. Precede({r}, Commands')
      BY <1>2, <2>1, <2>2, <2>3 DEF Asked, Precede
    <3>2. r <= r
      BY <2>2 DEF Runs
    <3> QED BY <2>1, <3>1, <3>2 DEF Ahead, Commands, Precede
  <2> HIDE DEF r, piece
  <2> QED BY <2>1, <2>3, <2>4, <2>5, <2>6, OrderOfPrint
<1>6. CASE PrintOutput
  <2> DEFINE piece == [kind |-> "out", of |-> running]
  <2>1. /\ stdout' = Append(stdout, piece) /\ running # Nobody
        /\ UNCHANGED <<n, buf, held, chunks, stdin, running>>
    BY <1>6 DEF PrintOutput
  <2>2. Asked' /\ Ahead' \subseteq Ahead
    BY <2>1, AskedOfRead
  <2>3. piece \in RealPiece /\ piece.of = running
    BY <1>2, <2>1 DEF RealPiece, Piece
  <2>4. running \in Ahead /\ Precede({running}, Ahead')
    <3>1. running <= running
      BY <1>2, <2>1 DEF Runs
    <3> QED BY <2>1, <3>1 DEF Ahead, Commands, InOrder, Asked, Precede
  <2> HIDE DEF piece
  <2> QED BY <2>1, <2>2, <2>3, <2>4, OrderOfPrint
<1>7. CASE Finish
  BY <1>2, <1>3, <1>7 DEF Finish
<1>8. CASE TakeCtrlC
  BY <1>2, <1>3, <1>8 DEF TakeCtrlC
<1>9. CASE IgnoreCtrlC
  BY <1>3, <1>9 DEF IgnoreCtrlC, router
<1>10. CASE StrayPrompt
  BY <1>3, <1>10 DEF StrayPrompt
<1> QED BY <1>4, <1>5, <1>6, <1>7, <1>8, <1>9, <1>10 DEF Router

Streams == <<n, buf, held, chunks, stdin, stdout, running>>

LEMMA InOrderNext ==
  ASSUME Typed, InOrder, [Next]_vars
  PROVE  InOrder'
<1> USE DEF Streams, caller, link, stream, router
<1>1. CASE UNCHANGED Streams
  BY <1>1 DEF InOrder, Arriving, Queued, Received, Asked, Ahead, Commands
<1>2. CASE \/ Connect \/ ConnectFails \/ Unblocked \/ LoggedIn \/ Refused
           \/ LoginFails \/ WriteFails \/ Gone \/ RunTimeout \/ SettleTimeout \/ Close
           \/ ReadFails \/ Disconnect \/ DeadlinePasses \/ UNCHANGED vars
  BY <1>1, <1>2 DEF Connect, ConnectFails, Unblocked, LoggedIn, Refused, LoginFails,
     WriteFails, Gone, RunTimeout, SettleTimeout, Close, ReadFails, Disconnect,
     DeadlinePasses, vars
<1>3. CASE ShellOpens
  <2>1. Tells(stdout') = {} /\ Ordered(stdout')
    BY <1>3 DEF ShellOpens, Prompt, Tells, Ordered, Told
  <2> QED BY <1>3, <2>1 DEF ShellOpens, InOrder, Arriving, Queued, Received, Asked,
             Ahead, Commands, Precede
<1>4. CASE Learned \/ StartRun \/ Answered \/ Settled
  BY <1>4, OrderOfClear DEF Learned, StartRun, Answered, Settled
<1>5. CASE DrainChunk \/ Receive
  BY <1>5, OrderOfTake DEF DrainChunk, Receive
<1>6. CASE Write \/ Interrupt
  BY <1>6, OrderOfWrite DEF Write, Interrupt
<1> QED
  BY <1>2, <1>3, <1>4, <1>5, <1>6, OrderOfRead, OrderOfSend, InOrderRouter
     DEF Next, Caller, Grants, ReadLoop

LEMMA AlwaysInOrder == Spec => []InOrder
<1>1. Init => InOrder
  BY TellsNothing DEF Init, InOrder, Arriving, Queued, Received, Asked, Ahead, Commands,
     Precede
<1>2. Typed /\ InOrder /\ [Next]_vars => InOrder'
  BY InOrderNext
<1> QED BY <1>1, <1>2, AlwaysTyped, PTL DEF Spec

\* When no two commands have the same last token, what Run returns is output
\* of its own command only, with any number of stray prompts and whatever
\* timed out before: what the anchor is for (session.go:293-297).
THEOREM AnchoredOutputIsOwn ==
  ASSUME \A r, s \in Runs : Dest[r] = Dest[s] => r = s
  PROVE  Spec => []OutputIsOwn
<1>1. Init => OutputIsOwn
  BY DEF Init, Nothing, OutputIsOwn
<1>2. ASSUME Typed, InOrder, OutputIsOwn, [Next]_vars
      PROVE  OutputIsOwn'
  <2>1. CASE Answered
    <3>1. ret' = [run |-> n, how |-> "ok", outs |-> Output]
      BY <2>1 DEF Answered, ReturnKept, Returns
    <3>2. Output \subseteq {n}
      <4> SUFFICES ASSUME NEW k \in DOMAIN buf, buf[k].kind = "out",
                          NEW i \in Anchors, i <= k
                   PROVE  buf[k].of = n
        BY DEF Output
      <4>1. i \in DOMAIN buf /\ Told(buf[i]) /\ Dest[buf[i].of] = Dest[n] /\ Told(buf[k])
        BY DEF Anchors, Shows, Told
      <4>2. buf[i].of \in Runs /\ buf[k].of \in Runs /\ n \in Runs
        BY <1>2, <4>1 DEF Typed, TypeOK, RealPiece, Told
      <4>3. buf[i].of = n
        BY <4>1, <4>2
      <4>4. n <= buf[k].of
        BY <1>2, <4>1, <4>3 DEF InOrder, Received, Ordered
      <4>5. buf[k].of <= n
        BY <1>2, <4>1 DEF InOrder, Received, Precede, Tells
      <4> QED BY <4>2, <4>4, <4>5 DEF Runs
    <3> QED BY <3>1, <3>2 DEF OutputIsOwn
  <2>2. CASE ret' = ret \/ ret'.how # "ok"
    BY <1>2, <2>2 DEF OutputIsOwn
  <2>3. ASSUME ~Answered PROVE ret' = ret \/ ret'.how # "ok"
    BY <1>2, <2>3 DEF Next, Caller, StartRun, Close, Grants, ReadLoop, Router, Disconnect,
       DeadlinePasses, Connect, ConnectFails, Unblocked, Learned, LoginFails, DrainChunk,
       Write, WriteFails, Receive, Gone, RunTimeout, Interrupt, Settled, SettleTimeout,
       LoggedIn, ShellOpens, Refused, Read, SendChunk, ReadFails, TakeCommand,
       PrintOutput, Finish, TakeCtrlC, IgnoreCtrlC, StrayPrompt, ReturnKept,
       ReturnClosed, Returns, caller, vars
  <2> QED BY <2>1, <2>2, <2>3
<1> QED BY <1>1, <1>2, AlwaysTyped, AlwaysInOrder, PTL DEF Spec
=============================================================================
