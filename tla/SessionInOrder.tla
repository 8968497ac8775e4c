---------------------------- MODULE SessionInOrder ----------------------------
(***************************************************************************)
(* Proofs about a session with a router that gives one prompt for each     *)
(* command (MaxStray = 0): it is kept only when it is silent, what it has  *)
(* not read is bounded, and it implements module Shell, for any number of  *)
(* runs, any destinations and any capacity of the channel.                 *)
(***************************************************************************)
EXTENDS SessionProofs

-----------------------------------------------------------------------------
(***************************************************************************)
(* The inductive invariant.  While a command runs, all that is on its way  *)
(* is of that command, and the prompt that ends it is the last of it.      *)
(***************************************************************************)
Ending(piece) == piece.kind \in {"prompt", "question"}
Ends(s)       == \E i \in DOMAIN s : Ending(s[i])
EndsLast(s)   == \A i \in DOMAIN s : Ending(s[i]) => i = Len(s)
Of(s)         == \A i \in DOMAIN s : s[i].of = n
HasOut(s)     == \E i \in DOMAIN s : s[i].kind = "out"

Silent == buf = <<>> /\ chunks = <<>> /\ held = <<>> /\ stdout = <<>>
LastWord ==
  /\ EndsLast(stdout)
  /\ EndsLast(held) /\ (Ends(held) => stdout = <<>>)
  /\ \A c \in DOMAIN chunks :
       /\ EndsLast(chunks[c])
       /\ Ends(chunks[c]) => c = Len(chunks) /\ held = <<>> /\ stdout = <<>>
  /\ Ends(buf) => chunks = <<>> /\ held = <<>> /\ stdout = <<>>
Own ==
  Of(buf) /\ Of(held) /\ Of(stdout) /\ \A c \in DOMAIN chunks : Of(chunks[c])
Unended ==
  ~Ends(buf) /\ ~Ends(held) /\ ~Ends(stdout) /\ \A c \in DOMAIN chunks : ~Ends(chunks[c])
OutSent ==
  HasOut(buf) \/ HasOut(held) \/ HasOut(stdout) \/ \E c \in DOMAIN chunks : HasOut(chunks[c])

\* The command has not been read, and nothing has been printed since.
Unread == running = Nobody /\ Silent
\* The command has been read.
Begun ==
  /\ LastWord /\ Own
  /\ running \in {n, Nobody}
  /\ running # Nobody => Unended

InPhase ==
  /\ held # <<>> <=> reader = "send"
  /\ pc \in {"connect", "handshake", "shell"} =>
       n = 0 /\ Unread /\ stdin = <<>> /\ reader = "none"
  /\ pc = "learn" => n = 0 /\ running = Nobody /\ stdin = <<>> /\ LastWord
  /\ pc \in {"idle", "drain"} => Unread /\ stdin \in {<<>>, <<CtrlC>>}
  /\ pc \in {"wait", "interrupt"} =>
       \/ Unread /\ stdin \in {<<n>>, <<CtrlC, n>>}
       \/ Begun /\ stdin = <<>> /\ (OutSent \/ (running = n /\ ~printed))
  /\ pc = "settle" =>
       \/ Unread /\ stdin \in {<<n, CtrlC>>, <<CtrlC, n, CtrlC>>}
       \/ Begun /\ stdin \in {<<>>, <<CtrlC>>}
  /\ pc = "closed" => Len(stdin) <= 3

-----------------------------------------------------------------------------
(***************************************************************************)
(* Sequences.                                                              *)
(***************************************************************************)
LEMMA AppendOne == \A a, b : Append(<<a>>, b) = <<a, b>>
<1> TAKE a, b
<1> DEFINE S == {a, b}
           s == Append(<<a>>, b)
           t == <<a, b>>
<1>1. /\ <<a>> \in Seq(S) /\ b \in S /\ Len(<<a>>) = 1 /\ <<a>>[1] = a
      /\ t \in Seq(S) /\ Len(t) = 2 /\ t[1] = a /\ t[2] = b
  OBVIOUS
<1> HIDE DEF S
<1>2. s \in Seq(S) /\ Len(s) = 2 /\ s[1] = a /\ s[2] = b
  BY <1>1, AppendProperties
<1> HIDE DEF s, t
<1>3. \A i \in 1 .. 2 : s[i] = t[i]
  <2>1. \A i \in 1 .. 2 : i = 1 \/ i = 2
    OBVIOUS
  <2> QED BY <1>1, <1>2, <2>1
<1>4. s = t
  BY <1>1, <1>2, <1>3, SeqEqual
<1> QED BY <1>4 DEF s, t

LEMMA AppendTwo == \A a, b, c : Append(<<a, b>>, c) = <<a, b, c>>
<1> TAKE a, b, c
<1> DEFINE S == {a, b, c}
           s == Append(<<a, b>>, c)
           t == <<a, b, c>>
<1>1. /\ <<a, b>> \in Seq(S) /\ c \in S /\ Len(<<a, b>>) = 2
      /\ <<a, b>>[1] = a /\ <<a, b>>[2] = b
      /\ t \in Seq(S) /\ Len(t) = 3 /\ t[1] = a /\ t[2] = b /\ t[3] = c
  OBVIOUS
<1> HIDE DEF S
<1>2. s \in Seq(S) /\ Len(s) = 3 /\ s[1] = a /\ s[2] = b /\ s[3] = c
  BY <1>1, AppendProperties
<1> HIDE DEF s, t
<1>3. \A i \in 1 .. 3 : s[i] = t[i]
  <2>1. \A i \in 1 .. 3 : i = 1 \/ i = 2 \/ i = 3
    OBVIOUS
  <2> QED BY <1>1, <1>2, <2>1
<1>4. s = t
  BY <1>1, <1>2, <1>3, SeqEqual
<1> QED BY <1>4 DEF s, t

\* The lines the router may have to read, and what is left of them.
LEMMA Lines ==
  /\ Len(<<>>) = 0
  /\ \A a : /\ <<a>> # <<>> /\ Len(<<a>>) = 1 /\ Head(<<a>>) = a /\ Tail(<<a>>) = <<>>
            /\ Append(<<>>, a) = <<a>>
  /\ \A a, b : /\ <<a, b>> # <<>> /\ Len(<<a, b>>) = 2
               /\ Head(<<a, b>>) = a /\ Tail(<<a, b>>) = <<b>>
               /\ Append(<<a>>, b) = <<a, b>>
  /\ \A a, b, c : /\ <<a, b, c>> # <<>> /\ Len(<<a, b, c>>) = 3
                  /\ Head(<<a, b, c>>) = a /\ Tail(<<a, b, c>>) = <<b, c>>
                  /\ Append(<<a, b>>, c) = <<a, b, c>>
<1>1. \A a : /\ <<a>> # <<>> /\ Len(<<a>>) = 1 /\ Head(<<a>>) = a /\ Tail(<<a>>) = <<>>
             /\ Append(<<>>, a) = <<a>> /\ Len(<<>>) = 0
  OBVIOUS
<1>2. \A a, b : /\ <<a, b>> # <<>> /\ Len(<<a, b>>) = 2
                /\ Head(<<a, b>>) = a /\ Tail(<<a, b>>) = <<b>>
  OBVIOUS
<1>3. \A a, b, c : /\ <<a, b, c>> # <<>> /\ Len(<<a, b, c>>) = 3
                   /\ Head(<<a, b, c>>) = a /\ Tail(<<a, b, c>>) = <<b, c>>
  OBVIOUS
<1> QED BY <1>1, <1>2, <1>3, AppendOne, AppendTwo

LEMMA Nowhere ==
  EndsLast(<<>>) /\ ~Ends(<<>>) /\ Of(<<>>) /\ ~HasOut(<<>>)
BY DEF EndsLast, Ends, Of, HasOut

LEMMA JoinedEnds ==
  ASSUME NEW s \in Seq(RealPiece), NEW t \in Seq(RealPiece)
  PROVE  /\ Ends(s \o t) <=> Ends(s) \/ Ends(t)
         /\ HasOut(s \o t) <=> HasOut(s) \/ HasOut(t)
         /\ Of(s \o t) <=> Of(s) /\ Of(t)
<1>1. /\ DOMAIN s = 1 .. Len(s) /\ DOMAIN t = 1 .. Len(t) /\ Len(s) \in Nat /\ Len(t) \in Nat
      /\ DOMAIN (s \o t) = 1 .. Len(s) + Len(t)
      /\ \A i \in 1 .. Len(s) + Len(t) :
           (s \o t)[i] = IF i <= Len(s) THEN s[i] ELSE t[i - Len(s)]
  BY ConcatProperties, LenProperties
<1>2. \A i \in DOMAIN s : i \in DOMAIN (s \o t) /\ (s \o t)[i] = s[i]
  BY <1>1
<1>3. \A j \in DOMAIN t : /\ Len(s) + j \in DOMAIN (s \o t)
                          /\ (s \o t)[Len(s) + j] = t[j]
  BY <1>1
<1>4. \A i \in DOMAIN (s \o t) :
        \/ i \in DOMAIN s /\ (s \o t)[i] = s[i]
        \/ i - Len(s) \in DOMAIN t /\ (s \o t)[i] = t[i - Len(s)]
  BY <1>1
<1> DEFINE st == s \o t
<1> HIDE DEF st
<1>5. Ends(st) <=> Ends(s) \/ Ends(t)
  <2>1. Ends(s) \/ Ends(t) => Ends(st)
    BY <1>2, <1>3 DEF Ends, st
  <2>2. Ends(st) => Ends(s) \/ Ends(t)
    BY <1>4 DEF Ends, st
  <2> QED BY <2>1, <2>2
<1>6. HasOut(st) <=> HasOut(s) \/ HasOut(t)
  <2>1. HasOut(s) \/ HasOut(t) => HasOut(st)
    BY <1>2, <1>3 DEF HasOut, st
  <2>2. HasOut(st) => HasOut(s) \/ HasOut(t)
    BY <1>4 DEF HasOut, st
  <2> QED BY <2>1, <2>2
<1>7. Of(st) <=> Of(s) /\ Of(t)
  <2>1. Of(st) => Of(s)
    BY <1>2 DEF Of, st
  <2>2. Of(st) => Of(t)
    BY <1>3 DEF Of, st
  <2>3. Of(s) /\ Of(t) => Of(st)
    BY <1>4 DEF Of, st
  <2> QED BY <2>1, <2>2, <2>3
<1> QED BY <1>5, <1>6, <1>7 DEF st

LEMMA AppendedEnds ==
  ASSUME NEW s \in Seq(RealPiece), NEW piece \in RealPiece
  PROVE  /\ Ends(Append(s, piece)) <=> Ends(s) \/ Ending(piece)
         /\ HasOut(Append(s, piece)) <=> HasOut(s) \/ piece.kind = "out"
         /\ Of(Append(s, piece)) <=> Of(s) /\ piece.of = n
         /\ ~Ends(s) => EndsLast(Append(s, piece))
<1>1. /\ DOMAIN s = 1 .. Len(s) /\ Len(s) \in Nat
      /\ DOMAIN Append(s, piece) = 1 .. Len(s) + 1
      /\ Len(Append(s, piece)) = Len(s) + 1
      /\ \A i \in 1 .. Len(s) : Append(s, piece)[i] = s[i]
      /\ Append(s, piece)[Len(s) + 1] = piece
  BY AppendProperties, LenProperties
<1>2. \A i \in DOMAIN s : i \in DOMAIN Append(s, piece) /\ Append(s, piece)[i] = s[i]
  BY <1>1
<1>3. \A i \in DOMAIN Append(s, piece) : i \in DOMAIN s \/ i = Len(s) + 1
  BY <1>1
<1>4. Len(s) + 1 \in DOMAIN Append(s, piece)
  BY <1>1
<1> QED BY <1>1, <1>2, <1>3, <1>4 DEF Ends, EndsLast, HasOut, Of

LEMMA CutEnds ==
  ASSUME NEW s \in Seq(RealPiece), NEW k \in 1 .. Len(s)
  PROVE  LET a == SubSeq(s, 1, k)
             b == SubSeq(s, k + 1, Len(s))
         IN /\ a # <<>>
            /\ EndsLast(s) => EndsLast(a) /\ EndsLast(b) /\ (Ends(a) => b = <<>>)
            /\ Ends(a) \/ Ends(b) => Ends(s)
            /\ HasOut(s) => HasOut(a) \/ HasOut(b)
            /\ Of(s) => Of(a) /\ Of(b)
<1> DEFINE a == SubSeq(s, 1, k)
           b == SubSeq(s, k + 1, Len(s))
<1>1. /\ DOMAIN s = 1 .. Len(s) /\ Len(s) \in Nat /\ k \in Nat /\ 1 <= k /\ k <= Len(s)
      /\ \A i \in DOMAIN s : s[i] \in RealPiece
  BY LenProperties
<1>2. /\ a \in Seq(RealPiece) /\ Len(a) = k /\ DOMAIN a = 1 .. k
      /\ \A i \in 1 .. k : a[i] = s[i]
  BY <1>1, SubSeqProperties
<1>3. /\ b \in Seq(RealPiece) /\ Len(b) = Len(s) - k /\ DOMAIN b = 1 .. Len(s) - k
      /\ \A i \in 1 .. Len(s) - k : b[i] = s[k + i]
  BY CutTail
<1> HIDE DEF a, b
<1>4. \A i \in DOMAIN a : i \in DOMAIN s /\ i <= k /\ a[i] = s[i]
  BY <1>1, <1>2
<1>5. \A j \in DOMAIN b : k + j \in DOMAIN s /\ b[j] = s[k + j]
  BY <1>1, <1>3
<1>6. \A i \in DOMAIN s : i \in DOMAIN a \/ (i - k \in DOMAIN b /\ s[i] = b[i - k])
  BY <1>1, <1>2, <1>3
<1>7. a # <<>>
  BY <1>1, <1>2, EmptySeq
<1>8. ASSUME EndsLast(s) PROVE EndsLast(a) /\ EndsLast(b) /\ (Ends(a) => b = <<>>)
  <2>1. EndsLast(b)
    <3> SUFFICES ASSUME NEW j \in DOMAIN b, Ending(b[j]) PROVE j = Len(b)
      BY DEF EndsLast
    <3>1. k + j = Len(s)
      BY <1>5, <1>8 DEF EndsLast
    <3> QED BY <1>1, <1>3, <3>1
  <2>2. ASSUME NEW i \in DOMAIN a, Ending(a[i]) PROVE i = Len(a) /\ b = <<>>
    <3>1. i = Len(s) /\ i <= k
      BY <1>4, <1>8, <2>2 DEF EndsLast
    <3>2. k = Len(s)
      <4>1. Len(s) \in Nat /\ k \in Nat /\ k <= Len(s)
        BY <1>1
      <4> QED BY <3>1, <4>1
    <3>3. Len(b) = 0
      BY <1>1, <1>3, <3>2
    <3> QED BY <1>2, <1>3, <3>1, <3>2, <3>3, EmptySeq
  <2> QED BY <2>1, <2>2 DEF EndsLast, Ends
<1>9. /\ Ends(a) \/ Ends(b) => Ends(s)
      /\ Of(s) => Of(a) /\ Of(b)
  BY <1>4, <1>5 DEF Ends, Of
<1>10. HasOut(s) => HasOut(a) \/ HasOut(b)
  BY <1>4, <1>6 DEF HasOut
<1> QED BY <1>7, <1>8, <1>9, <1>10 DEF a, b

-----------------------------------------------------------------------------
(***************************************************************************)
(* What is on its way moves from the connection to the channel, and from   *)
(* the channel to the text.                                                *)
(***************************************************************************)
Moves(flow) == (flow <=> flow')

LEMMA ReadMoves ==
  ASSUME Typed, held = <<>>, Read
  PROVE  /\ UNCHANGED <<pc, n, running, printed, stdin>> /\ reader' = "send" /\ held' # <<>>
         /\ stdout # <<>>
         /\ LastWord => LastWord'
         /\ Own => Own'
         /\ Unended => Unended'
         /\ OutSent => OutSent'
<1>1. UNCHANGED <<pc, n, buf, chunks, running, printed, stdin>> /\ reader' = "send"
  BY DEF Read, caller, router
<1>2. PICK k \in 1 .. Len(stdout) : /\ held' = SubSeq(stdout, 1, k)
                                    /\ stdout' = SubSeq(stdout, k + 1, Len(stdout))
  BY DEF Read
<1>3. stdout \in Seq(RealPiece) /\ stdout # <<>>
  BY <1>2, EmptySeq DEF Typed
<1>4. /\ held' # <<>>
      /\ EndsLast(stdout) =>
           EndsLast(held') /\ EndsLast(stdout') /\ (Ends(held') => stdout' = <<>>)
      /\ Ends(held') \/ Ends(stdout') => Ends(stdout)
      /\ HasOut(stdout) => HasOut(held') \/ HasOut(stdout')
      /\ Of(stdout) => Of(held') /\ Of(stdout')
  BY <1>2, <1>3, CutEnds
<1>5. LastWord => LastWord'
  BY <1>1, <1>3, <1>4 DEF LastWord
<1>6. Own => Own'
  BY <1>1, <1>4 DEF Own, Of
<1>7. Unended => Unended'
  BY <1>1, <1>4 DEF Unended
<1>8. OutSent => OutSent'
  BY <1>1, <1>4, Nowhere DEF OutSent
<1> QED BY <1>1, <1>3, <1>4, <1>5, <1>6, <1>7, <1>8

LEMMA SendMoves ==
  ASSUME Typed, held # <<>>, SendChunk
  PROVE  /\ UNCHANGED <<pc, n, running, printed, stdin>> /\ reader' = "read" /\ held' = <<>>
         /\ LastWord => LastWord'
         /\ Own => Own'
         /\ Unended => Unended'
         /\ OutSent => OutSent'
<1>1. /\ UNCHANGED <<pc, n, buf, stdout, running, printed, stdin>>
      /\ reader' = "read" /\ held' = <<>>
  BY DEF SendChunk, caller, router
<1>2. chunks \in Seq(Seq(RealPiece)) /\ held \in Seq(RealPiece)
  BY DEF Typed
<1>3. /\ DOMAIN chunks' = 1 .. Len(chunks) + 1 /\ Len(chunks) \in Nat
      /\ Len(chunks') = Len(chunks) + 1
      /\ \A c \in 1 .. Len(chunks) : c \in DOMAIN chunks /\ chunks'[c] = chunks[c]
      /\ DOMAIN chunks = 1 .. Len(chunks)
      /\ chunks'[Len(chunks) + 1] = held
  BY <1>2, AppendProperties, LenProperties DEF SendChunk
<1>4. /\ \A c \in DOMAIN chunks' : c \in DOMAIN chunks \/ c = Len(chunks')
      /\ \A c \in DOMAIN chunks : c \in DOMAIN chunks' /\ chunks'[c] = chunks[c]
      /\ Len(chunks') \in DOMAIN chunks' /\ chunks'[Len(chunks')] = held
  BY <1>3
<1>5. LastWord => LastWord'
  BY <1>1, <1>4, Nowhere DEF LastWord
<1>6. Own => Own'
  BY <1>1, <1>4, Nowhere DEF Own, Of
<1>7. Unended => Unended'
  BY <1>1, <1>4, Nowhere DEF Unended
<1>8. OutSent => OutSent'
  BY <1>1, <1>4 DEF OutSent
<1> QED BY <1>1, <1>5, <1>6, <1>7, <1>8

LEMMA ReceiveMoves ==
  ASSUME Typed, Receive
  PROVE  /\ UNCHANGED <<pc, n, running, printed, stdin, held, reader>> /\ chunks # <<>>
         /\ LastWord => LastWord'
         /\ Own => Own'
         /\ Unended => Unended'
         /\ OutSent => OutSent'
<1>1. /\ UNCHANGED <<pc, n, held, stdout, running, printed, stdin, reader>>
      /\ chunks # <<>> /\ chunks' = Tail(chunks) /\ buf' = buf \o Head(chunks)
  BY DEF Receive, router
<1>2. chunks \in Seq(Seq(RealPiece)) /\ buf \in Seq(RealPiece)
  BY DEF Typed
<1>3. /\ Head(chunks) = chunks[1] /\ 1 \in DOMAIN chunks /\ chunks[1] \in Seq(RealPiece)
      /\ Tail(chunks) \in Seq(Seq(RealPiece))
      /\ Len(chunks') = Len(chunks) - 1 /\ Len(chunks) \in Nat
      /\ DOMAIN chunks = 1 .. Len(chunks) /\ DOMAIN chunks' = 1 .. Len(chunks')
      /\ \A c \in DOMAIN chunks' : chunks'[c] = chunks[c + 1]
  BY <1>1, <1>2, HeadTailProperties, LenProperties, ElementOfSeq
<1>4. /\ \A c \in DOMAIN chunks' : /\ c + 1 \in DOMAIN chunks /\ chunks'[c] = chunks[c + 1]
                                   /\ c + 1 = Len(chunks) => c = Len(chunks')
      /\ \A c \in DOMAIN chunks :
           c = 1 \/ \E d \in DOMAIN chunks' : chunks'[d] = chunks[c]
  <2>1. ASSUME NEW c \in DOMAIN chunks'
        PROVE  /\ c + 1 \in DOMAIN chunks /\ chunks'[c] = chunks[c + 1]
               /\ c + 1 = Len(chunks) => c = Len(chunks')
    BY <1>3
  <2>2. ASSUME NEW c \in DOMAIN chunks, c # 1
        PROVE  \E d \in DOMAIN chunks' : chunks'[d] = chunks[c]
    <3>1. c - 1 \in DOMAIN chunks' /\ (c - 1) + 1 = c
      BY <1>3, <2>2
    <3> QED BY <1>3, <3>1
  <2> QED BY <2>1, <2>2
<1>5. 1 = Len(chunks) => chunks' = <<>>
  <2>1. chunks' \in Seq(Seq(RealPiece)) /\ (1 = Len(chunks) => Len(chunks') = 0)
    BY <1>1, <1>3
  <2> QED BY <2>1, EmptySeq
<1>6. /\ Ends(buf') <=> Ends(buf) \/ Ends(chunks[1])
      /\ HasOut(buf') <=> HasOut(buf) \/ HasOut(chunks[1])
      /\ Of(buf') <=> Of(buf) /\ Of(chunks[1])
  <2>1. buf' = buf \o chunks[1]
    BY <1>1, <1>3
  <2> QED BY <1>2, <1>3, <2>1, JoinedEnds
<1>7. ASSUME LastWord PROVE LastWord'
  <2>1. Ends(buf') => chunks' = <<>> /\ held' = <<>> /\ stdout' = <<>>
    BY <1>1, <1>3, <1>5, <1>6, <1>7 DEF LastWord
  <2>2. ASSUME NEW c \in DOMAIN chunks'
        PROVE  /\ EndsLast(chunks'[c])
               /\ Ends(chunks'[c]) => c = Len(chunks') /\ held' = <<>> /\ stdout' = <<>>
    BY <1>1, <1>4, <1>7, <2>2 DEF LastWord
  <2>3. EndsLast(stdout') /\ EndsLast(held') /\ (Ends(held') => stdout' = <<>>)
    BY <1>1, <1>7 DEF LastWord
  <2> QED BY <2>1, <2>2, <2>3 DEF LastWord
<1>8. ASSUME Own PROVE Own'
  <2>1. Of(buf') /\ Of(held') /\ Of(stdout') /\ \A c \in DOMAIN chunks' : Of(chunks'[c])
    BY <1>1, <1>3, <1>4, <1>6, <1>8 DEF Own
  <2> QED BY <1>1, <2>1 DEF Own, Of
<1>9. Unended => Unended'
  BY <1>1, <1>3, <1>4, <1>6 DEF Unended
<1>10. OutSent => OutSent'
  BY <1>1, <1>3, <1>4, <1>6 DEF OutSent
<1> QED BY <1>1, <1>7, <1>8, <1>9, <1>10

LEMMA InPhaseReadLoop ==
  ASSUME Typed, InPhase, ReadLoop
  PROVE  InPhase'
<1>1. CASE Read
  <2>1. held = <<>>
    BY <1>1 DEF Read, InPhase
  <2>2. /\ UNCHANGED <<pc, n, running, printed, stdin>> /\ reader' = "send" /\ held' # <<>>
        /\ ~Unread /\ reader # "none"
        /\ LastWord => LastWord'
        /\ Begun => Begun'
        /\ OutSent => OutSent'
    BY <1>1, <2>1, ReadMoves DEF Unread, Silent, Begun, Read
  <2> QED BY <2>2 DEF InPhase
<1>2. CASE SendChunk
  <2>1. held # <<>>
    BY <1>2 DEF SendChunk, InPhase
  <2>2. /\ UNCHANGED <<pc, n, running, printed, stdin>> /\ reader' = "read" /\ held' = <<>>
        /\ ~Unread /\ reader # "none"
        /\ LastWord => LastWord'
        /\ Begun => Begun'
        /\ OutSent => OutSent'
    BY <1>2, <2>1, SendMoves DEF Unread, Silent, Begun, SendChunk
  <2> QED BY <2>2 DEF InPhase
<1>3. CASE ReadFails
  BY <1>3 DEF ReadFails, InPhase, Unread, Silent, Begun, LastWord, Own, Of, Unended,
     OutSent, caller, router
<1> QED BY <1>1, <1>2, <1>3 DEF ReadLoop

-----------------------------------------------------------------------------
(***************************************************************************)
(* The router.                                                             *)
(***************************************************************************)
\* It prints something of its command; a prompt ends the command.
LEMMA PrintMoves ==
  ASSUME Typed, Begun, running = n, NEW piece \in RealPiece,
         stdout' = Append(stdout, piece), piece.of = n,
         running' \in {n, Nobody}, Ending(piece) => running' = Nobody,
         UNCHANGED <<n, buf, held, chunks>>
  PROVE  Begun' /\ (OutSent \/ piece.kind = "out" => OutSent')
<1>1. running # Nobody
  BY DEF Typed, TypeOK, Runs, Nobody
<1>2. LastWord /\ Own /\ Unended
  BY <1>1 DEF Begun
<1>3. stdout \in Seq(RealPiece)
  BY DEF Typed
<1>4. /\ Ends(stdout') <=> Ending(piece)
      /\ HasOut(stdout') <=> HasOut(stdout) \/ piece.kind = "out"
      /\ Of(stdout') <=> Of(stdout)
      /\ EndsLast(stdout')
  BY <1>2, <1>3, AppendedEnds DEF Unended
<1>5. LastWord'
  BY <1>2, <1>4 DEF LastWord, Unended
<1>6. Own'
  BY <1>2, <1>4 DEF Own, Of
<1>7. running' # Nobody => Unended'
  BY <1>2, <1>4 DEF Unended
<1>8. OutSent \/ piece.kind = "out" => OutSent'
  BY <1>4 DEF OutSent
<1> QED BY <1>5, <1>6, <1>7, <1>8 DEF Begun

LEMMA Phases ==
  ASSUME Typed
  PROVE  pc \in {"connect", "handshake", "shell", "learn", "idle", "drain", "wait",
                "interrupt", "settle", "closed"}
BY DEF Typed, TypeOK, Asking, Waiting

LEMMA InPhaseRouter ==
  ASSUME Typed, DialIsOver, InPhase, MaxStray = 0, Router
  PROVE  InPhase'
<1> USE DEF caller, stream, router, Prints
<1>1. /\ UNCHANGED <<pc, n, buf, held, chunks, reader>>
      /\ pc # "closed"
      /\ n \in Runs /\ n # CtrlC /\ n # Nobody /\ CtrlC \notin Runs
  <2>1. conn = "up" /\ UNCHANGED <<pc, n, buf, held, chunks, reader>>
    BY DEF Router, TakeCommand, PrintOutput, Finish, TakeCtrlC, IgnoreCtrlC, StrayPrompt
  <2>2. n \in Runs
    BY DEF Typed, TypeOK
  <2>3. CtrlC \notin Runs /\ Nobody \notin Runs
    BY RunsAssumption DEF Runs, CtrlC, Nobody
  <2> QED BY <2>1, <2>2, <2>3 DEF DialIsOver
<1>2. ASSUME running # Nobody
      PROVE  /\ Begun /\ running = n
             /\ \/ pc \in {"wait", "interrupt"} /\ stdin = <<>> /\ (OutSent \/ ~printed)
                \/ pc = "settle" /\ stdin \in {<<>>, <<CtrlC>>}
  <2>1. ~Unread
    BY <1>2 DEF Unread
  <2>2. pc \in {"wait", "interrupt", "settle"}
    BY <1>1, <1>2, <2>1, Phases DEF InPhase
  <2> QED BY <1>2, <2>1, <2>2 DEF InPhase, Begun
<1>3. Prompt(n) \in RealPiece /\ Prompt(n).of = n /\ Prompt(n).kind = "prompt"
  BY <1>1 DEF Prompt, RealPiece, Piece
<1>4. CASE TakeCommand
  <2>1. /\ stdin # <<>> /\ Head(stdin) # CtrlC
        /\ Unread /\ \/ pc \in {"wait", "interrupt"} /\ stdin = <<n>>
                     \/ pc = "settle" /\ stdin = <<n, CtrlC>>
    <3>1. /\ stdin # <<>> /\ Head(stdin) # CtrlC
          /\ stdin \notin {<<>>, <<CtrlC>>, <<CtrlC, n>>, <<CtrlC, n, CtrlC>>}
      BY <1>4, Lines DEF TakeCommand
    <3>2. pc \in {"wait", "interrupt", "settle"}
      BY <1>1, <3>1, Phases DEF InPhase
    <3> QED BY <3>1, <3>2 DEF InPhase
  <2>2. /\ Head(stdin) = n
        /\ pc = "settle" => stdin' = <<CtrlC>>
        /\ pc # "settle" => stdin' = <<>>
    <3>1. stdin' = Tail(stdin)
      BY <1>4 DEF TakeCommand
    <3>2. CASE stdin = <<n>> /\ pc # "settle"
      BY <3>1, <3>2, Lines
    <3>3. CASE stdin = <<n, CtrlC>> /\ pc = "settle"
      BY <3>1, <3>3, Lines
    <3> QED BY <2>1, <3>2, <3>3
  <2> DEFINE echo == [kind |-> "echo", of |-> n]
  <2>3. /\ running' = n /\ printed' = FALSE /\ stdout' = <<echo>>
        /\ buf = <<>> /\ held = <<>> /\ chunks = <<>>
    BY <1>4, <2>1, <2>2, Lines DEF TakeCommand, Unread, Silent
  <2>4. DOMAIN <<echo>> = {1} /\ <<echo>>[1].kind = "echo" /\ <<echo>>[1].of = n
    OBVIOUS
  <2>5. EndsLast(stdout') /\ ~Ends(stdout') /\ Of(stdout')
    BY <2>3, <2>4 DEF EndsLast, Ends, Of, Ending
  <2>6. Begun'
    BY <1>1, <2>3, <2>5, Nowhere DEF Begun, LastWord, Own, Of, Unended
  <2> QED BY <1>1, <2>1, <2>2, <2>3, <2>6 DEF InPhase
<1>5. CASE PrintOutput
  <2> DEFINE piece == [kind |-> "out", of |-> n]
  <2>1. /\ running # Nobody /\ stdout' = Append(stdout, piece)
        /\ UNCHANGED <<running, stdin>>
    BY <1>2, <1>5 DEF PrintOutput
  <2>2. piece \in RealPiece /\ piece.of = n /\ piece.kind = "out" /\ ~Ending(piece)
    BY <1>1 DEF RealPiece, Piece, Ending
  <2> HIDE DEF piece
  <2>3. Begun' /\ OutSent'
    BY <1>1, <1>2, <2>1, <2>2, PrintMoves
  <2> QED BY <1>1, <1>2, <2>1, <2>3 DEF InPhase
<1>6. CASE Finish
  <2>1. /\ running # Nobody /\ printed /\ running' = Nobody
        /\ stdout' = Append(stdout, Prompt(n)) /\ UNCHANGED stdin
    BY <1>2, <1>6 DEF Finish
  <2>2. Begun' /\ (OutSent => OutSent')
    BY <1>1, <1>2, <1>3, <2>1, PrintMoves
  <2> QED BY <1>1, <1>2, <2>1, <2>2 DEF InPhase
<1>7. CASE TakeCtrlC
  <2>1. /\ running # Nobody /\ stdin # <<>> /\ running' = Nobody
        /\ stdin' = Tail(stdin) /\ stdout' = Append(stdout, Prompt(n))
    BY <1>2, <1>7 DEF TakeCtrlC
  <2>2. Begun'
    BY <1>1, <1>2, <1>3, <2>1, PrintMoves
  <2>3. pc = "settle" /\ stdin' = <<>>
    BY <1>2, <2>1, Lines
  <2> QED BY <1>1, <2>2, <2>3 DEF InPhase
<1>8. CASE IgnoreCtrlC
  <2>1. /\ stdin # <<>> /\ Head(stdin) = CtrlC /\ stdin' = Tail(stdin)
        /\ UNCHANGED <<running, printed, stdout>>
    BY <1>8 DEF IgnoreCtrlC
  <2>2. /\ Unread => Unread'
        /\ Begun => Begun'
    BY <1>1, <2>1 DEF Unread, Silent, Begun, LastWord, Own, Of, Unended
  <2>3. \/ pc \in {"idle", "drain"} /\ Unread /\ stdin' = <<>>
        \/ pc \in {"wait", "interrupt"} /\ Unread /\ stdin' = <<n>>
        \/ pc = "settle" /\ Unread /\ stdin' = <<n, CtrlC>>
        \/ pc = "settle" /\ Begun /\ stdin' = <<>>
    <3>1. /\ stdin \notin {<<>>, <<n>>, <<n, CtrlC>>}
          /\ stdin = <<CtrlC>> => stdin' = <<>>
          /\ stdin = <<CtrlC, n>> => stdin' = <<n>>
          /\ stdin = <<CtrlC, n, CtrlC>> => stdin' = <<n, CtrlC>>
      <4>1. stdin \notin {<<>>, <<n>>, <<n, CtrlC>>}
        BY <1>1, <2>1, Lines
      <4>2. stdin = <<CtrlC>> => stdin' = <<>>
        BY <2>1, Lines
      <4>3. stdin = <<CtrlC, n>> => stdin' = <<n>>
        BY <2>1, Lines
      <4>4. stdin = <<CtrlC, n, CtrlC>> => stdin' = <<n, CtrlC>>
        BY <2>1, Lines
      <4> QED BY <4>1, <4>2, <4>3, <4>4
    <3>2. pc \in {"idle", "drain", "wait", "interrupt", "settle"}
      BY <1>1, <3>1, Phases DEF InPhase
    <3> QED BY <3>1, <3>2 DEF InPhase
  <2> QED BY <1>1, <2>2, <2>3 DEF InPhase
<1>9. CASE StrayPrompt
  BY <1>9 DEF StrayPrompt, Typed, TypeOK
<1> QED BY <1>4, <1>5, <1>6, <1>7, <1>8, <1>9 DEF Router

-----------------------------------------------------------------------------
(***************************************************************************)
(* The caller.                                                             *)
(***************************************************************************)
\* A text that ends in a prompt or a question is the last of what comes.
LEMMA EndsInEnds ==
  ASSUME Typed, LastWord, NEW kind \in {"prompt", "question"}, EndsIn(kind)
  PROVE  chunks = <<>> /\ held = <<>> /\ stdout = <<>>
<1>1. buf \in Seq(RealPiece) /\ buf # <<>> /\ Last(buf) = buf[Len(buf)]
  BY DEF Typed, EndsIn, Last
<1>2. Len(buf) \in DOMAIN buf
  BY <1>1, EmptySeq, LenProperties
<1>3. Ends(buf)
  BY <1>1, <1>2 DEF EndsIn, Ends, Ending
<1> QED BY <1>3 DEF LastWord

\* An answer is found only when the command was read and is over.
LEMMA ReadyIsSilent ==
  ASSUME Typed, InPhase, pc \in {"wait", "settle"}, Ready
  PROVE  /\ Begun /\ running = Nobody
         /\ chunks = <<>> /\ held = <<>> /\ stdout = <<>> /\ Ends(buf)
         /\ pc = "wait" => stdin = <<>> /\ HasOut(buf)
         /\ pc = "settle" => stdin \in {<<>>, <<CtrlC>>}
<1>1. EndsIn("prompt") /\ buf # <<>>
  BY DEF Ready, EndsIn
<1>2. ~Unread
  BY <1>1 DEF Unread, Silent
<1>3. /\ Begun
      /\ pc = "wait" => stdin = <<>> /\ (OutSent \/ (running = n /\ ~printed))
      /\ pc = "settle" => stdin \in {<<>>, <<CtrlC>>}
  BY <1>2 DEF InPhase
<1>4. chunks = <<>> /\ held = <<>> /\ stdout = <<>>
  BY <1>1, <1>3, EndsInEnds DEF Begun
<1>5. Ends(buf)
  <2>1. buf \in Seq(RealPiece) /\ Len(buf) \in DOMAIN buf
    BY <1>1, EmptySeq, LenProperties DEF Typed
  <2> QED BY <1>1, <2>1 DEF EndsIn, Last, Ends, Ending
<1>6. running = Nobody
  BY <1>3, <1>5 DEF Begun, Unended
<1>7. OutSent => HasOut(buf)
  BY <1>4, Nowhere DEF OutSent
<1>8. n # Nobody
  BY RunsAssumption DEF Typed, TypeOK, Runs, Nobody
<1> QED BY <1>3, <1>4, <1>5, <1>6, <1>7, <1>8

LEMMA FewLines ==
  ASSUME Typed, InPhase
  PROVE  Len(stdin) <= 3
BY Phases, Lines DEF InPhase

LEMMA InPhaseCaller ==
  ASSUME Typed, InPhase, Caller \/ StartRun \/ Close \/ Grants
  PROVE  InPhase'
<1> USE DEF caller, link, stream, router
<1>1. ASSUME pc' = "closed", UNCHANGED <<held, reader, stdin>> PROVE InPhase'
  BY <1>1, FewLines DEF InPhase
<1>2. CASE \/ ConnectFails \/ Unblocked \/ Refused \/ LoginFails \/ WriteFails \/ Gone
           \/ SettleTimeout \/ Close
  BY <1>1, <1>2 DEF ConnectFails, Unblocked, Refused, LoginFails, WriteFails, Gone,
     SettleTimeout, Close, ReturnClosed, Shut
<1>3. CASE Connect \/ LoggedIn
  BY <1>3 DEF Connect, LoggedIn, InPhase, Unread, Silent
<1>4. CASE ShellOpens
  <2>1. /\ n' = 0 /\ running' = Nobody /\ stdin' = <<>> /\ buf' = <<>> /\ chunks' = <<>>
        /\ held' = <<>> /\ pc' = "learn" /\ reader' = "read"
    BY <1>4 DEF ShellOpens, InPhase, Unread, Silent
  <2>2. EndsLast(stdout')
    <3>1. \A piece : EndsLast(<<piece>>)
      BY DEF EndsLast
    <3> QED BY <1>4, <3>1, Nowhere DEF ShellOpens
  <2>3. LastWord'
    BY <2>1, <2>2, Nowhere DEF LastWord
  <2> QED BY <2>1, <2>3 DEF InPhase
<1>5. CASE Learned
  <2>1. pc = "learn" /\ EndsIn("prompt") /\ LastWord /\ running = Nobody /\ stdin = <<>>
    BY <1>5 DEF Learned, InPhase
  <2>2. chunks = <<>> /\ held = <<>> /\ stdout = <<>>
    BY <2>1, EndsInEnds
  <2> QED BY <1>5, <2>1, <2>2 DEF Learned, InPhase, Unread, Silent
<1>6. CASE StartRun
  BY <1>6 DEF StartRun, InPhase, Unread, Silent
<1>7. CASE DrainChunk
  BY <1>7 DEF DrainChunk, InPhase, Unread, Silent
<1>8. CASE Write
  <2>1. stdin' \in {<<n>>, <<CtrlC, n>>}
    BY <1>8, Lines DEF Write, InPhase
  <2>2. Unread /\ UNCHANGED <<n, buf, chunks, held, stdout, running, reader>> /\ pc' = "wait"
    BY <1>8 DEF Write, InPhase
  <2> QED BY <2>1, <2>2 DEF InPhase, Unread, Silent
<1>9. CASE Receive
  <2>1. ~Unread /\ pc \in {"learn", "wait", "settle"}
    BY <1>9 DEF Receive, Unread, Silent, Waiting
  <2>2. /\ UNCHANGED <<pc, n, running, printed, stdin, held, reader>>
        /\ LastWord => LastWord'
        /\ Begun => Begun'
        /\ OutSent => OutSent'
    BY <1>9, ReceiveMoves DEF Begun
  <2> QED BY <2>1, <2>2 DEF InPhase
<1>10. CASE Answered
  <2>1. pc = "wait" /\ Ready /\ buf' = <<>> /\ pc' \in {"idle", "closed"}
        /\ UNCHANGED <<n, chunks, held, stdout, running, stdin, reader>>
    BY <1>10 DEF Answered, ReturnKept, Shut
  <2>2. /\ running = Nobody /\ chunks = <<>> /\ held = <<>> /\ stdout = <<>>
        /\ stdin = <<>>
    BY <2>1, ReadyIsSilent
  <2> QED BY <1>1, <2>1, <2>2 DEF InPhase, Unread, Silent
<1>11. CASE RunTimeout
  BY <1>11 DEF RunTimeout, InPhase, Unread, Silent, Begun, LastWord, Own, Of, Unended, OutSent
<1>12. CASE Interrupt
  <2>1. /\ pc' = "settle" /\ stdin' = Append(stdin, CtrlC) /\ pc = "interrupt"
        /\ UNCHANGED <<n, buf, chunks, held, stdout, running, reader>>
    BY <1>12 DEF Interrupt
  <2>2. CASE Unread /\ stdin \in {<<n>>, <<CtrlC, n>>}
    <3>1. stdin' \in {<<n, CtrlC>>, <<CtrlC, n, CtrlC>>}
      <4>1. CASE stdin = <<n>>
        BY <2>1, <4>1, Lines
      <4>2. CASE stdin = <<CtrlC, n>>
        BY <2>1, <4>2, Lines
      <4> QED BY <2>2, <4>1, <4>2
    <3> QED BY <2>1, <2>2, <3>1 DEF InPhase, Unread, Silent
  <2>3. CASE Begun /\ stdin = <<>>
    <3>1. stdin' = <<CtrlC>>
      BY <2>1, <2>3, Lines
    <3> QED BY <2>1, <2>3, <3>1 DEF InPhase, Begun, LastWord, Own, Of, Unended
  <2> QED BY <2>1, <2>2, <2>3 DEF InPhase
<1>13. CASE Settled
  <2>1. pc = "settle" /\ Ready /\ buf' = <<>> /\ pc' \in {"idle", "closed"}
        /\ UNCHANGED <<n, chunks, held, stdout, running, stdin, reader>>
    BY <1>13 DEF Settled, ReturnKept, Shut
  <2>2. /\ running = Nobody /\ chunks = <<>> /\ held = <<>> /\ stdout = <<>>
        /\ stdin \in {<<>>, <<CtrlC>>}
    BY <2>1, ReadyIsSilent
  <2> QED BY <1>1, <2>1, <2>2 DEF InPhase, Unread, Silent
<1> QED
  BY <1>2, <1>3, <1>4, <1>5, <1>6, <1>7, <1>8, <1>9, <1>10, <1>11, <1>12, <1>13
     DEF Caller, Grants

LEMMA InPhaseNext ==
  ASSUME Typed, DialIsOver, InPhase, MaxStray = 0, [Next]_vars
  PROVE  InPhase'
<1>1. CASE Disconnect \/ DeadlinePasses \/ UNCHANGED vars
  BY <1>1 DEF Disconnect, DeadlinePasses, vars, InPhase, Unread, Silent, Begun, LastWord,
     Own, Of, Unended, OutSent, caller, link, stream, router
<1> QED BY <1>1, InPhaseCaller, InPhaseReadLoop, InPhaseRouter DEF Next

LEMMA AlwaysInPhase ==
  ASSUME MaxStray = 0
  PROVE  Spec => []InPhase
<1>1. Init => InPhase
  BY DEF Init, InPhase, Unread, Silent
<1>2. Typed /\ DialIsOver /\ InPhase /\ [Next]_vars => InPhase'
  BY InPhaseNext
<1> QED BY <1>1, <1>2, AlwaysTyped, DialLeavesNothing, PTL DEF Spec

\* With a router that gives one prompt for each command, Run leaves a session
\* open only when the shell is silent and waits for the next command
\* (session.go:265-271).
THEOREM KeptSessionIsQuiet ==
  ASSUME MaxStray = 0
  PROVE  Spec => []KeptMeansQuiet
<1>1. InPhase => KeptMeansQuiet
  BY DEF InPhase, Unread, Silent, KeptMeansQuiet
<1> QED BY <1>1, AlwaysInPhase, PTL

\* What the router has not read is three lines at most, however many runs it
\* did not answer (session.go:250, 266-270).
THEOREM InputStaysBounded ==
  ASSUME MaxStray = 0
  PROVE  Spec => []InputIsBounded
<1>1. Typed /\ InPhase => InputIsBounded
  BY FewLines DEF InputIsBounded
<1> QED BY <1>1, AlwaysTyped, AlwaysInPhase, PTL

-----------------------------------------------------------------------------
(***************************************************************************)
(* The refinement of Shell: each step of a session is a step of the shell  *)
(* that the scheduler sees, or none.                                       *)
(***************************************************************************)
ShellStep == [ShellView!ShellNext]_(ShellView!svars)

\* What Run returned belongs to a run, and runs begin when Dial has returned.
Numbered ==
  /\ ret.run <= n
  /\ pc = "connect" => n = 0

LEMMA NumberedNext ==
  ASSUME Typed, Numbered, [Next]_vars
  PROVE  Numbered'
<1> USE DEF Numbered, Typed, TypeOK, Runs, Nobody, caller, link, stream, router
<1>1. CASE Caller
  BY <1>1 DEF Caller, Connect, ConnectFails, Unblocked, Learned, LoginFails, DrainChunk,
     Write, WriteFails, Receive, Gone, Answered, RunTimeout, Interrupt, Settled,
     SettleTimeout, ReturnKept, ReturnClosed, Returns, Shut
<1>2. CASE StartRun \/ Close \/ Grants
  BY <1>2 DEF StartRun, Close, Grants, LoggedIn, ShellOpens, Refused, Shut
<1>3. ASSUME UNCHANGED caller PROVE Numbered'
  BY <1>3
<1>4. CASE ReadLoop \/ Router \/ Disconnect \/ DeadlinePasses \/ UNCHANGED vars
  BY <1>3, <1>4 DEF ReadLoop, Read, SendChunk, ReadFails, Router, TakeCommand, PrintOutput,
     Finish, TakeCtrlC, IgnoreCtrlC, StrayPrompt, Disconnect, DeadlinePasses, vars
<1> QED BY <1>1, <1>2, <1>4 DEF Next

\* An answer holds the whole output of the command, and nothing else.
LEMMA OutputIsAll ==
  ASSUME Typed, InPhase, pc = "wait", Ready
  PROVE  Output = {n}
<1>1. Of(buf) /\ HasOut(buf)
  BY ReadyIsSilent DEF Begun, Own
<1>2. Output \subseteq {n}
  BY <1>1 DEF Output, Of
<1>3. PICK j \in DOMAIN buf : buf[j].kind = "out" /\ buf[j].of = n
  BY <1>1 DEF HasOut, Of
<1>4. n # Nobody
  BY RunsAssumption DEF Typed, TypeOK, Runs, Nobody
<1>5. j \in Anchors
  BY <1>3, <1>4 DEF Anchors, Shows
<1>6. j <= j
  BY LenProperties DEF Typed
<1> QED BY <1>2, <1>3, <1>5, <1>6 DEF Output

\* The end of Run, seen as a step of Shell.
LEMMA RefineReturn ==
  ASSUME Typed, Numbered, InPhase, pc \in {"learn", "drain", "wait", "settle"}, UNCHANGED n,
         NEW how \in {"ok", "timeout", "closed"}, NEW outs, Returns(how, outs),
         \/ how # "closed" /\ pc' = "idle"
         \/ pc' = "closed" /\ (how = "closed" \/ n = 0),
         pc = "learn" => n = 0,
         how = "ok" => outs = {n}, how # "ok" => outs = {}
  PROVE  ShellStep
<1>1. ret' = [run |-> n, how |-> how, outs |-> outs] /\ n \in Nat
  BY RunsAssumption DEF Returns, Typed, TypeOK, Runs
<1>2. PhaseView' = pc'
  BY DEF PhaseView, Opening
<1>3. CASE n = 0
  <2>1. PhaseView = "opening"
    BY <1>3 DEF PhaseView, Opening
  <2>2. ret.run \in {Nobody, 0}
    BY <1>3 DEF Numbered, Typed, TypeOK, Runs
  <2>3. UNCHANGED AnswerView
    BY <1>1, <1>3, <2>2 DEF AnswerView
  <2> QED BY <1>2, <2>1, <2>3 DEF ShellStep, ShellView!ShellNext, ShellView!Open
<1>4. CASE n # 0
  <2>1. PhaseView = "busy"
    BY <1>4 DEF PhaseView, Opening
  <2>2. AnswerView' = [run |-> n, how |-> how, outs |-> outs]
    BY <1>1, <1>4 DEF AnswerView, Nobody
  <2> QED BY <1>2, <1>4, <2>1, <2>2
          DEF ShellStep, ShellView!ShellNext, ShellView!Keep, ShellView!Lose, ShellView!Answer
<1> QED BY <1>3, <1>4

LEMMA RefineNext ==
  ASSUME Typed, Numbered, InPhase, [Next]_vars
  PROVE  ShellStep
<1> USE DEF caller, link, stream, router
<1>1. ASSUME UNCHANGED <<n, ret>>, PhaseView' = PhaseView PROVE ShellStep
  BY <1>1 DEF ShellStep, ShellView!svars, AnswerView
<1>2. ASSUME UNCHANGED <<n, ret>>, n = 0 \/ n' = n,
             pc \notin {"idle", "closed"}, pc' \notin {"idle", "closed"}
      PROVE  ShellStep
  BY <1>1, <1>2 DEF PhaseView, Opening
<1>3. ASSUME UNCHANGED <<n, ret>>, n = 0, pc \notin {"idle", "closed"}, pc' = "closed"
      PROVE  ShellStep
  BY <1>3 DEF ShellStep, ShellView!ShellNext, ShellView!Open, PhaseView, AnswerView, Opening
<1>4. CASE ConnectFails \/ Unblocked \/ Refused \/ LoginFails
  <2>1. n = 0
    BY <1>4 DEF ConnectFails, Unblocked, Refused, LoginFails, Numbered, InPhase, Asking
  <2> QED BY <1>3, <1>4, <2>1
          DEF ConnectFails, Unblocked, Refused, LoginFails, Shut, Asking
<1>5. CASE StartRun
  <2>1. PhaseView = "idle" /\ PhaseView' = "busy" /\ n' = n + 1 /\ UNCHANGED AnswerView
    BY <1>5, RunsAssumption
       DEF StartRun, PhaseView, Opening, AnswerView, Typed, TypeOK, Runs
  <2> QED BY <2>1 DEF ShellStep, ShellView!ShellNext, ShellView!Begin
<1>6. CASE Close
  <2>1. PhaseView = "idle" /\ PhaseView' = "closed" /\ UNCHANGED <<n, AnswerView>>
    BY <1>6 DEF Close, Shut, PhaseView, Opening, AnswerView
  <2> QED BY <2>1 DEF ShellStep, ShellView!ShellNext, ShellView!Discard
<1>7. CASE WriteFails \/ Gone \/ SettleTimeout
  <2>1. /\ pc \in {"learn", "drain", "wait", "settle"} /\ pc' = "closed" /\ UNCHANGED n
        /\ Returns("closed", {})
    BY <1>7 DEF WriteFails, Gone, SettleTimeout, ReturnClosed, Shut, Waiting
  <2>2. pc = "learn" => n = 0
    BY DEF InPhase
  <2> QED BY <2>1, <2>2, RefineReturn
<1>8. CASE Answered
  <2>1. /\ pc = "wait" /\ Ready /\ UNCHANGED n /\ pc' = "idle" /\ Returns("ok", Output)
    BY <1>8 DEF Answered, ReturnKept
  <2>2. Output = {n}
    BY <2>1, OutputIsAll
  <2> QED BY <2>1, <2>2, RefineReturn
<1>9. CASE Settled
  <2>1. /\ pc = "settle" /\ UNCHANGED n /\ Returns("timeout", {})
        /\ pc' = "idle" \/ (pc' = "closed" /\ n = 0)
    BY <1>9 DEF Settled, ReturnKept, Shut
  <2> QED BY <2>1, RefineReturn
<1>10. CASE \/ Connect \/ LoggedIn \/ ShellOpens \/ Learned \/ DrainChunk \/ Write
            \/ Receive \/ RunTimeout \/ Interrupt
  BY <1>2, <1>10 DEF Connect, LoggedIn, ShellOpens, Learned, DrainChunk, Write, Receive,
     RunTimeout, Interrupt, Waiting
<1>11. CASE ReadLoop \/ Router \/ Disconnect \/ DeadlinePasses \/ UNCHANGED vars
  <2>1. UNCHANGED caller
    BY <1>11 DEF ReadLoop, Read, SendChunk, ReadFails, Router, TakeCommand, PrintOutput,
       Finish, TakeCtrlC, IgnoreCtrlC, StrayPrompt, Disconnect, DeadlinePasses, vars
  <2> QED BY <1>1, <2>1 DEF PhaseView, Opening
<1> QED
  BY <1>4, <1>5, <1>6, <1>7, <1>8, <1>9, <1>10, <1>11 DEF Next, Caller, Grants

LEMMA RefineInit == Init => ShellView!ShellInit
BY DEF Init, Nothing, Nobody, PhaseView, Opening, AnswerView, ShellView!ShellInit,
   ShellView!NoAnswer

\* A session is what module Shell says the scheduler may rely on, for every
\* number of runs and whatever hosts they go to: with a router that gives one
\* prompt for each command, Run answers each command once, with all of its own
\* output and nothing else, with a timeout that leaves silence, or with an
\* error that closes the session (session.go:254-271, 293-301).
THEOREM ShellImplemented ==
  ASSUME MaxStray = 0
  PROVE  Spec => ImplementsShell
<1>1. Init => Numbered
  BY DEF Init, Nothing, Nobody, Numbered
<1>2. Typed /\ Numbered /\ [Next]_vars => Numbered'
  BY NumberedNext
<1>3. Spec => []Numbered
  BY <1>1, <1>2, AlwaysTyped, PTL DEF Spec
<1>4. Typed /\ Numbered /\ InPhase /\ [Next]_vars => ShellStep
  BY RefineNext
<1> QED BY <1>3, <1>4, RefineInit, AlwaysTyped, AlwaysInPhase, PTL
        DEF Spec, ImplementsShell, ShellView!ShellSpec, ShellStep
=============================================================================
