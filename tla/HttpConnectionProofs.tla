------------------------ MODULE HttpConnectionProofs ------------------------
(***************************************************************************)
(* For buffers of any size, any requests, chunks and configurations: the   *)
(* reader of a connection, what a client may be told after an error, which *)
(* plugins are used, how a request is understood and who is given content. *)
(***************************************************************************)
EXTENDS HttpConnection, SequenceTheorems, NumberLemmas

USE DEF client

\* What a place of the buffer may hold.
Memory == STRING \cup {"NUL"}

\* Types of the reader.
ReaderOK ==
    /\ sent \in Seq(STRING) /\ line \in Seq(STRING)
    /\ arrived \in 0 .. Len(sent) /\ taken \in 0 .. Len(sent)
    /\ level \in 0 .. IO_BUFFER /\ buffer \in [1 .. IO_BUFFER -> Memory]

\* The inductive invariant of the reader.
ReaderInv == ReaderOK /\ NothingLost

LEMMA ReaderInit == Init => ReaderInv
<1> SUFFICES ASSUME Init PROVE ReaderInv
    OBVIOUS
<1>1. sent \in Seq(STRING)
    BY RequestsAssumption DEF Init
<1>2. Len(sent) \in Nat
    BY <1>1
<1>e. line = <<>> /\ Len(line) = 0 /\ line \in Seq(STRING)
    BY DEF Init
<1>3. buffer \in [1 .. IO_BUFFER -> Memory]
    BY DEF Init, Memory
<1>4. ReaderOK
    BY <1>1, <1>2, <1>e, <1>3, BufferAssumption DEF Init, ReaderOK
<1>5. NothingLost
    BY <1>2, <1>e DEF Init, NothingLost
<1> QED BY <1>4, <1>5 DEF ReaderInv

\* read() fills an empty buffer.
LEMMA FillKeeps == ReaderInv /\ Fill => ReaderInv'
<1> SUFFICES ASSUME ReaderInv, Fill PROVE ReaderInv'
    OBVIOUS
<1> USE BufferAssumption
<1>1. PICK n \in 1 .. IO_BUFFER :
          /\ arrived + n <= Len(sent)
          /\ buffer' = [i \in 1 .. IO_BUFFER |->
                           IF i > IO_BUFFER - n THEN sent[arrived + i - (IO_BUFFER - n)]
                           ELSE IF i <= n THEN sent[arrived + i] ELSE "NUL"]
          /\ level' = n /\ arrived' = arrived + n
    BY DEF Fill
<1>2. level = 0 /\ UNCHANGED <<sent, taken, line>>
    BY DEF Fill
<1>3. arrived = taken /\ arrived \in Nat /\ Len(sent) \in Nat
    BY <1>2 DEF ReaderInv, ReaderOK, NothingLost
<1>4. ASSUME NEW i \in 1 .. IO_BUFFER PROVE buffer'[i] \in Memory
    <2>1. CASE i > IO_BUFFER - n
        <3>1. arrived + i - (IO_BUFFER - n) \in 1 .. Len(sent)
            BY <1>1, <1>3, <2>1
        <3> QED BY <1>1, <2>1, <3>1 DEF ReaderInv, ReaderOK, Memory
    <2>2. CASE ~(i > IO_BUFFER - n) /\ i <= n
        <3>1. arrived + i \in 1 .. Len(sent)
            BY <1>1, <1>3, <2>2
        <3> QED BY <1>1, <2>2, <3>1 DEF ReaderInv, ReaderOK, Memory
    <2>3. CASE ~(i > IO_BUFFER - n) /\ ~(i <= n)
        <3>1. buffer'[i] = "NUL"
            BY <1>1, <2>3
        <3> QED BY <3>1 DEF Memory
    <2> QED BY <2>1, <2>2, <2>3
<1>5. ReaderOK'
    <2>1. buffer' \in [1 .. IO_BUFFER -> Memory]
        BY <1>1, <1>4
    <2>2. arrived' \in 0 .. Len(sent) /\ level' \in 0 .. IO_BUFFER
        BY <1>1, <1>3
    <2> QED BY <1>2, <2>1, <2>2 DEF ReaderInv, ReaderOK
<1>6. ASSUME NEW i \in 1 .. level' PROVE buffer'[IO_BUFFER - level' + i] = sent'[taken' + i]
    BY <1>1, <1>2, <1>3
<1>7. NothingLost'
    BY <1>1, <1>2, <1>3, <1>6 DEF ReaderInv, NothingLost
<1> QED BY <1>5, <1>7 DEF ReaderInv

\* _read gives the oldest word of the buffer to _readline.
LEMMA TakeKeeps == ReaderInv /\ TakeByte => ReaderInv'
<1> SUFFICES ASSUME ReaderInv, TakeByte PROVE ReaderInv'
    OBVIOUS
<1> USE BufferAssumption DEF ReaderInv, ReaderOK, NothingLost
<1> DEFINE w == buffer[IO_BUFFER - level + 1]
<1>1. /\ level > 0 /\ line' = Append(line, w)
      /\ level' = level - 1 /\ taken' = taken + 1
      /\ UNCHANGED <<sent, arrived, buffer>>
    BY DEF TakeByte
<1>2. w \in STRING /\ w = sent[taken + 1]
    <2>a. 1 \in 1 .. level
        BY <1>1
    <2>b. \A i \in 1 .. level : buffer[IO_BUFFER - level + i] = sent[taken + i]
        BY Zenon
    <2>1. buffer[IO_BUFFER - level + 1] = sent[taken + 1]
        BY <2>a, <2>b, Zenon
    <2>2. taken + 1 \in 1 .. Len(sent)
        BY <1>1
    <2> QED BY <2>1, <2>2
<1>3. Len(line') = Len(line) + 1 /\ line' \in Seq(STRING)
    BY <1>1, <1>2
<1>4. ReaderOK'
    BY <1>1, <1>2, <1>3
<1>5. ASSUME NEW i \in 1 .. level' PROVE buffer'[IO_BUFFER - level' + i] = sent'[taken' + i]
    <2>1. i + 1 \in 1 .. level
        BY <1>1
    <2>2. buffer[IO_BUFFER - level + (i + 1)] = sent[taken + (i + 1)]
        BY <2>1
    <2>3. /\ IO_BUFFER - level' + i = IO_BUFFER - level + (i + 1)
          /\ taken' + i = taken + (i + 1)
        BY <1>1, <2>1
    <2> QED BY <1>1, <2>2, <2>3
<1>6. ASSUME NEW i \in 1 .. Len(line')
      PROVE  line'[i] = sent'[taken' - Len(line') + i]
    <2>1. CASE i = Len(line')
        BY <1>1, <1>2, <1>3, <2>1
    <2>2. CASE i # Len(line')
        <3>1. i \in 1 .. Len(line) /\ line'[i] = line[i]
            BY <1>1, <1>3, <2>2
        <3>2. taken' - Len(line') + i = taken - Len(line) + i
            BY <1>1, <1>3
        <3> QED BY <1>1, <3>1, <3>2
    <2> QED BY <2>1, <2>2
<1>7. NothingLost'
    BY <1>1, <1>3, <1>5, <1>6
<1> QED BY <1>4, <1>7

\* Every other step leaves the reader alone or empties the line.
LEMMA OthersKeep ==
    ReaderInv /\ UNCHANGED <<sent, readerVars>> /\ (line' = line \/ line' = <<>>) => ReaderInv'
<1> SUFFICES ASSUME ReaderInv, UNCHANGED <<sent, readerVars>>, line' = line \/ line' = <<>>
             PROVE  ReaderInv'
    OBVIOUS
<1> USE DEF ReaderInv, ReaderOK, NothingLost, readerVars
<1>1. CASE line' = line
    BY <1>1
<1>2. CASE line' = <<>>
    <2>1. line' \in Seq(STRING) /\ Len(line') = 0
        BY <1>2
    <2> QED BY <2>1
<1> QED BY <1>1, <1>2

LEMMA ReaderStep == ReaderInv /\ [Next]_vars => ReaderInv'
<1> SUFFICES ASSUME ReaderInv, [Next]_vars PROVE ReaderInv'
    OBVIOUS
<1>1. CASE Read
    BY <1>1, FillKeeps, TakeKeeps, OthersKeep DEF Read, GiveUp, Trickle
<1>2. CASE Understand
    BY <1>2, OthersKeep DEF Understand, ParseRequest, Malformed, BadEscape, UseHeader
<1>3. CASE Check
    BY <1>3, OthersKeep DEF Check, Admit, Deny, Locate, NoSuchPlugin
<1>4. CASE Respond
    BY <1>4, OthersKeep DEF Respond, SendJson, SendFile, ExecuteCgi, CgiWithoutFolder, Unknown,
        AwaitFrame, StartStream, TakeWithoutPlugin, TakeWithoutName, Take, RefuseCommand,
        Command, CloseConnection
<1>5. CASE SendSnapshot \/ EndStream
    BY <1>5, OthersKeep DEF SendSnapshot, EndStream
<1>6. CASE UNCHANGED vars
    BY <1>6, OthersKeep DEF vars
<1> QED BY <1>1, <1>2, <1>3, <1>4, <1>5, <1>6 DEF Next

\* No word is lost, doubled or moved between the socket and the line, for buffers
\* and chunks of any size.
THEOREM ReaderExact == Spec => []NothingLost
<1>1. Init => ReaderInv
    BY ReaderInit
<1>2. ReaderInv /\ [Next]_vars => ReaderInv'
    BY ReaderStep
<1>3. ReaderInv => NothingLost
    BY DEF ReaderInv
<1> QED BY <1>1, <1>2, <1>3, PTL DEF Spec

----------------------------------------------------------------------------
(* What was answered before, at every place of the thread. *)

Nameless == kind = "take" /\ ~Has(param, "&filename=")

AnswersInv ==
    /\ pc \in {"request", "header", "authorise", "locate"} => answers = <<>>
    /\ pc = "answer" => answers = <<>> \/ (kind = "unknown" /\ answers = <<"404">>)
    /\ pc = "frame" => \/ answers = <<>>
                       \/ kind = "stream" /\ answers = <<"stream">>
                       \/ Nameless /\ answers = <<"404">>
    /\ ErrorIsLast

LEMMA AppendOne ==
    ASSUME NEW S, NEW q, q \in Seq(S), NEW b, b \in S, Len(q) = 1
    PROVE  /\ Append(q, b) \in Seq(S) /\ Len(Append(q, b)) = 2
           /\ Append(q, b)[1] = q[1] /\ Append(q, b)[2] = b
<1>1. Append(q, b) \in Seq(S)
    BY AppendProperties
<1>2. Len(Append(q, b)) = 2
    OBVIOUS
<1>3. Append(q, b)[1] = q[1]
    <2>1. \A i \in 1 .. Len(q) : Append(q, b)[i] = q[i]
        BY AppendProperties, SMTT(60)
    <2>2. 1 \in 1 .. Len(q)
        OBVIOUS
    <2> QED BY <2>1, <2>2, Zenon
<1>4. Append(q, b)[2] = b
    <2>1. Append(q, b)[Len(q) + 1] = b
        BY AppendProperties
    <2>2. Len(q) + 1 = 2
        OBVIOUS
    <2> QED BY <2>1, <2>2
<1> QED BY <1>1, <1>2, <1>3, <1>4

LEMMA PairEqual ==
    ASSUME NEW S, NEW s \in Seq(S), NEW t \in Seq(S), Len(s) = 2, Len(t) = 2,
           s[1] = t[1], s[2] = t[2]
    PROVE  s = t
<1>1. \A i \in 1 .. Len(s) : s[i] = t[i]
    OBVIOUS
<1> QED BY <1>1, SeqEqual

LEMMA OneAnswer ==
    /\ \A a : Len(<<a>>) = 1 /\ DOMAIN <<a>> = {1}
    /\ \A a, b : Len(<<a, b>>) = 2 /\ <<a, b>>[1] = a /\ <<a, b>>[2] = b
    /\ \A a : Append(<<>>, a) = <<a>>
    /\ \A a, b : Append(<<a>>, b) = <<a, b>>
<1>1. \A a : Len(<<a>>) = 1 /\ DOMAIN <<a>> = {1}
    OBVIOUS
<1>2. \A a, b : Len(<<a, b>>) = 2 /\ <<a, b>>[1] = a /\ <<a, b>>[2] = b
    OBVIOUS
<1>3. \A a : Append(<<>>, a) = <<a>>
    OBVIOUS
<1>4. ASSUME NEW a, NEW b PROVE Append(<<a>>, b) = <<a, b>>
    <2>1. <<a>> \in Seq({a, b}) /\ b \in {a, b} /\ Len(<<a>>) = 1 /\ <<a>>[1] = a
        OBVIOUS
    <2>2. /\ Append(<<a>>, b) \in Seq({a, b}) /\ Len(Append(<<a>>, b)) = 2
          /\ Append(<<a>>, b)[1] = a /\ Append(<<a>>, b)[2] = b
        BY <2>1, AppendOne
    <2>3. <<a, b>> \in Seq({a, b}) /\ Len(<<a, b>>) = 2 /\ <<a, b>>[1] = a /\ <<a, b>>[2] = b
        OBVIOUS
    <2> QED BY <2>2, <2>3, PairEqual
<1> QED BY <1>1, <1>2, <1>3, <1>4

LEMMA AnswersStep == AnswersInv /\ [Next]_vars => AnswersInv'
<1> SUFFICES ASSUME AnswersInv, [Next]_vars PROVE AnswersInv'
    OBVIOUS
<1> USE DEF AnswersInv, ErrorIsLast, Nameless
<1>1. CASE Read
    BY <1>1 DEF Read, Fill, TakeByte, GiveUp, Trickle, Reading, requestVars, answerVars
<1>2. CASE Understand
    <2>1. CASE ParseRequest \/ UseHeader
        BY <2>1 DEF ParseRequest, UseHeader, Go, answerVars
    <2>2. CASE Malformed \/ BadEscape
        <3>1. pc' = "end" /\ \E a : answers' = <<a>>
            BY <2>2, OneAnswer DEF Malformed, BadEscape, Refuse, Answer, Go
        <3> QED BY <3>1, OneAnswer
    <2> QED BY <1>2, <2>1, <2>2 DEF Understand
<1>3. CASE Check
    <2>1. CASE Admit \/ Locate
        BY <2>1 DEF Admit, Locate, Go, requestVars, answerVars
    <2>2. CASE Deny
        <3>1. pc' = "end" /\ answers' = <<"401">>
            BY <2>2, OneAnswer DEF Deny, Refuse, Answer, Go
        <3> QED BY <3>1, OneAnswer
    <2>3. CASE NoSuchPlugin
        <3>1. pc' = "answer" /\ kind' = "unknown" /\ answers' = <<"404">>
            BY <2>3, OneAnswer DEF NoSuchPlugin, Answer, Go
        <3> QED BY <3>1, OneAnswer
    <2> QED BY <1>3, <2>1, <2>2, <2>3 DEF Check
<1>4. CASE Respond
    <2> USE DEF Go, requestVars, answerVars
    <2>1. CASE SendJson \/ SendFile \/ ExecuteCgi \/ TakeWithoutPlugin \/ RefuseCommand
        <3>1. pc' = "close" /\ pc = "answer" /\ \E a : answers' = Append(answers, a)
            BY <2>1 DEF SendJson, SendFile, ExecuteCgi, TakeWithoutPlugin, RefuseCommand, At, Answer
        <3>2. kind # "unknown"
            BY <2>1 DEF SendJson, SendFile, ExecuteCgi, TakeWithoutPlugin, RefuseCommand, At
        <3>3. \E a : answers' = <<a>>
            BY <3>1, <3>2, OneAnswer
        <3> QED BY <3>1, <3>3, OneAnswer
    <2>2. CASE CgiWithoutFolder \/ Unknown \/ CloseConnection
        BY <2>2 DEF CgiWithoutFolder, Unknown, CloseConnection
    <2>3. CASE AwaitFrame
        <3>1. pc' = "frame" /\ answers' = <<>>
            BY <2>3 DEF AwaitFrame, At
        <3> QED BY <3>1
    <2>4. CASE StartStream
        <3>1. pc' = "frame" /\ kind' = "stream" /\ answers' = <<"stream">>
            BY <2>4, OneAnswer DEF StartStream, At, Answer
        <3> QED BY <3>1, OneAnswer
    <2>5. CASE TakeWithoutName
        <3>1. pc' = "frame" /\ Nameless' /\ answers' = <<"404">>
            BY <2>5, OneAnswer DEF TakeWithoutName, At, Answer
        <3> QED BY <3>1, OneAnswer
    <2>6. CASE Take \/ Command
        <3>1. answers = <<>>
            BY <2>6 DEF Take, Command, At
        <3>2. /\ pc' \in {"crashed", "close", "frame"}
              /\ answers' = <<>> \/ (pc' = "close" /\ \E a : answers' = <<a>>)
            BY <2>6, <3>1, OneAnswer DEF Take, Command, Call, Answer
        <3> QED BY <3>2, OneAnswer
    <2> QED BY <1>4, <2>1, <2>2, <2>3, <2>4, <2>5, <2>6 DEF Respond
<1>5. CASE SendSnapshot
    <2>1. /\ pc' = "close" /\ UNCHANGED <<kind, param>>
          /\ \E a : answers' = <<a>> \/ (Nameless /\ answers' = <<"404", a>>)
        BY <1>5, OneAnswer DEF SendSnapshot, Answer, Go, requestVars
    <2> QED BY <2>1, OneAnswer
<1>6. CASE EndStream
    <2>1. pc' = "close" /\ UNCHANGED <<kind, param>> /\ kind = "stream"
        BY <1>6 DEF EndStream, Answer, Go, requestVars
    <2>2. answers \in {<<>>, <<"stream">>}
        BY <1>6 DEF EndStream, Answer, Go
    <2>3. answers' \in {<<>>, <<"stream">>, <<"500">>, <<"stream", "500">>}
        BY <1>6, <2>2, OneAnswer DEF EndStream, Answer
    <2>4. ErrorIsLast'
        BY <2>3, OneAnswer
    <2> QED BY <2>1, <2>4
<1>7. CASE UNCHANGED vars
    BY <1>7 DEF vars, requestVars, answerVars
<1> QED BY <1>1, <1>2, <1>3, <1>4, <1>5, <1>6, <1>7 DEF Next

\* After an error a client is told nothing more, but for a take without a name.
THEOREM ErrorsEnd == Spec => []ErrorIsLast
<1>1. Init => AnswersInv
    BY DEF Init, AnswersInv, ErrorIsLast
<1>2. AnswersInv /\ [Next]_vars => AnswersInv'
    BY AnswersStep
<1>3. AnswersInv => ErrorIsLast
    BY DEF AnswersInv
<1> QED BY <1>1, <1>2, <1>3, PTL DEF Spec

----------------------------------------------------------------------------
(* Types, and the plugins that are used. *)

LEMMA LeastIn ==
    ASSUME NEW S, S \subseteq Nat, S # {}
    PROVE  Least(S) \in S /\ \A y \in S : Least(S) <= y
BY LeastExists DEF Least

LEMMA LeastIs ==
    ASSUME NEW S, S \subseteq Nat, NEW x \in S, \A y \in S : x <= y
    PROVE  Least(S) = x
<1>1. Least(S) \in S /\ \A y \in S : Least(S) <= y
    BY LeastIn
<1>2. Least(S) <= x /\ x <= Least(S) /\ Least(S) \in Nat /\ x \in Nat
    BY <1>1
<1> QED BY <1>2

Kinds == {Patterns[i].kind : i \in DOMAIN Patterns}

\* What client_thread finds in a line is one of the types it knows.
LEMMA KnownType ==
    ASSUME NEW l, Asks(l) # {}
    PROVE  TypeOf(l) \in Kinds
<1>1. DOMAIN Patterns = 1 .. 10
    BY DEF Patterns
<1>2. Asks(l) \subseteq Nat /\ Asks(l) \subseteq DOMAIN Patterns
    BY <1>1 DEF Asks
<1>3. Least(Asks(l)) \in DOMAIN Patterns
    BY <1>2, LeastIn
<1> QED BY <1>3 DEF TypeOf, Kinds

\* The plugin number of a line is a number.
LEMMA SuffixType ==
    ASSUME NEW l \in Seq(STRING), \A i \in DOMAIN l : Digits(l[i]) \in Seq(0 .. 9)
    PROVE  Suffix(l) \in Nat
<1> DEFINE at == {i \in DOMAIN l : Digits(l[i]) # <<>>}
<1>1. CASE at = {}
    BY <1>1 DEF Suffix
<1>2. CASE at # {}
    <2>1. at \subseteq Nat
        OBVIOUS
    <2>2. Least(at) \in at
        BY <1>2, <2>1, LeastIn
    <2> DEFINE d == Digits(l[Least(at)])
    <2>3. d \in Seq(0 .. 9) /\ d # <<>>
        BY <2>2
    <2>4. d[1] \in 0 .. 9
        <3> HIDE DEF d
        <3> QED BY <2>3
    <2>5. Suffix(l) = d[1]
        BY <1>2 DEF Suffix
    <2> QED BY <2>4, <2>5
<1> QED BY <1>1, <1>2

\* The words of a line are words of the request.
LEMMA LineOfRequest ==
    ReaderInv /\ sent \in Requests =>
        \A i \in DOMAIN line : Digits(line[i]) \in Seq(0 .. 9) /\ PluginIds(line[i]) \in Seq(Int)
<1> SUFFICES ASSUME ReaderInv, sent \in Requests, NEW i \in DOMAIN line
             PROVE  Digits(line[i]) \in Seq(0 .. 9) /\ PluginIds(line[i]) \in Seq(Int)
    OBVIOUS
<1> USE DEF ReaderInv, ReaderOK, NothingLost
<1>1. i \in 1 .. Len(line) /\ line[i] = sent[taken - Len(line) + i]
    OBVIOUS
<1>2. taken - Len(line) + i \in DOMAIN sent
    BY <1>1
<1> QED BY <1>1, <1>2, DigitsAssumption, PluginIdsAssumption

\* The number a command names is an integer of either sign.
LEMMA PluginNoType ==
    ASSUME DOMAIN param \subseteq Nat, \A i \in DOMAIN param : PluginIds(param[i]) \in Seq(Int)
    PROVE  PluginNo \in Int
<1> DEFINE at == {i \in DOMAIN param : PluginIds(param[i]) # <<>>}
<1>1. CASE at = {}
    BY <1>1 DEF PluginNo
<1>2. CASE at # {}
    <2>1. Least(at) \in at
        BY <1>2, LeastIn
    <2> DEFINE d == PluginIds(param[Least(at)])
    <2>2. d \in Seq(Int) /\ d # <<>>
        BY <2>1
    <2>3. d[1] \in Int
        <3> HIDE DEF d
        <3> QED BY <2>2
    <2>4. PluginNo = d[1]
        BY <1>2 DEF PluginNo
    <2> QED BY <2>3, <2>4
<1> QED BY <1>1, <1>2

\* Types of what the reader does not touch.
RequestTypes ==
    /\ conf \in Configs /\ sent \in Requests
    /\ extra \in {"none", "even", "odd"} /\ reads \in BOOLEAN
    /\ Len(line) <= LineMax
    /\ kind \in Kinds \cup {"unknown"} /\ number \in Nat
    /\ \A i \in DOMAIN param : PluginIds(param[i]) \in Seq(Int)
    /\ DOMAIN param \subseteq Nat
    /\ credentials \in {"none", "good", "bad"}

LEMMA RequestTypesStep == ReaderInv /\ RequestTypes /\ [Next]_vars => RequestTypes'
<1> SUFFICES ASSUME ReaderInv, RequestTypes, [Next]_vars PROVE RequestTypes'
    OBVIOUS
<1> USE DEF RequestTypes, requestVars
<1>0. Len(<<>>) <= LineMax
    BY BufferAssumption
<1>1. CASE TakeByte
    <2>1. line \in Seq(STRING) /\ Len(line') = Len(line) + 1 /\ Len(line) \in Nat
        BY <1>1 DEF TakeByte, ReaderInv, ReaderOK
    <2>2. Len(line) # LineMax
        <3>1. CASE line = <<>>
            BY <3>1, BufferAssumption
        <3>2. CASE line # <<>>
            BY <1>1, <3>2 DEF TakeByte, Complete
        <3> QED BY <3>1, <3>2
    <2>3. Len(line') <= LineMax
        BY <2>1, <2>2, BufferAssumption
    <2> QED BY <1>1, <2>3 DEF TakeByte
<1>2. CASE Fill \/ GiveUp \/ Trickle
    BY <1>2 DEF Fill, GiveUp, Trickle
<1>3. CASE ParseRequest
    <2>1. kind' \in Kinds
        BY <1>3, KnownType DEF ParseRequest
    <2>2. Suffix(line) \in Nat
        BY LineOfRequest, SuffixType DEF ReaderInv, ReaderOK
    <2>3. number' \in Nat
        BY <1>3, <2>2 DEF ParseRequest
    <2>4. param' = line /\ DOMAIN line = 1 .. Len(line)
        BY <1>3 DEF ParseRequest, ReaderInv, ReaderOK
    <2>5. \A i \in DOMAIN line : PluginIds(line[i]) \in Seq(Int)
        BY LineOfRequest
    <2> QED BY <1>0, <1>3, <2>1, <2>3, <2>4, <2>5 DEF ParseRequest
<1>4. CASE UseHeader
    BY <1>0, <1>4 DEF UseHeader, Credentials
<1>5. CASE Malformed \/ BadEscape
    BY <1>5 DEF Malformed, BadEscape
<1>6. CASE Check
    BY <1>6 DEF Check, Admit, Deny, Locate, NoSuchPlugin
<1>7. CASE Respond
    BY <1>7 DEF Respond, SendJson, SendFile, ExecuteCgi, CgiWithoutFolder, Unknown,
        AwaitFrame, StartStream, TakeWithoutPlugin, TakeWithoutName, Take, RefuseCommand,
        Command, CloseConnection
<1>8. CASE SendSnapshot \/ EndStream \/ UNCHANGED vars
    BY <1>8 DEF SendSnapshot, EndStream, vars
<1> QED BY <1>1, <1>2, <1>3, <1>4, <1>5, <1>6, <1>7, <1>8 DEF Next, Read, Understand

Places == Understood \cup {"request", "header", "end", "crashed"}

\* The order in which the thread works: what it may call and has told so far.
Told == Content \cup Errors
ThreadTypes ==
    /\ pc \in Places
    /\ answers \in Seq(Told)
    /\ closed = IF pc = "end" THEN 1 ELSE 0

LEMMA ThreadTypesStep == ThreadTypes /\ [Next]_vars => ThreadTypes'
<1> SUFFICES ASSUME ThreadTypes, [Next]_vars PROVE ThreadTypes'
    OBVIOUS
<1> USE DEF ThreadTypes, Places, Understood, Go, answerVars
<1>a. ASSUME NEW a \in Told PROVE Append(answers, a) \in Seq(Told)
    OBVIOUS
<1>t. {"400", "401", "403", "404", "500", "501", "jpeg", "stream", "json", "file", "cgi", "done"}
        \subseteq Told
    BY DEF Told, Content, Errors
<1> HIDE DEF Told
<1>1. CASE Read
    BY <1>1 DEF Read, Fill, TakeByte, GiveUp, Trickle, Reading
<1>2. CASE Understand
    BY <1>2, <1>a, <1>t DEF Understand, ParseRequest, Malformed, BadEscape, UseHeader, Refuse, Answer
<1>3. CASE Check
    BY <1>3, <1>a, <1>t DEF Check, Admit, Deny, Locate, NoSuchPlugin, Refuse, Answer
<1>4. CASE SendJson \/ SendFile \/ ExecuteCgi \/ CgiWithoutFolder \/ Unknown \/ AwaitFrame
    BY <1>4, <1>a, <1>t DEF SendJson, SendFile, FileAnswer, ExecuteCgi, CgiWithoutFolder, Unknown,
        AwaitFrame, At, Answer
<1>5. CASE StartStream \/ TakeWithoutPlugin \/ TakeWithoutName \/ RefuseCommand
    BY <1>5, <1>a, <1>t DEF StartStream, TakeWithoutPlugin, TakeWithoutName, RefuseCommand, At, Answer
<1>6. CASE Take \/ Command
    BY <1>6, <1>a, <1>t DEF Take, Command, Call, At, Answer
<1>7. CASE CloseConnection
    BY <1>7 DEF CloseConnection
<1>8. CASE SendSnapshot \/ EndStream
    BY <1>8, <1>a, <1>t DEF SendSnapshot, EndStream, Answer
<1>9. CASE UNCHANGED vars
    BY <1>9 DEF vars
<1> QED BY <1>1, <1>2, <1>3, <1>4, <1>5, <1>6, <1>7, <1>8, <1>9 DEF Next, Respond

\* The number of the plugin was compared with the count of its kind before it is
\* used, and only types that wait for a frame come to wait for one.
PluginsInv ==
    /\ pc = "answer" /\ Suffixed(kind) => number < Limit
    /\ pc = "frame" => kind \in {"snapshot", "stream", "take"} /\ number < conf.incnt
    /\ calls \subseteq Sides \X Int
    /\ \A c \in calls : c[2] < PluginCount(c[1])

\* The file plugin that take calls is an output plugin that was loaded.
LEMMA FilePluginExists ==
    ASSUME conf \in Configs, FilePlugins # {}
    PROVE  Least(FilePlugins) - 1 \in Nat /\ Least(FilePlugins) - 1 < PluginCount("out")
<1>1. conf.out \in Seq(Outputs)
    BY ConfigAssumption
<1>2. FilePlugins \subseteq 1 .. Len(conf.out) /\ Len(conf.out) \in Nat
    BY <1>1 DEF FilePlugins
<1>3. FilePlugins \subseteq Nat
    BY <1>2
<1>4. Least(FilePlugins) \in FilePlugins
    BY <1>3, LeastIn
<1>5. Least(FilePlugins) \in 1 .. Len(conf.out) /\ PluginCount("out") = Len(conf.out)
    BY <1>2, <1>4 DEF PluginCount
<1> QED BY <1>2, <1>5

LEMMA PluginsStep == PluginsInv /\ RequestTypes /\ [Next]_vars => PluginsInv'
<1> SUFFICES ASSUME PluginsInv, RequestTypes, conf \in Configs, [Next]_vars PROVE PluginsInv'
    BY DEF RequestTypes
<1> USE DEF PluginsInv, PluginCount, Go, requestVars, answerVars
<1>1. CASE Read
    BY <1>1 DEF Read, Fill, TakeByte, GiveUp, Trickle, Reading, Limit
<1>2. CASE Understand
    BY <1>2 DEF Understand, ParseRequest, Malformed, BadEscape, UseHeader, Refuse, Answer
<1>3. CASE Check
    BY <1>3 DEF Check, Admit, Deny, Locate, NoSuchPlugin, Refuse, Answer, Limit, Suffixed
<1>4. CASE SendJson \/ SendFile \/ ExecuteCgi \/ CgiWithoutFolder \/ Unknown \/ CloseConnection
    BY <1>4 DEF SendJson, SendFile, ExecuteCgi, CgiWithoutFolder, Unknown, CloseConnection, Answer
<1>5. CASE AwaitFrame \/ StartStream \/ TakeWithoutPlugin \/ TakeWithoutName
    BY <1>5 DEF AwaitFrame, StartStream, TakeWithoutPlugin, TakeWithoutName, At, Answer,
        Limit, Suffixed
<1>6. CASE RefuseCommand
    BY <1>6 DEF RefuseCommand, Answer
<1>7. CASE Take
    <2> DEFINE n == Least(FilePlugins) - 1
    <2>1. /\ pc = "answer" /\ kind = "take" /\ UNCHANGED <<conf, kind, number>>
          /\ calls' = calls \cup {<<"out", n>>}
          /\ pc' \in {"crashed", "frame", "close"}
        BY <1>7 DEF Take, At, Call, Answer
    <2>2. n \in Nat /\ n < PluginCount("out")
        BY <1>7, FilePluginExists DEF Take
    <2>3. number < conf.incnt
        BY <2>1 DEF Suffixed, Limit
    <2> HIDE DEF n
    <2>4. <<"out", n>> \in Sides \X Int
        BY <2>2 DEF Sides
    <2> QED BY <2>1, <2>2, <2>3, <2>4
<1>8. CASE Command
    <2>1. /\ pc' \in {"crashed", "close"} /\ UNCHANGED conf
          /\ \/ UNCHANGED calls
             \/ /\ calls' = calls \cup {<<CommandSide, PluginNo>>}
                /\ CommandSide \in Sides /\ PluginNo < PluginCount(CommandSide)
        BY <1>8 DEF Command, Call, Answer
    <2>2. PluginNo \in Int
        BY PluginNoType DEF RequestTypes
    <2> HIDE DEF PluginsInv, PluginCount
    <2>3. calls' \subseteq Sides \X Int
        BY <2>1, <2>2 DEF PluginsInv
    <2>4. \A c \in calls' : c[2] < PluginCount(c[1])
        BY <2>1 DEF PluginsInv
    <2> QED BY <2>1, <2>3, <2>4 DEF PluginsInv, PluginCount
<1>9. CASE SendSnapshot \/ EndStream \/ UNCHANGED vars
    BY <1>9 DEF SendSnapshot, EndStream, Answer, vars, Limit
<1> QED BY <1>1, <1>2, <1>3, <1>4, <1>5, <1>6, <1>7, <1>8, <1>9 DEF Next, Respond

\* Whose number is below the first: only a command's, and the one it names.
BelowInv ==
    /\ calls # {} => pc \in {"frame", "close", "end", "crashed"}
    /\ \A c \in calls : c[2] < 0 => kind = "command" /\ c = <<CommandSide, PluginNo>>

LEMMA BelowStep == BelowInv /\ conf \in Configs /\ [Next]_vars => BelowInv'
<1> SUFFICES ASSUME BelowInv, conf \in Configs, [Next]_vars PROVE BelowInv'
    OBVIOUS
<1> USE DEF Go, requestVars, answerVars
<1>1. CASE Take
    <2> DEFINE n == Least(FilePlugins) - 1
    <2>1. /\ pc = "answer" /\ calls' = calls \cup {<<"out", n>>}
          /\ pc' \in {"crashed", "frame", "close"}
        BY <1>1 DEF Take, At, Call, Answer
    <2>2. n \in Nat
        BY <1>1, FilePluginExists DEF Take
    <2> HIDE DEF n
    <2> QED BY <2>1, <2>2 DEF BelowInv
<1>2. CASE Command
    <2>1. /\ pc = "answer" /\ kind = "command" /\ UNCHANGED <<kind, param>>
          /\ calls' \subseteq calls \cup {<<CommandSide, PluginNo>>}
          /\ pc' \in {"crashed", "close"}
        BY <1>2 DEF Command, At, Call, Answer
    <2>2. CommandSide' = CommandSide /\ PluginNo' = PluginNo
        BY <2>1 DEF CommandSide, PluginNo
    <2>3. calls = {}
        BY <2>1 DEF BelowInv
    <2> QED BY <2>1, <2>2, <2>3 DEF BelowInv
<1>3. CASE CloseConnection \/ SendSnapshot \/ EndStream \/ UNCHANGED vars
    <2>1. UNCHANGED <<calls, kind, param>>
        BY <1>3 DEF CloseConnection, SendSnapshot, EndStream, Answer, vars
    <2>2. pc' = pc \/ pc' \in {"close", "end"}
        BY <1>3 DEF CloseConnection, SendSnapshot, EndStream, Answer, vars
    <2>3. CommandSide' = CommandSide /\ PluginNo' = PluginNo
        BY <2>1 DEF CommandSide, PluginNo
    <2> QED BY <2>1, <2>2, <2>3 DEF BelowInv
<1>4. CASE Read \/ Understand \/ Check
    <2>1. calls' = calls /\ pc \in {"request", "header", "authorise", "locate"}
        BY <1>4 DEF Read, Fill, TakeByte, GiveUp, Trickle, Reading, Understand, ParseRequest,
            Malformed, BadEscape, UseHeader, Check, Admit, Deny, Locate, NoSuchPlugin, Refuse, Answer
    <2> QED BY <2>1 DEF BelowInv
<1>5. CASE Respond /\ ~(Take \/ Command \/ CloseConnection)
    <2>1. calls' = calls /\ pc = "answer"
        BY <1>5 DEF Respond, SendJson, SendFile, ExecuteCgi, CgiWithoutFolder, Unknown, AwaitFrame,
            StartStream, TakeWithoutPlugin, TakeWithoutName, RefuseCommand, At, Answer
    <2> QED BY <2>1 DEF BelowInv
<1> QED BY <1>1, <1>2, <1>3, <1>4, <1>5 DEF Next

ConnectionInv == ReaderInv /\ RequestTypes /\ ThreadTypes /\ PluginsInv /\ BelowInv

LEMMA ConnectionInit == Init => ConnectionInv
<1> SUFFICES ASSUME Init PROVE ConnectionInv
    OBVIOUS
<1>1. ReaderInv
    BY ReaderInit
<1>2. RequestTypes
    BY BufferAssumption DEF Init, RequestTypes
<1>3. ThreadTypes
    BY DEF Init, ThreadTypes, Places
<1>4. PluginsInv
    BY DEF Init, PluginsInv
<1>5. BelowInv
    BY DEF Init, BelowInv
<1> QED BY <1>1, <1>2, <1>3, <1>4, <1>5 DEF ConnectionInv

LEMMA ConnectionStep == ConnectionInv /\ [Next]_vars => ConnectionInv'
BY ReaderStep, RequestTypesStep, ThreadTypesStep, PluginsStep, BelowStep DEF ConnectionInv, RequestTypes

\* Types of every variable; the descriptor of a connection is closed exactly when
\* its thread has returned.
THEOREM ConnectionTypes == Spec => []TypeOK
<1>1. ConnectionInv => TypeOK
    BY DEF ConnectionInv, ReaderInv, ReaderOK, RequestTypes, ThreadTypes, PluginsInv, TypeOK,
        Kinds, Places, Told
<1> QED BY <1>1, ConnectionInit, ConnectionStep, PTL DEF Spec

\* For every configuration, every request and every number of either sign: no
\* frame buffer is used beyond those of the loaded plugins, no plugin beyond the
\* last is called, and one below the first only by a command that names it.
THEOREM PluginNumbers == Spec => []PluginsCounted
<1>1. ConnectionInv => PluginsCounted
    <2> SUFFICES ASSUME ConnectionInv PROVE PluginsCounted
        OBVIOUS
    <2>1. number \in Nat /\ conf.incnt \in Nat
        BY ConfigAssumption DEF ConnectionInv, RequestTypes
    <2> QED BY <2>1 DEF ConnectionInv, PluginsInv, BelowInv, PluginsCounted
<1> QED BY <1>1, ConnectionInit, ConnectionStep, PTL DEF Spec

----------------------------------------------------------------------------
(* How a request is understood. *)

\* Where the line that is being read begins.
Mark == taken - Len(line)

Beyond == Understood \cup {"header"}

\* What the thread holds against what was sent, at every place between two lines.
HeadInv ==
    /\ \A i \in 1 .. Len(line) - 1 : line[i] # "LF"
    /\ pc = "request" => taken = Len(line) /\ credentials = "none"
    /\ pc \in Understood => line = <<>>
    /\ pc \in Beyond =>
          /\ FirstEnd \in 1 .. Mark /\ param = SubSeq(sent, 1, FirstEnd)
          /\ credentials = "good" =>
                \E i \in GivenTo(Mark) : sent[i] = "Authorization: Basic good"
          /\ FieldsBeginLines => credentials = LastOf(GivenTo(Mark))

\* The first line of a request ends where the code finds the end of it.
LEMMA FirstLine ==
    ASSUME ReaderInv, RequestTypes, HeadInv, pc = "request", Complete
    PROVE  FirstEnd = taken /\ taken >= 1 /\ line = SubSeq(sent, 1, taken)
<1>1. /\ Len(line) = taken /\ taken \in 1 .. Len(sent) /\ Len(sent) \in Nat
      /\ sent \in Seq(STRING) /\ line \in Seq(STRING)
    <2>1. line \in Seq(STRING) /\ sent \in Seq(STRING) /\ taken \in 0 .. Len(sent)
        BY DEF ReaderInv, ReaderOK
    <2>2. line # <<>> /\ Len(line) = taken
        BY DEF HeadInv, Complete
    <2> QED BY <2>1, <2>2
<1>2. \A i \in 1 .. taken : line[i] = sent[i]
    BY <1>1 DEF ReaderInv, NothingLost
<1>e. line[taken] = "LF" \/ taken = LineMax
    BY <1>1 DEF Complete
<1>l. taken <= LineMax /\ \A i \in 1 .. taken - 1 : line[i] # "LF"
    BY <1>1 DEF HeadInv, RequestTypes
<1> DEFINE S == {i \in DOMAIN sent : sent[i] = "LF" \/ i = LineMax}
<1>3. S \subseteq Nat
    BY <1>1
<1>4. taken \in S
    BY <1>1, <1>2, <1>e
<1>5. ASSUME NEW y \in S PROVE taken <= y
    <2> SUFFICES ASSUME y < taken PROVE FALSE
        BY <1>1, <1>3
    <2>1. y \in 1 .. taken - 1 /\ line[y] = sent[y]
        BY <1>1, <1>2
    <2>2. y # LineMax
        BY <1>1, <1>l, <2>1, BufferAssumption
    <2> QED BY <1>l, <2>1, <2>2
<1>6. FirstEnd = taken
    <2> HIDE DEF S
    <2>1. Least(S) = taken
        BY <1>3, <1>4, <1>5, LeastIs
    <2> QED BY <2>1 DEF S, FirstEnd
<1>7. SubSeq(sent, 1, taken) \in Seq(STRING) /\ Len(SubSeq(sent, 1, taken)) = taken
    BY <1>1, SubSeqProperties
<1>8. \A i \in 1 .. taken : SubSeq(sent, 1, taken)[i] = sent[i]
    BY <1>1, SubSeqProperties
<1>9. line = SubSeq(sent, 1, taken)
    <2>1. \A i \in 1 .. Len(line) : line[i] = SubSeq(sent, 1, taken)[i]
        BY <1>1, <1>2, <1>8
    <2>2. line \in Seq(STRING) /\ Len(line) = Len(SubSeq(sent, 1, taken))
        BY <1>1, <1>7
    <2> QED BY <1>7, <2>1, <2>2, SeqEqual
<1> HIDE DEF S
<1> QED BY <1>1, <1>6, <1>9

\* The passwords given up to the end of a line are those given before it and
\* those in it.
LEMMA GivenByLine ==
    ASSUME ReaderInv, FirstEnd \in 1 .. Mark
    PROVE  /\ GivenTo(Mark) \subseteq GivenTo(taken) /\ GivenTo(taken) \subseteq Nat
           /\ \A i \in GivenTo(Mark) : i <= Mark
           /\ \A i \in 1 .. Len(line) : line[i] \in Passwords => Mark + i \in GivenTo(taken)
           /\ \A i \in GivenTo(taken) \ GivenTo(Mark) :
                  i - Mark \in 1 .. Len(line) /\ line[i - Mark] \in Passwords
<1> USE DEF ReaderInv, ReaderOK, NothingLost, GivenTo, Mark
<1> DEFINE m == Mark
           f == FirstEnd
<1>1. /\ m \in Nat /\ Len(line) \in Nat /\ taken = m + Len(line) /\ f \in 1 .. m
      /\ \A i \in 1 .. Len(line) : line[i] = sent[m + i]
    OBVIOUS
<1>2. \A n : GivenTo(n) = {i \in f + 1 .. n : sent[i] \in Passwords}
    OBVIOUS
<1> HIDE DEF m, f, Mark, GivenTo, ReaderInv
<1>3. GivenTo(m) \subseteq GivenTo(taken) /\ GivenTo(taken) \subseteq Nat
    BY <1>1, <1>2
<1>4. \A i \in GivenTo(m) : i <= m
    BY <1>1, <1>2
<1>5. ASSUME NEW i \in 1 .. Len(line), line[i] \in Passwords PROVE m + i \in GivenTo(taken)
    <2>1. m + i \in f + 1 .. taken /\ sent[m + i] \in Passwords
        BY <1>1, <1>5
    <2> QED BY <1>2, <2>1
<1>6. ASSUME NEW i \in GivenTo(taken), i \notin GivenTo(m)
      PROVE  i - m \in 1 .. Len(line) /\ line[i - m] \in Passwords
    <2>1. i \in f + 1 .. taken /\ sent[i] \in Passwords /\ ~(i \in f + 1 .. m)
        BY <1>2, <1>6
    <2>2. i - m \in 1 .. Len(line) /\ m + (i - m) = i
        BY <1>1, <2>1
    <2> QED BY <1>1, <2>1, <2>2
<1> QED BY <1>3, <1>4, <1>5, <1>6 DEF m

\* Of a header as HTTP has it, only the first word of a line can be a field.
LEMMA FieldsFirst ==
    ASSUME ReaderInv, HeadInv, FieldsBeginLines
    PROVE  \A i \in 2 .. Len(line) : line[i] \notin Passwords \cup {"User-Agent: "}
<1> DEFINE n == Len(line)
           m == Mark
<1>a. n \in Nat /\ taken \in Nat /\ Len(sent) \in Nat /\ taken <= Len(sent)
    BY DEF ReaderInv, ReaderOK
<1>b. n <= taken /\ \A j \in 1 .. n : line[j] = sent[m + j]
    BY DEF ReaderInv, NothingLost, Mark
<1>c. m = taken - n
    BY DEF Mark
<1>d. \A j \in 1 .. n - 1 : line[j] # "LF"
    BY DEF HeadInv
<1> SUFFICES \A i \in 2 .. n : line[i] \notin Passwords \cup {"User-Agent: "}
    OBVIOUS
<1> HIDE DEF n, m
<1>1. ASSUME NEW i \in 2 .. n
      PROVE  /\ i \in 1 .. n /\ i - 1 \in 1 .. n - 1 /\ i - 1 \in 1 .. n
             /\ m \in Nat /\ m + i \in 2 .. Len(sent) /\ m + (i - 1) = (m + i) - 1
    BY <1>a, <1>b, <1>c
<1>2. ASSUME NEW i \in 2 .. n, line[i] \in Passwords \cup {"User-Agent: "} PROVE FALSE
    <2>1. line[i] = sent[m + i] /\ line[i - 1] = sent[(m + i) - 1]
        BY <1>b, <1>1
    <2>2. sent[(m + i) - 1] = "LF"
        BY <1>1, <1>2, <2>1 DEF FieldsBeginLines
    <2> QED BY <1>1, <1>d, <2>1, <2>2
<1> QED BY <1>2

\* The last of the passwords after one more was given.
LEMMA LastOfMore ==
    ASSUME NEW S, S \subseteq Nat, NEW p \in S, \A x \in S : x <= p
    PROVE  LastOf(S) = IF sent[p] = "Authorization: Basic good" THEN "good" ELSE "bad"
<1> DEFINE i == CHOOSE j \in S : \A k \in S : k <= j
<1>1. i \in S /\ \A k \in S : k <= i
    OBVIOUS
<1>2. i <= p /\ p <= i /\ i \in Nat /\ p \in Nat
    BY <1>1
<1>3. i = p
    BY <1>2
<1> QED BY <1>3 DEF LastOf

\* The credentials after a line of the header.
LEMMA CredentialsOfLine ==
    ASSUME ReaderInv, HeadInv, pc = "header", Complete
    PROVE  /\ Credentials(line) = "good" =>
                 \E i \in GivenTo(taken) : sent[i] = "Authorization: Basic good"
           /\ FieldsBeginLines => Credentials(line) = LastOf(GivenTo(taken))
<1>1. FirstEnd \in 1 .. Mark
    BY DEF HeadInv, Beyond
<1>2. /\ credentials = "good" => \E i \in GivenTo(Mark) : sent[i] = "Authorization: Basic good"
      /\ FieldsBeginLines => credentials = LastOf(GivenTo(Mark))
    BY DEF HeadInv, Beyond
<1>3. /\ GivenTo(Mark) \subseteq GivenTo(taken) /\ GivenTo(taken) \subseteq Nat
      /\ \A i \in GivenTo(Mark) : i <= Mark
      /\ \A i \in 1 .. Len(line) : line[i] \in Passwords => Mark + i \in GivenTo(taken)
      /\ \A i \in GivenTo(taken) \ GivenTo(Mark) :
             i - Mark \in 1 .. Len(line) /\ line[i - Mark] \in Passwords
    BY <1>1, GivenByLine
<1>4. /\ Mark \in Nat /\ Len(line) \in Nat /\ Len(line) >= 1 /\ DOMAIN line = 1 .. Len(line)
      /\ \A i \in 1 .. Len(line) : line[i] = sent[Mark + i]
    <2>1. line \in Seq(STRING) /\ taken \in Nat /\ Len(line) <= taken
        BY DEF ReaderInv, ReaderOK, NothingLost
    <2>2. line # <<>>
        BY DEF Complete
    <2>3. \A i \in 1 .. Len(line) : line[i] = sent[Mark + i]
        BY DEF ReaderInv, NothingLost, Mark
    <2> QED BY <2>1, <2>2, <2>3 DEF Mark
<1>w. \A i : Has(line, i) => \E j \in 1 .. Len(line) : line[j] = i
    BY <1>4 DEF Has
<1>n. 1 \in 1 .. Len(line) /\ \A i \in 1 .. Len(line) : i = 1 \/ i \in 2 .. Len(line)
    <2> DEFINE n == Len(line)
    <2>1. n \in Nat /\ n >= 1
        BY <1>4
    <2> HIDE DEF n
    <2>2. 1 \in 1 .. n /\ \A i \in 1 .. n : i = 1 \/ i \in 2 .. n
        BY <2>1
    <2> QED BY <2>2 DEF n
<1>5. CASE Has(line, "User-Agent: ") \/ \A w \in Passwords : ~Has(line, w)
    <2>1. Credentials(line) = credentials
        BY <1>5 DEF Credentials
    <2>2. ASSUME FieldsBeginLines PROVE GivenTo(taken) = GivenTo(Mark)
        <3>1. \A i \in 2 .. Len(line) : line[i] \notin Passwords \cup {"User-Agent: "}
            BY <2>2, FieldsFirst
        <3>2. \A i \in 1 .. Len(line) : line[i] \notin Passwords
            <4>1. CASE Has(line, "User-Agent: ")
                <5>1. line[1] = "User-Agent: "
                    BY <1>w, <1>n, <3>1, <4>1
                <5> QED BY <1>n, <3>1, <5>1 DEF Passwords
            <4>2. CASE \A w \in Passwords : ~Has(line, w)
                BY <1>4, <4>2 DEF Has
            <4> QED BY <1>5, <4>1, <4>2
        <3> QED BY <1>3, <3>2
    <2> QED BY <1>2, <1>3, <2>1, <2>2
<1>6. CASE ~Has(line, "User-Agent: ") /\ \E w \in Passwords : Has(line, w)
    <2>1. Credentials(line) = IF line[1] = "Authorization: Basic good" THEN "good" ELSE "bad"
        BY <1>6 DEF Credentials
    <2>2. ASSUME line[1] = "Authorization: Basic good"
          PROVE  \E i \in GivenTo(taken) : sent[i] = "Authorization: Basic good"
        <3>1. 1 \in 1 .. Len(line) /\ line[1] \in Passwords
            BY <1>n, <2>2 DEF Passwords
        <3>2. Mark + 1 \in GivenTo(taken) /\ sent[Mark + 1] = "Authorization: Basic good"
            BY <1>3, <1>4, <2>2, <3>1
        <3> QED BY <3>2
    <2>3. ASSUME FieldsBeginLines PROVE Credentials(line) = LastOf(GivenTo(taken))
        <3>1. \A i \in 2 .. Len(line) : line[i] \notin Passwords
            BY <2>3, FieldsFirst
        <3>2. line[1] \in Passwords /\ 1 \in 1 .. Len(line)
            BY <1>w, <1>n, <1>6, <3>1
        <3>3. Mark + 1 \in GivenTo(taken) /\ sent[Mark + 1] = line[1]
            BY <1>3, <1>4, <3>2
        <3>4. ASSUME NEW x \in GivenTo(taken) PROVE x <= Mark + 1
            <4>1. CASE x \in GivenTo(Mark)
                BY <1>3, <1>4, <4>1
            <4>2. CASE x \notin GivenTo(Mark)
                <5>1. x - Mark \in 1 .. Len(line) /\ line[x - Mark] \in Passwords
                    BY <1>3, <4>2
                <5>2. x - Mark = 1
                    BY <1>n, <3>1, <5>1
                <5> QED BY <1>3, <1>4, <5>2
            <4> QED BY <4>1, <4>2
        <3>5. LastOf(GivenTo(taken)) =
                  IF sent[Mark + 1] = "Authorization: Basic good" THEN "good" ELSE "bad"
            BY <1>3, <3>3, <3>4, LastOfMore
        <3>6. CASE line[1] = "Authorization: Basic good"
            BY <2>1, <3>3, <3>5, <3>6
        <3>7. CASE line[1] # "Authorization: Basic good"
            BY <2>1, <3>3, <3>5, <3>7
        <3> QED BY <3>6, <3>7
    <2> QED BY <2>1, <2>2, <2>3
<1> QED BY <1>5, <1>6

\* A step that leaves alone what was read and understood.
LEMMA HeadSame ==
    ASSUME HeadInv, UNCHANGED <<sent, taken, line, param, credentials>>,
           pc' = pc \/ pc' \in {"end", "crashed"} \/ (pc \in Understood /\ pc' \in Understood)
    PROVE  HeadInv'
<1> USE DEF Beyond, Understood
<1>1. /\ FirstEnd' = FirstEnd /\ Mark' = Mark /\ GivenTo(Mark)' = GivenTo(Mark)
      /\ FieldsBeginLines' = FieldsBeginLines /\ LastOf(GivenTo(Mark))' = LastOf(GivenTo(Mark))
    BY DEF FirstEnd, Mark, GivenTo, FieldsBeginLines, LastOf
<1> QED BY <1>1 DEF HeadInv

\* One more word of a line.
LEMMA HeadTake ==
    ASSUME ReaderInv, HeadInv, TakeByte
    PROVE  HeadInv'
<1> DEFINE w == buffer[IO_BUFFER - level + 1]
           n == Len(line)
<1>1. /\ line' = Append(line, w) /\ taken' = taken + 1 /\ pc \in {"request", "header"}
      /\ UNCHANGED <<sent, pc, param, credentials>>
    BY DEF TakeByte, Reading, requestVars
<1>2. taken \in Nat /\ n \in Nat /\ (n > 0 => line # <<>> /\ line[n] # "LF")
    <2>1. line \in Seq(STRING) /\ taken \in Nat
        BY DEF ReaderInv, ReaderOK
    <2>2. line # <<>> => line[n] # "LF"
        BY DEF TakeByte, Complete
    <2> QED BY <2>1, <2>2
<1>3. /\ Len(line') = n + 1
      /\ \A i \in 1 .. n : line'[i] = line[i]
    <2>1. line' \in Seq(STRING) /\ line \in Seq(STRING)
        BY ReaderStep, <1>1 DEF Next, Read, ReaderInv, ReaderOK
    <2>2. Len(line') = n + 1
        BY <1>1, <2>1
    <2> QED BY <1>1, <2>1, <2>2
<1> HIDE DEF w, n
<1>4. \A i \in 1 .. n + 1 - 1 : line'[i] # "LF"
    <2>1. \A i \in 1 .. n - 1 : line[i] # "LF"
        BY DEF HeadInv, n
    <2> QED BY <1>2, <1>3, <2>1
<1>5. Mark' = Mark
    BY <1>1, <1>2, <1>3 DEF Mark, n
<1>6. /\ FirstEnd' = FirstEnd /\ GivenTo(Mark)' = GivenTo(Mark)
      /\ FieldsBeginLines' = FieldsBeginLines /\ LastOf(GivenTo(Mark))' = LastOf(GivenTo(Mark))
    BY <1>1, <1>5 DEF FirstEnd, GivenTo, FieldsBeginLines, LastOf
<1>7. pc = "request" => taken' = Len(line') /\ credentials' = "none"
    BY <1>1, <1>2, <1>3 DEF HeadInv, n
<1>8. (\A i \in 1 .. Len(line) - 1 : line[i] # "LF")'
    <2> DEFINE m == Len(line')
    <2>1. m = n + 1
        BY <1>3
    <2> HIDE DEF m
    <2>2. \A i \in 1 .. m - 1 : line'[i] # "LF"
        BY <1>2, <1>4, <2>1
    <2> QED BY <2>2 DEF m
<1>9. (pc \in Beyond =>
          /\ FirstEnd \in 1 .. Mark /\ param = SubSeq(sent, 1, FirstEnd)
          /\ credentials = "good" =>
                \E i \in GivenTo(Mark) : sent[i] = "Authorization: Basic good"
          /\ FieldsBeginLines => credentials = LastOf(GivenTo(Mark)))'
    BY <1>1, <1>5, <1>6 DEF HeadInv, Beyond
<1>10. pc' \notin Understood
    BY <1>1 DEF Understood
<1> QED BY <1>1, <1>7, <1>8, <1>9, <1>10 DEF HeadInv

\* The request line: nothing was given before it.
LEMMA HeadParse ==
    ASSUME ReaderInv, RequestTypes, HeadInv, ParseRequest
    PROVE  HeadInv'
<1>1. /\ pc = "request" /\ pc' = "header" /\ param' = line /\ line' = <<>> /\ Complete
      /\ UNCHANGED <<sent, taken, credentials>>
    BY DEF ParseRequest, Go, readerVars
<1>2. FirstEnd = taken /\ taken >= 1 /\ line = SubSeq(sent, 1, taken) /\ taken \in Nat
    BY <1>1, FirstLine DEF ReaderInv, ReaderOK
<1>3. FirstEnd' = FirstEnd
    BY <1>1 DEF FirstEnd
<1>4. Mark' = taken
    BY <1>1, <1>2 DEF Mark
<1>5. FirstEnd' \in 1 .. Mark' /\ param' = SubSeq(sent', 1, FirstEnd')
    BY <1>1, <1>2, <1>3, <1>4
<1>6. GivenTo(Mark)' = {}
    BY <1>2, <1>3, <1>4 DEF GivenTo
<1>7. credentials' = "none" /\ LastOf(GivenTo(Mark))' = "none"
    BY <1>1, <1>6 DEF HeadInv, LastOf
<1> QED BY <1>1, <1>5, <1>7 DEF HeadInv, Beyond, Understood

\* A line of the header.
LEMMA HeadUse ==
    ASSUME ReaderInv, HeadInv, UseHeader
    PROVE  HeadInv'
<1>1. /\ pc = "header" /\ pc' \in {"header", "authorise"} /\ line' = <<>> /\ Complete
      /\ credentials' = Credentials(line)
      /\ UNCHANGED <<sent, taken, param>>
    BY DEF UseHeader, Go, readerVars
<1>2. FirstEnd \in 1 .. Mark /\ param = SubSeq(sent, 1, FirstEnd)
    BY <1>1 DEF HeadInv, Beyond
<1>3. taken \in Nat /\ Mark \in Nat /\ Mark <= taken
    <2>1. line \in Seq(STRING) /\ taken \in Nat /\ Len(line) <= taken
        BY DEF ReaderInv, ReaderOK, NothingLost
    <2> QED BY <2>1 DEF Mark
<1>4. /\ FirstEnd' = FirstEnd /\ Mark' = taken /\ GivenTo(Mark)' = GivenTo(taken)
      /\ FieldsBeginLines' = FieldsBeginLines
    <2>1. Mark' = taken
        BY <1>1, <1>3 DEF Mark
    <2> QED BY <1>1, <2>1 DEF FirstEnd, GivenTo, FieldsBeginLines
<1>5. LastOf(GivenTo(Mark))' = LastOf(GivenTo(taken))
    BY <1>1, <1>4 DEF LastOf
<1>6. /\ Credentials(line) = "good" =>
            \E i \in GivenTo(taken) : sent[i] = "Authorization: Basic good"
      /\ FieldsBeginLines => Credentials(line) = LastOf(GivenTo(taken))
    BY <1>1, CredentialsOfLine
<1>7. FirstEnd' \in 1 .. Mark'
    BY <1>2, <1>3, <1>4
<1>8. param' = SubSeq(sent', 1, FirstEnd')
    BY <1>1, <1>2, <1>4
<1>9. credentials' = "good" =>
          \E i \in GivenTo(Mark)' : sent'[i] = "Authorization: Basic good"
    BY <1>1, <1>4, <1>6
<1>10. FieldsBeginLines' => credentials' = LastOf(GivenTo(Mark))'
    BY <1>1, <1>4, <1>5, <1>6
<1>11. (\A i \in 1 .. Len(line) - 1 : line[i] # "LF")'
    BY <1>1
<1>12. (/\ pc = "request" => taken = Len(line) /\ credentials = "none"
        /\ pc \in Understood => line = <<>>)'
    BY <1>1
<1> QED BY <1>7, <1>8, <1>9, <1>10, <1>11, <1>12 DEF HeadInv

LEMMA HeadStep == ReaderInv /\ RequestTypes /\ HeadInv /\ [Next]_vars => HeadInv'
<1> SUFFICES ASSUME ReaderInv, RequestTypes, HeadInv, [Next]_vars PROVE HeadInv'
    OBVIOUS
<1> DEFINE Same == /\ UNCHANGED <<sent, taken, line, param, credentials>>
                   /\ \/ pc' = pc \/ pc' \in {"end", "crashed"}
                      \/ pc \in Understood /\ pc' \in Understood
<1> USE DEF readerVars, requestVars
<1>1. CASE TakeByte \/ ParseRequest \/ UseHeader
    BY <1>1, HeadTake, HeadParse, HeadUse
<1>2. CASE Fill \/ GiveUp \/ Trickle \/ Malformed \/ BadEscape \/ UNCHANGED vars
    <2>1. Same
        BY <1>2 DEF Fill, GiveUp, Trickle, Malformed, BadEscape, Refuse, Answer, Go, vars
    <2> QED BY <2>1, HeadSame
<1>3. CASE Check
    <2>1. Same
        BY <1>3 DEF Check, Admit, Deny, Locate, NoSuchPlugin, Refuse, Answer, Go, Understood
    <2> QED BY <2>1, HeadSame
<1>4. CASE Respond
    <2>1. Same
        BY <1>4 DEF Respond, SendJson, SendFile, ExecuteCgi, CgiWithoutFolder, Unknown,
            AwaitFrame, StartStream, TakeWithoutPlugin, TakeWithoutName, Take, RefuseCommand,
            Command, CloseConnection, Call, At, Answer, Go, Understood
    <2> QED BY <2>1, HeadSame
<1>5. CASE SendSnapshot \/ EndStream
    <2>1. Same
        BY <1>5 DEF SendSnapshot, EndStream, Answer, Go, Understood
    <2> QED BY <2>1, HeadSame
<1> QED BY <1>1, <1>2, <1>3, <1>4, <1>5 DEF Next, Read, Understand

UnderstoodInv == ConnectionInv /\ HeadInv

LEMMA UnderstoodInit == Init => UnderstoodInv
<1> SUFFICES ASSUME Init PROVE UnderstoodInv
    OBVIOUS
<1>1. ConnectionInv
    BY ConnectionInit
<1>2. HeadInv
    BY DEF Init, HeadInv, Beyond, Understood
<1> QED BY <1>1, <1>2 DEF UnderstoodInv

LEMMA UnderstoodStep == UnderstoodInv /\ [Next]_vars => UnderstoodInv'
BY ConnectionStep, HeadStep DEF UnderstoodInv, ConnectionInv

\* A request is understood the same way for all chunks, buffer sizes and header
\* lines: the request line is the first line sent, the credentials are the last.
THEOREM RequestUnderstood == Spec => []HeaderUnderstood
<1>1. UnderstoodInv => HeaderUnderstood
    <2> SUFFICES ASSUME UnderstoodInv, pc \in Understood
                 PROVE  /\ param = SubSeq(sent, 1, FirstEnd)
                        /\ FieldsBeginLines => credentials = LastOf(GivenTo(taken))
        BY DEF HeaderUnderstood
    <2>1. taken \in Nat
        BY DEF UnderstoodInv, ConnectionInv, ReaderInv, ReaderOK
    <2>2. line = <<>> /\ pc \in Beyond
        BY DEF UnderstoodInv, HeadInv, Beyond
    <2>3. Mark = taken
        BY <2>1, <2>2 DEF Mark
    <2> QED BY <2>2, <2>3 DEF UnderstoodInv, HeadInv
<1> QED BY <1>1, UnderstoodInit, UnderstoodStep, PTL DEF Spec

\* The credentials that were given are good.
Deserved ==
    /\ \E i \in GivenTo(taken) : sent[i] = "Authorization: Basic good"
    /\ FieldsBeginLines => LastOf(GivenTo(taken)) = "good"

Delivered == calls # {} \/ \E i \in DOMAIN answers : answers[i] \in Content

\* Nobody gets past the check of the password without it.
AuthorisedInv ==
    /\ pc \in {"request", "header", "authorise"} => ~Delivered
    /\ pc \in {"locate", "answer", "frame", "close"} => Admitted
    /\ ContentAuthorised

LEMMA GoodDeserves ==
    ASSUME UnderstoodInv, pc \in Understood, credentials = "good"
    PROVE  Deserved
<1>1. taken \in Nat
    BY DEF UnderstoodInv, ConnectionInv, ReaderInv, ReaderOK
<1>2. line = <<>> /\ pc \in Beyond
    BY DEF UnderstoodInv, HeadInv, Beyond
<1>3. Mark = taken
    BY <1>1, <1>2 DEF Mark
<1> QED BY <1>2, <1>3 DEF UnderstoodInv, HeadInv, Deserved

\* An error is no content.
LEMMA ErrorsDeliverNothing ==
    ASSUME ~Delivered, answers \in Seq(Told), NEW a \in Errors,
           answers' = Append(answers, a), calls' = calls
    PROVE  ~Delivered'
<1>1. a \notin Content
    BY DEF Errors, Content
<1>2. ASSUME NEW i \in DOMAIN answers' PROVE answers'[i] = a \/ (i \in DOMAIN answers /\ answers'[i] = answers[i])
    OBVIOUS
<1>3. \A i \in DOMAIN answers' : answers'[i] \notin Content
    BY <1>1, <1>2 DEF Delivered
<1> QED BY <1>3 DEF Delivered

LEMMA AuthorisedStep == UnderstoodInv /\ AuthorisedInv /\ [Next]_vars => AuthorisedInv'
<1> SUFFICES ASSUME UnderstoodInv, AuthorisedInv, [Next]_vars PROVE AuthorisedInv'
    OBVIOUS
<1> USE DEF Go, readerVars, requestVars, answerVars
<1>p. pc \in Places /\ answers \in Seq(Told)
    BY DEF UnderstoodInv, ConnectionInv, ThreadTypes
<1>e. {"400", "401", "500"} \subseteq Errors
    BY DEF Errors
<1>1. CASE pc \in {"request", "header", "authorise"}
    <2>1. ~Delivered
        BY <1>1 DEF AuthorisedInv
    <2>2. CASE Read \/ ParseRequest \/ UseHeader \/ Admit \/ UNCHANGED vars
        <3>1. UNCHANGED <<answers, calls>>
            BY <2>2 DEF Read, Fill, TakeByte, GiveUp, Trickle, ParseRequest, UseHeader, Admit, vars
        <3>2. ~Delivered'
            BY <2>1, <3>1 DEF Delivered
        <3>3. CASE Admit
            <4>1. Admitted' /\ pc' = "locate"
                BY <3>3 DEF Admit, Admitted
            <4> QED BY <3>2, <4>1 DEF AuthorisedInv, ContentAuthorised, Delivered
        <3>4. CASE Read \/ ParseRequest \/ UseHeader \/ UNCHANGED vars
            <4>1. pc' \in {"request", "header", "authorise", "end"}
                BY <1>1, <3>4 DEF Read, Fill, TakeByte, GiveUp, Trickle, ParseRequest, UseHeader, vars
            <4> QED BY <3>2, <4>1 DEF AuthorisedInv, ContentAuthorised, Delivered
        <3> QED BY <2>2, <3>3, <3>4
    <2>3. CASE Malformed \/ BadEscape \/ Deny
        <3>1. /\ pc' = "end" /\ calls' = calls
              /\ \E a \in Errors : answers' = Append(answers, a)
            BY <2>3, <1>e DEF Malformed, BadEscape, Deny, Refuse, Answer
        <3>2. ~Delivered'
            BY <1>p, <2>1, <3>1, ErrorsDeliverNothing
        <3> QED BY <3>1, <3>2 DEF AuthorisedInv, ContentAuthorised, Delivered
    <2>4. ~(Locate \/ NoSuchPlugin \/ Respond \/ SendSnapshot \/ EndStream)
        BY <1>1 DEF Locate, NoSuchPlugin, Answer, Respond, SendJson, SendFile, ExecuteCgi,
            CgiWithoutFolder, Unknown, AwaitFrame, StartStream, TakeWithoutPlugin, TakeWithoutName,
            Take, RefuseCommand, Command, CloseConnection, At, SendSnapshot, EndStream
    <2> QED BY <2>2, <2>3, <2>4 DEF Next, Understand, Check
<1>2. CASE pc \in {"locate", "answer", "frame", "close"}
    <2>1. Admitted
        BY <1>2 DEF AuthorisedInv
    <2>2. /\ UNCHANGED <<conf, sent, taken, credentials>>
          /\ pc' \notin {"request", "header", "authorise"}
        <3>1. CASE Check
            BY <1>2, <3>1 DEF Check, Admit, Deny, Locate, NoSuchPlugin, Refuse, Answer
        <3>2. CASE Respond
            BY <1>2, <3>2 DEF Respond, SendJson, SendFile, ExecuteCgi, CgiWithoutFolder, Unknown,
                AwaitFrame, StartStream, TakeWithoutPlugin, TakeWithoutName, Take, RefuseCommand,
                Command, CloseConnection, Call, At, Answer
        <3>3. CASE SendSnapshot \/ EndStream \/ UNCHANGED vars
            BY <1>2, <3>3 DEF SendSnapshot, EndStream, Answer, vars
        <3>4. ~(Read \/ Understand)
            BY <1>2 DEF Read, Fill, TakeByte, GiveUp, Trickle, Reading, Understand, ParseRequest, Malformed,
                BadEscape, UseHeader, Refuse, Answer
        <3> QED BY <3>1, <3>2, <3>3, <3>4 DEF Next
    <2>3. Admitted'
        BY <2>1, <2>2 DEF Admitted
    <2>4. conf.credentials => Deserved
        BY <1>2, <2>1, GoodDeserves DEF Admitted, Understood
    <2>5. Deserved' = Deserved
        BY <2>2 DEF Deserved, GivenTo, FirstEnd, LastOf, FieldsBeginLines
    <2>6. ContentAuthorised'
        BY <2>2, <2>4, <2>5 DEF ContentAuthorised, Deserved
    <2> QED BY <2>2, <2>3, <2>6 DEF AuthorisedInv
<1>3. CASE pc \in {"end", "crashed"}
    <2>1. UNCHANGED vars
        BY <1>3 DEF Next, Read, Fill, TakeByte, GiveUp, Trickle, Reading, Understand, ParseRequest, Malformed,
            BadEscape, UseHeader, Refuse, Answer, Check, Admit, Deny, Locate, NoSuchPlugin,
            Respond, SendJson, SendFile, ExecuteCgi, CgiWithoutFolder, Unknown,
            AwaitFrame, StartStream, TakeWithoutPlugin, TakeWithoutName, Take, RefuseCommand,
            Command, CloseConnection, At, SendSnapshot, EndStream
    <2>2. /\ UNCHANGED <<conf, sent, taken, credentials, pc, calls, answers>>
        BY <2>1 DEF vars
    <2>3. Deserved' = Deserved
        BY <2>2 DEF Deserved, GivenTo, FirstEnd, LastOf, FieldsBeginLines
    <2>4. ContentAuthorised => ContentAuthorised'
        BY <2>2, <2>3 DEF ContentAuthorised, Deserved
    <2> QED BY <1>3, <2>2, <2>4 DEF AuthorisedInv
<1> QED BY <1>p, <1>1, <1>2, <1>3 DEF Places, Understood

\* With a password in the configuration, content goes and commands are carried out
\* only for a client that has given it, and has given no other after it.
THEOREM OnlyAuthorised == Spec => []ContentAuthorised
<1>1. Init => UnderstoodInv /\ AuthorisedInv
    <2> SUFFICES ASSUME Init PROVE UnderstoodInv /\ AuthorisedInv
        OBVIOUS
    <2>1. calls = {} /\ answers = <<>> /\ pc = "request"
        BY DEF Init
    <2>2. ~Delivered
        BY <2>1 DEF Delivered
    <2> QED BY <2>1, <2>2, UnderstoodInit DEF AuthorisedInv, ContentAuthorised, Delivered
<1>2. UnderstoodInv /\ AuthorisedInv /\ [Next]_vars => UnderstoodInv' /\ AuthorisedInv'
    BY UnderstoodStep, AuthorisedStep
<1>3. AuthorisedInv => ContentAuthorised
    BY DEF AuthorisedInv
<1> QED BY <1>1, <1>2, <1>3, PTL DEF Spec
=============================================================================
