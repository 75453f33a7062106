--------------------------- MODULE HttpConnection ---------------------------
(***************************************************************************)
(* One connection of output_http.so: client_thread reads the request line  *)
(* and the header through its own buffer, with a timeout, decides what is  *)
(* asked for and answers.                                                  *)
(*                                                                         *)
(* What a client sends is a sequence of words.  A word is a stretch of     *)
(* text that one comparison of the code looks for, or one that none of     *)
(* them looks for; "CR" and "LF" are single characters, any other word is  *)
(* longer than two.  Chunks of the network end between words.              *)
(***************************************************************************)
EXTENDS Integers, Sequences, FiniteSets

CONSTANTS
    Requests,       \* what a client may send: sequences of words
    Configs,        \* how the server may have been started
    Digits(_),      \* the plugin numbers that follow the underscores of a word
    PluginIds(_),   \* the numbers that follow "plugin=" in a word, with their sign
    Files,          \* what the www folder holds: names
    IO_BUFFER,      \* words the buffer of a connection holds
    LineMax,        \* words a line buffer holds, BUFFER_SIZE - 1
    Page(_),        \* the names that are of a served type of file
    Dotted(_)       \* the names that contain a full stop

ASSUME BufferAssumption == IO_BUFFER \in Nat \ {0} /\ LineMax \in Nat \ {0}
ASSUME RequestsAssumption == Requests \subseteq Seq(STRING)

\* atoi of one character: a digit, and 0 for any other.
ASSUME DigitsAssumption == \A s \in Requests : \A i \in DOMAIN s : Digits(s[i]) \in Seq(0 .. 9)

\* strtol of digits and minus signs.
ASSUME PluginIdsAssumption == \A s \in Requests : \A i \in DOMAIN s : PluginIds(s[i]) \in Seq(Int)

\* A configuration: options of output_http.so, the number of input plugins, the
\* output plugins in their order and the plugins that export a cmd function.
Sides == {"in", "out"}
Outputs == {"HTTP", "FILE"}
ASSUME ConfigAssumption ==
    Configs \subseteq [credentials : BOOLEAN, nocommands : BOOLEAN, www : BOOLEAN,
                       incnt : Nat \ {0}, out : Seq(Outputs),
                       cmd : SUBSET (Sides \X Nat)]

VARIABLES
    conf,       \* the configuration
    sent,       \* what the client sends
    extra,      \* "none": it then falls silent; else it sends header lines for ever,
                \* an even or an odd number of them so far
    reads,      \* the client takes what is written to it
    arrived,    \* how much of it read() has returned
    taken,      \* how much of it _read has given to _readline
    buffer,     \* iobuf.buffer
    level,      \* iobuf.level
    line,       \* the line buffer
    pc,         \* where the thread stands
    kind,       \* req.type
    number,     \* input_number
    param,      \* req.parameter: the words of the request line
    credentials,\* req.credentials: "none", "good" or "bad"
    answers,    \* what was written to the client, oldest first
    calls,      \* cmd functions called
    closed      \* how often the descriptor was closed

client == <<conf, sent, extra, reads>>
readerVars == <<arrived, taken, buffer, level>>
requestVars == <<kind, number, param, credentials>>
answerVars == <<answers, calls, closed>>
vars == <<client, readerVars, line, pc, requestVars, answerVars>>

Has(l, w) == \E i \in DOMAIN l : l[i] = w
Least(S) == CHOOSE x \in S : \A y \in S : x <= y

Go(from, to) == pc = from /\ pc' = to

\* An answer, and the thread goes on to `to`.
Answer(from, to, a) ==
    /\ Go(from, to)
    /\ answers' = Append(answers, a)

\* An answer, the descriptor is closed and the thread returns.
Refuse(from, a) ==
    /\ Answer(from, "end", a)
    /\ closed' = closed + 1

----------------------------------------------------------------------------
(* _read and _readline: one word at a time *)

Reading == pc \in {"request", "header"}
Complete == line # <<>> /\ (line[Len(line)] = "LF" \/ Len(line) = LineMax)

\* Mutant: what was read is left at the start of the buffer.
Fill_Unaligned ==
    /\ Reading /\ ~Complete /\ level = 0
    /\ \E n \in 1 .. IO_BUFFER :
          /\ arrived + n <= Len(sent)
          /\ buffer' = [i \in 1 .. IO_BUFFER |-> IF i <= n THEN sent[arrived + i] ELSE "NUL"]
          /\ level' = n /\ arrived' = arrived + n
    /\ UNCHANGED <<client, taken, line, pc, requestVars, answerVars>>

\* select and read return; what came is moved to the end of the buffer.
Fill ==
    /\ Reading /\ ~Complete /\ level = 0
    /\ \E n \in 1 .. IO_BUFFER :
          /\ arrived + n <= Len(sent)
          /\ buffer' = [i \in 1 .. IO_BUFFER |->
                           IF i > IO_BUFFER - n THEN sent[arrived + i - (IO_BUFFER - n)]
                           ELSE IF i <= n THEN sent[arrived + i] ELSE "NUL"]
          /\ level' = n /\ arrived' = arrived + n
    /\ UNCHANGED <<client, taken, line, pc, requestVars, answerVars>>

TakeByte ==
    /\ Reading /\ ~Complete /\ level > 0
    /\ line' = Append(line, buffer[IO_BUFFER - level + 1])
    /\ level' = level - 1 /\ taken' = taken + 1
    /\ UNCHANGED <<client, arrived, buffer, pc, requestVars, answerVars>>

\* Mutant: a read that times out is tried again.
GiveUp_Retries ==
    /\ Reading /\ ~Complete /\ level = 0
    /\ UNCHANGED vars

\* Nothing came for five seconds, or the client has closed: -1 and no answer.
GiveUp ==
    /\ Reading /\ ~Complete /\ level = 0
    /\ pc' = "end" /\ closed' = closed + 1
    /\ UNCHANGED <<client, readerVars, line, requestVars, answers, calls>>

\* One more line of a header that has no end, longer than an empty one and with
\* no credentials: the loop reads it, in time, and is back where it was.
Trickle ==
    /\ pc = "header" /\ line = <<>> /\ level = 0 /\ arrived = Len(sent)
    /\ extra # "none" /\ extra' = IF extra = "even" THEN "odd" ELSE "even"
    /\ UNCHANGED <<conf, sent, reads, readerVars, line, pc, requestVars, answerVars>>

----------------------------------------------------------------------------
(* The request line *)

\* A line that holds one of these holds "GET /".
AnyGet == {"GET /", "GET /input", "GET /output"}

\* The types in the order in which the code looks for them.  Of every set of
\* words one must occur in the line.
Patterns == <<
    [kind |-> "snapshot",     words |-> {{"GET /?action=snapshot"}}],
    [kind |-> "stream",       words |-> {{"POST /stream"}}],
    [kind |-> "stream",       words |-> {{"GET /?action=stream"}}],
    [kind |-> "take",         words |-> {{"GET /?action=take"}}],
    [kind |-> "input_json",   words |-> {{"GET /input"}, {".json"}}],
    [kind |-> "output_json",  words |-> {{"GET /output"}, {".json"}}],
    [kind |-> "program_json", words |-> {{"GET /program.json"}}],
    [kind |-> "command",      words |-> {{"GET /?action=command"}}],
    [kind |-> "cgi",          words |-> {AnyGet, {".cgi"}}],
    [kind |-> "file",         words |-> {AnyGet}] >>

Asks(l) == {i \in DOMAIN Patterns : \A alt \in Patterns[i].words : \E w \in alt : Has(l, w)}
TypeOf(l) == Patterns[Least(Asks(l))].kind

Suffixed(k) == k \in {"snapshot", "stream", "take", "input_json", "output_json"}

\* The digit after the first underscore of the line, 0 without one.
Suffix(l) ==
    LET at == {i \in DOMAIN l : Digits(l[i]) # <<>>}
    IN  IF at = {} THEN 0 ELSE Digits(l[Least(at)])[1]

ParseRequest ==
    /\ Complete /\ Asks(line) # {}
    /\ TypeOf(line) \in {"take", "command"} => ~Has(line, "%ZZ")
    /\ Go("request", "header")
    /\ kind' = TypeOf(line)
    /\ number' = IF Suffixed(kind') THEN Suffix(line) ELSE 0
    /\ param' = line /\ line' = <<>>
    /\ UNCHANGED <<client, readerVars, credentials, answerVars>>

\* Neither "GET /" nor "POST /stream": 400.
Malformed ==
    /\ pc = "request" /\ Complete /\ Asks(line) = {}
    /\ Refuse("request", "400")
    /\ UNCHANGED <<client, readerVars, line, requestVars, calls>>

\* A parameter that does not unescape: 500.
BadEscape ==
    /\ pc = "request" /\ Complete /\ Asks(line) # {}
    /\ TypeOf(line) \in {"take", "command"} /\ Has(line, "%ZZ")
    /\ Refuse("request", "500")
    /\ UNCHANGED <<client, readerVars, line, requestVars, calls>>

----------------------------------------------------------------------------
(* The header, the password and the plugin number *)

\* cnt > 2 fails: no word longer than a character, and at most two of those.
Short(l) == Len(l) <= 2 /\ \A i \in DOMAIN l : l[i] \in {"CR", "LF"}

\* The field is found anywhere in the line, what follows it is then taken from
\* where it would end had the line begun with it.
Passwords == {"Authorization: Basic good", "Authorization: Basic bad"}
Credentials(l) ==
    IF Has(l, "User-Agent: ") \/ \A w \in Passwords : ~Has(l, w) THEN credentials
    ELSE IF l[1] = "Authorization: Basic good" THEN "good" ELSE "bad"

\* Mutant: the first line of credentials wins.
UseHeader_FirstWins ==
    /\ Complete
    /\ Go("header", IF Short(line) THEN "authorise" ELSE "header")
    /\ credentials' = IF credentials = "none" THEN Credentials(line) ELSE credentials
    /\ line' = <<>>
    /\ UNCHANGED <<client, readerVars, kind, number, param, answerVars>>

UseHeader ==
    /\ Complete
    /\ Go("header", IF Short(line) THEN "authorise" ELSE "header")
    /\ credentials' = Credentials(line)
    /\ line' = <<>>
    /\ UNCHANGED <<client, readerVars, kind, number, param, answerVars>>

\* Mutant: a header without credentials is let in.
Admitted_WithoutHeader == conf.credentials => credentials # "bad"

Admitted == conf.credentials => credentials = "good"

Admit ==
    /\ Admitted
    /\ Go("authorise", "locate")
    /\ UNCHANGED <<client, readerVars, line, requestVars, answerVars>>

\* Mutant: the descriptor is left open.
Deny_LeavesOpen ==
    /\ ~Admitted
    /\ Answer("authorise", "end", "401")
    /\ UNCHANGED <<client, readerVars, line, requestVars, calls, closed>>

Deny ==
    /\ ~Admitted
    /\ Refuse("authorise", "401")
    /\ UNCHANGED <<client, readerVars, line, requestVars, calls>>

Limit == IF kind = "output_json" THEN Len(conf.out) ELSE conf.incnt

Locate ==
    /\ Suffixed(kind) => number < Limit
    /\ Go("locate", "answer")
    /\ UNCHANGED <<client, readerVars, line, requestVars, answerVars>>

\* Mutant: the request keeps its type after the 404.
NoSuchPlugin_KeepsType ==
    /\ Suffixed(kind) /\ ~(number < Limit)
    /\ Answer("locate", "answer", "404")
    /\ UNCHANGED <<client, readerVars, line, requestVars, calls, closed>>

NoSuchPlugin ==
    /\ Suffixed(kind) /\ ~(number < Limit)
    /\ Answer("locate", "answer", "404")
    /\ kind' = "unknown"
    /\ UNCHANGED <<client, readerVars, line, number, param, credentials, calls, closed>>

----------------------------------------------------------------------------
(* Answers without a plugin's help *)

At(k) == pc = "answer" /\ kind \in k

SendJson ==
    /\ At({"input_json", "output_json", "program_json"})
    /\ Answer("answer", "close", "json")
    /\ UNCHANGED <<client, readerVars, line, requestVars, calls, closed>>

\* What follows "GET /": what the word itself goes on with and the next word;
\* index.html if there is nothing.
FileName ==
    LET i == Least({j \in DOMAIN param : param[j] \in AnyGet})
        rest == CASE param[i] = "GET /input" -> <<"input">>
                  [] param[i] = "GET /output" -> <<"output">>
                  [] OTHER -> <<>>
        next == IF i < Len(param) /\ param[i + 1] \notin {"CR", "LF"} THEN <<param[i + 1]>> ELSE <<>>
    IN  IF rest \o next = <<>> THEN <<"index.html">> ELSE rest \o next

FileAnswer ==
    IF ~conf.www THEN "501"
    ELSE IF ~Dotted(FileName) THEN "400"
    ELSE IF ~Page(FileName) \/ FileName \notin Files THEN "404" ELSE "file"

SendFile ==
    /\ At({"file"})
    /\ Answer("answer", "close", FileAnswer)
    /\ UNCHANGED <<client, readerVars, line, requestVars, calls, closed>>

\* popen may fail: 403.  Whether there is a www folder is not tested here.
ExecuteCgi ==
    /\ At({"cgi"}) /\ conf.www
    /\ \E a \in IF FileName \in Files THEN {"403", "cgi"} ELSE {"404"} :
          Answer("answer", "close", a)
    /\ UNCHANGED <<client, readerVars, line, requestVars, calls, closed>>

\* strncat from a null pointer.
CgiWithoutFolder ==
    /\ At({"cgi"}) /\ ~conf.www
    /\ Go("answer", "crashed")
    /\ UNCHANGED <<client, readerVars, line, requestVars, answerVars>>

Unknown ==
    /\ At({"unknown"})
    /\ Go("answer", "close")
    /\ UNCHANGED <<client, readerVars, line, requestVars, answerVars>>

----------------------------------------------------------------------------
(* Frames: send_snapshot and send_stream wait in "frame" *)

AwaitFrame ==
    /\ At({"snapshot"})
    /\ Go("answer", "frame")
    /\ UNCHANGED <<client, readerVars, line, requestVars, answerVars>>

StartStream ==
    /\ At({"stream"})
    /\ Answer("answer", "frame", "stream")
    /\ UNCHANGED <<client, readerVars, line, requestVars, calls, closed>>

\* A frame arrives, or there is no memory for it.
SendSnapshot ==
    /\ kind # "stream"
    /\ \E a \in {"jpeg", "500"} : Answer("frame", "close", a)
    /\ UNCHANGED <<client, readerVars, line, requestVars, calls, closed>>

\* The client is gone or the streamer stops; or there is no memory.
EndStream ==
    /\ kind = "stream"
    /\ \/ Go("frame", "close") /\ UNCHANGED answers
       \/ Answer("frame", "close", "500")
    /\ UNCHANGED <<client, readerVars, line, requestVars, calls, closed>>

----------------------------------------------------------------------------
(* Calls to plugins: take and command *)

\* cmd of plugin n is called.  A pointer that dlsym did not find is null; what
\* stands below the table, where n is negative, may be taken for any function.
Call(side, n) ==
    /\ calls' = calls \cup {<<side, n>>}
    /\ <<side, n>> \notin conf.cmd =>
          \/ pc' = "crashed" /\ UNCHANGED answers
          \/ n < 0 /\ Answer("answer", "close", "done")

FilePlugins == {i \in DOMAIN conf.out : conf.out[i] = "FILE"}

TakeWithoutPlugin ==
    /\ At({"take"}) /\ FilePlugins = {}
    /\ Answer("answer", "close", "404")
    /\ UNCHANGED <<client, readerVars, line, requestVars, calls, closed>>

\* 404, and the frame all the same: ret is still 0.
TakeWithoutName ==
    /\ At({"take"}) /\ FilePlugins # {} /\ ~Has(param, "&filename=")
    /\ Answer("answer", "frame", "404")
    /\ UNCHANGED <<client, readerVars, line, requestVars, calls, closed>>

\* The frame is sent when the file was written.
Take ==
    /\ At({"take"}) /\ FilePlugins # {} /\ Has(param, "&filename=")
    /\ Call("out", Least(FilePlugins) - 1)
    /\ <<"out", Least(FilePlugins) - 1>> \in conf.cmd =>
          \/ Go("answer", "frame") /\ UNCHANGED answers
          \/ Answer("answer", "close", "404")
    /\ UNCHANGED <<client, readerVars, line, requestVars, closed>>

\* The number after the first "plugin=" of the line, 0 without one.
PluginNo ==
    LET at == {i \in DOMAIN param : PluginIds(param[i]) # <<>>}
    IN  IF at = {} THEN 0 ELSE PluginIds(param[Least(at)])[1]

\* Whom a command is for: dest=0 is the default, 2 the program, 3 nobody.
CommandSide ==
    IF Has(param, "&dest=1") THEN "out"
    ELSE IF Has(param, "&dest=2") \/ Has(param, "&dest=3") THEN "none" ELSE "in"

PluginCount(side) == IF side = "in" THEN conf.incnt ELSE Len(conf.out)

RefuseCommand ==
    /\ At({"command"})
    /\ \/ conf.nocommands /\ Answer("answer", "close", "501")
       \/ ~conf.nocommands /\ ~Has(param, "&id=") /\ Answer("answer", "close", "400")
       \/ ~conf.nocommands /\ Has(param, "&id=") /\ Answer("answer", "close", "500")
    /\ UNCHANGED <<client, readerVars, line, requestVars, calls, closed>>

\* Mutant: the bound is tested against the wrong kind of plugin.
Command_WrongCount ==
    /\ At({"command"}) /\ ~conf.nocommands /\ Has(param, "&id=")
    /\ IF CommandSide \in Sides /\ PluginNo < conf.incnt
       THEN /\ Call(CommandSide, PluginNo)
            /\ <<CommandSide, PluginNo>> \in conf.cmd => Answer("answer", "close", "done")
       ELSE Answer("answer", "close", "done") /\ UNCHANGED calls
    /\ UNCHANGED <<client, readerVars, line, requestVars, closed>>

\* A command for a plugin beyond the last is answered like any other.  A number
\* below the first is not tested for.
Command ==
    /\ At({"command"}) /\ ~conf.nocommands /\ Has(param, "&id=")
    /\ IF CommandSide \in Sides /\ PluginNo < PluginCount(CommandSide)
       THEN /\ Call(CommandSide, PluginNo)
            /\ <<CommandSide, PluginNo>> \in conf.cmd => Answer("answer", "close", "done")
       ELSE Answer("answer", "close", "done") /\ UNCHANGED calls
    /\ UNCHANGED <<client, readerVars, line, requestVars, closed>>

----------------------------------------------------------------------------

CloseConnection ==
    /\ Go("close", "end")
    /\ closed' = closed + 1
    /\ UNCHANGED <<client, readerVars, line, requestVars, answers, calls>>

Init ==
    /\ conf \in Configs /\ sent \in Requests
    /\ extra \in {"none", "even"} /\ reads \in BOOLEAN
    /\ arrived = 0 /\ taken = 0
    /\ buffer = [i \in 1 .. IO_BUFFER |-> "NUL"] /\ level = 0
    /\ line = <<>> /\ pc = "request"
    /\ kind = "unknown" /\ number = 0 /\ param = <<>> /\ credentials = "none"
    /\ answers = <<>> /\ calls = {} /\ closed = 0

Read == Fill \/ TakeByte \/ GiveUp \/ Trickle
Understand == ParseRequest \/ Malformed \/ BadEscape \/ UseHeader
Check == Admit \/ Deny \/ Locate \/ NoSuchPlugin
Respond ==
    \/ SendJson \/ SendFile \/ ExecuteCgi \/ CgiWithoutFolder \/ Unknown
    \/ AwaitFrame \/ StartStream \/ TakeWithoutPlugin \/ TakeWithoutName \/ Take
    \/ RefuseCommand \/ Command \/ CloseConnection

Next == Read \/ Understand \/ Check \/ Respond \/ SendSnapshot \/ EndStream

Spec == Init /\ [][Next]_vars

\* The thread runs, a read ends after five seconds at the latest and frames keep
\* coming.  A write has no such limit: to a client that does not read, none need
\* ever return.  A stream need not end.
Fairness ==
    WF_vars(/\ Read \/ Understand \/ Check \/ Respond \/ SendSnapshot
            /\ reads \/ answers' = answers)

FairSpec == Spec /\ Fairness

----------------------------------------------------------------------------

Content == {"jpeg", "stream", "json", "file", "cgi", "done"}
Errors == {"400", "401", "403", "404", "500", "501"}
Understood == {"authorise", "locate", "answer", "frame", "close"}

\* Types; the descriptor is closed exactly when the thread has returned, by
\* whichever of the ways out of client_thread.
TypeOK ==
    /\ conf \in Configs /\ sent \in Requests
    /\ extra \in {"none", "even", "odd"} /\ reads \in BOOLEAN
    /\ arrived \in 0 .. Len(sent) /\ taken \in 0 .. Len(sent)
    /\ level \in 0 .. IO_BUFFER /\ DOMAIN buffer = 1 .. IO_BUFFER
    /\ Len(line) <= LineMax
    /\ pc \in Understood \cup {"request", "header", "end", "crashed"}
    /\ kind \in {Patterns[i].kind : i \in DOMAIN Patterns} \cup {"unknown"}
    /\ number \in Nat /\ credentials \in {"none", "good", "bad"}
    /\ \A i \in DOMAIN answers : answers[i] \in Content \cup Errors
    /\ calls \subseteq Sides \X Int
    /\ closed = IF pc = "end" THEN 1 ELSE 0

\* However the request is cut into chunks, no word is lost, doubled or moved
\* between the socket and the line: the tail of the buffer holds what has arrived
\* and was not taken, and the line ends with the word that was taken last.
NothingLost ==
    /\ level = arrived - taken
    /\ \A i \in 1 .. level : buffer[IO_BUFFER - level + i] = sent[taken + i]
    /\ Len(line) <= taken
    /\ \A i \in 1 .. Len(line) : line[i] = sent[taken - Len(line) + i]

\* What a request means, read off the whole of it: its first line, and the last
\* credentials before the place where the header was found to end.
FirstEnd == Least({i \in DOMAIN sent : sent[i] = "LF" \/ i = LineMax})
GivenTo(n) == {i \in FirstEnd + 1 .. n : sent[i] \in Passwords}
LastOf(S) ==
    IF S = {} THEN "none"
    ELSE LET i == CHOOSE j \in S : \A k \in S : k <= j
         IN  IF sent[i] = "Authorization: Basic good" THEN "good" ELSE "bad"

\* A header as HTTP has it: a field begins its line.
FieldsBeginLines ==
    \A i \in 2 .. Len(sent) :
        sent[i] \in Passwords \cup {"User-Agent: "} => sent[i - 1] = "LF"

\* The thread understands a request the same way whatever the chunks, the buffer
\* sizes, the lengths of its lines and the order of its header lines.
HeaderUnderstood ==
    pc \in Understood => /\ param = SubSeq(sent, 1, FirstEnd)
                         /\ FieldsBeginLines => credentials = LastOf(GivenTo(taken))

\* httpd.c:1290: with -c nothing is delivered and no plugin is called unless the
\* client has given the credentials of the configuration, and has given no other
\* after them.
ContentAuthorised ==
    /\ conf.credentials
    /\ calls # {} \/ \E i \in DOMAIN answers : answers[i] \in Content
    => /\ \E i \in GivenTo(taken) : sent[i] = "Authorization: Basic good"
       /\ FieldsBeginLines => LastOf(GivenTo(taken)) = "good"

\* An error is the last that a client is told, with the one exception of a take
\* without a file name, and nobody is told two things that both seem complete.
ErrorIsLast ==
    \A i \in DOMAIN answers :
        i < Len(answers) => \/ answers[i] = "stream" /\ answers[i + 1] = "500"
                            \/ kind = "take" /\ ~Has(param, "&filename=")

\* A number that is too large never reaches a plugin or a frame buffer, whatever
\* the kind of request and plugin; one that is too small does so only where a
\* command names it.
PluginsCounted ==
    /\ pc = "frame" => number \in 0 .. conf.incnt - 1
    /\ \A c \in calls :
          /\ c[2] < PluginCount(c[1])
          /\ c[2] < 0 => kind = "command" /\ c = <<CommandSide, PluginNo>>

\* A connection that lasts for ever has one of three reasons, and stands where it
\* belongs: it has become a stream; the client sends one header line after the
\* other; or a write waits for a client that does not read.
Writes == pc \in {"authorise", "locate", "answer", "frame"} \/ (pc = "request" /\ Complete)
ConnectionEnds ==
    <>[](\/ pc \in {"end", "crashed"}
         \/ pc = "frame" /\ kind = "stream"
         \/ pc = "header" /\ extra # "none"
         \/ Writes /\ ~reads)
=============================================================================
