-------------------------- MODULE MCHttpConnection --------------------------
(***************************************************************************)
(* A small instance of HttpConnection: one request of every type and with  *)
(* every flaw that client_thread knows, with every kind of header.         *)
(***************************************************************************)
EXTENDS HttpConnection, SequencesExt

Crlf == <<"CR", "LF">>

Lines == {
    <<"GET /?action=snapshot">>, <<"GET /?action=snapshot", "_1">>,
    <<"GET /?action=stream">>, <<"POST /stream">>,
    <<"GET /input", ".json">>, <<"GET /input", "_1", ".json">>,
    <<"GET /output", "_1", ".json">>, <<"GET /program.json">>,
    <<"GET /?action=take">>, <<"GET /?action=take", "&filename=", "pic_1.jpg">>,
    <<"GET /?action=take", "&filename=", "pic.jpg">>, <<"GET /?action=take", "%ZZ">>,
    <<"GET /?action=command">>, <<"GET /?action=command", "&id=">>,
    <<"GET /?action=command", "&id=", "&plugin=1">>,
    <<"GET /?action=command", "&dest=1", "&id=", "&plugin=1">>,
    <<"GET /?action=command", "&dest=2", "&id=">>,
    <<"GET /?action=command", "&id=", "&plugin=-1">>,
    <<"GET /?action=command", "&dest=1", "&id=", "&plugin=-1">>,
    <<"GET /input">>, <<"GET /output", ".html">>, <<"GET /input", ".cgi">>,
    <<"GET /">>, <<"GET /", "gone.html">>, <<"GET /", "main.c">>, <<"GET /", "README">>,
    <<"GET /", "run", ".cgi">>, <<"GET /", "gone", ".cgi">>, <<"PUT /">> }

\* An ordinary header, credentials of every kind, a line that is too long, and
\* fields that do not begin their line.
Good == <<"Authorization: Basic good">> \o Crlf
Bad  == <<"Authorization: Basic bad">> \o Crlf
Headers == {
    <<>>, <<"User-Agent: ">> \o Crlf, Good, Bad \o Good, Good \o Bad,
    <<"Cookie: ", "a", "b", "c", "d">> \o Crlf \o Good,
    <<"User-Agent: ">> \o Good, <<"Cookie: ">> \o Good }

MCRequests ==
    {l \o Crlf \o h \o Crlf : l \in Lines, h \in {<<>>, Good}}
    \cup {<<"GET /?action=snapshot">> \o Crlf \o h \o e : h \in Headers, e \in {<<>>, Crlf}}
    \cup {<<"GET /", "index.html", "x", "x", "x", "x", "LF", "LF">>, <<"GET /", "index.html">>}

\* As main.py starts it, with a password, locked down, and with more plugins.
Plain == [credentials |-> FALSE, nocommands |-> FALSE, www |-> TRUE,
          incnt |-> 1, out |-> <<"HTTP">>, cmd |-> {<<"out", 0>>}]
MCConfigs ==
    { Plain, [Plain EXCEPT !.credentials = TRUE],
      [Plain EXCEPT !.nocommands = TRUE, !.www = FALSE],
      [Plain EXCEPT !.credentials = TRUE, !.incnt = 2, !.out = <<"HTTP", "FILE">>,
                    !.cmd = {<<"in", 0>>, <<"in", 1>>, <<"out", 0>>, <<"out", 1>>}],
      [Plain EXCEPT !.incnt = 2, !.cmd = {<<"in", 0>>, <<"in", 1>>, <<"out", 0>>}],
      [Plain EXCEPT !.out = <<"HTTP", "FILE">>, !.cmd = {<<"out", 0>>, <<"out", 1>>}] }

MCDigits(w) == IF w \in {"_1", "pic_1.jpg"} THEN <<1>> ELSE <<>>
MCPluginIds(w) ==
    CASE w = "&plugin=1" -> <<1>> [] w = "&plugin=-1" -> <<-1>> [] OTHER -> <<>>

MCFiles == {<<"index.html">>, <<"output", ".html">>, <<"run">>}
MCDotted(f) == Last(f) \in {"index.html", "gone.html", "main.c", ".html"}
MCPage(f) == Last(f) \in {"index.html", "gone.html", ".html"}
=============================================================================
