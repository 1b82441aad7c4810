--------------------------- MODULE HttpExchange ---------------------------
(***************************************************************************)
(* A client asks a worker of the proxy, doit of proxy.c, which asks a      *)
(* server, doit of tiny.c, and relays its answer; both read with the Rio   *)
(* package.  The cache is in module ProxyCache.                            *)
(*                                                                         *)
(* A byte here is a word of a request or an answer, and the first says     *)
(* what a line is: "GET", "Host", "Connection" for the headers that        *)
(* check_header drops, "\r" for the empty line, a word of NoColon for a    *)
(* line without a colon.  "NUL" is a byte 0.                               *)
(***************************************************************************)
EXTENDS Rio

CONSTANTS Requests,          \* what clients send: [method, uri, lines, closes], and
                             \* what earlier calls left on the stack: stack
          UriText,           \* the characters of the uris in requests
          Means,             \* what well-formed uris mean: [host, port, path]
          Servers,           \* pairs <<host, port>> that there is a server at
          Files,             \* files of the server: [mode, bytes]
          MAX_OBJECT_SIZE,
          StackSize          \* room for header_other

\* A client sends lines.
ASSUME RequestsAssumption ==
    /\ Requests \subseteq [method : STRING, uri : STRING, lines : Seq(Seq(STRING)), closes : BOOLEAN, stack : Seq(STRING)]
    /\ \A r \in Requests : \A i \in DOMAIN r.lines : IsLine(r.lines[i])

\* How a uri may be written that means m: without its scheme, and without
\* port 80.  A path with the sign of either needs it.
writes(text, m) ==
    \E scheme \in {<<"http://">>, <<>>}, port \in {<<":">> \o m.port, <<>>} :
        /\ text = scheme \o m.host \o port \o m.path
        /\ scheme = <<>> => ~Contains(m.path, "http://")
        /\ port = <<>> => m.port = <<"80">> /\ ~Contains(m.path, ":")
has(text, signs) == \E c \in signs : Contains(text, c)

ASSUME MeansAssumption ==
    \A u \in DOMAIN Means : LET m == Means[u] IN
      /\ u \in STRING \ {NL}
      /\ m \in [host : Seq(STRING), port : Seq(STRING), path : Seq(STRING)]
      /\ m.host # <<>> /\ m.port # <<>> /\ m.path # <<>> /\ Head(m.path) = "/"
      /\ ~has(m.host, {"http://", ":", "/", NL}) /\ ~has(m.port, {"http://", "/"}) /\ ~has(m.path, {NL})
      /\ writes(UriText[u], m)

ASSUME FilesAssumption == \A name \in DOMAIN Files : Files[name] \in [mode : STRING, bytes : Seq(STRING)]
ASSUME SizeAssumption == MAX_OBJECT_SIZE \in Nat

VARIABLES stream,            \* of the connections: client to proxy, to server, and back
          rio,               \* the rio_t of those who read
          proxy,             \* the worker: pc and locals
          tiny,              \* the server
          given, cached      \* the request; what cache_URL is called with

vars == <<stream, rio, proxy, tiny, given, cached>>

Empty == <<"\r", NL>>
NoColon == {"text", "\r", NL}
headers == {"Connection", "Proxy-Connection", "User-Agent"}
constant_headers == <<"User-Agent", NL, "Connection", NL, "Proxy-Connection", NL>>
none == <<"(none)">>

-----------------------------------------------------------------------------
\* parse_uri of the proxy: what sscanf does not match keeps its junk.

before(text, c) == LET k == SelectInSeq(text, LAMBDA x : x = c) IN IF k = 0 THEN text ELSE SubSeq(text, 1, k - 1)
after(text, c)  == LET k == SelectInSeq(text, LAMBDA x : x = c) IN IF k = 0 THEN <<>> ELSE from(text, k + 1)
rest(text, c)   == from(text, Len(before(text, c)) + 1)
orJunk(text, matched, junk) == IF matched /\ text # <<>> THEN text ELSE junk

parse_uri(asked, junk) ==
    LET text == IF Contains(asked, "http://") THEN after(asked, "http://") ELSE asked
        first == before(text, ":")
        port  == before(after(text, ":"), "/")
        host  == before(text, "/")
    IN  IF Contains(text, ":")
        THEN [host |-> orJunk(first, TRUE, junk), port |-> orJunk(port, first # <<>>, junk),
              path |-> orJunk(rest(after(text, ":"), "/"), first # <<>> /\ port # <<>>, junk)]
        ELSE [host |-> orJunk(host, TRUE, junk), port |-> <<"80">>, path |-> orJunk(rest(text, "/"), host # <<>>, junk)]

\* strncpy(s, line, strlen(line)) does not end s.
strncpy(s, line) == line \o from(s, Len(line) + 1)

\* What parse_header makes of the parts.
withoutEnd(p) == <<"GET">> \o p.path \o <<NL>> \o p.header_host \o constant_headers \o p.header_other   \* mutant
http_header(p) == <<"GET">> \o p.path \o <<NL>> \o p.header_host \o constant_headers \o p.header_other \o Empty

-----------------------------------------------------------------------------
\* The steps of reading and writing that both programs share.

\* Only who waits for a line reads.
Waiting == { e \in {"c2p", "p2s", "s2p"} :
               CASE e = "c2p" -> proxy.pc \in {"request", "headers"}
                 [] e = "s2p" -> proxy.pc = "relay"
                 [] e = "p2s" -> tiny.pc \in {"request", "headers"} }

Read(e) ==
    /\ e \in Waiting
    /\ \E done \in reads(stream[e], rio[e]) : /\ stream' = [stream EXCEPT ![e] = done.stream]
                                              /\ rio' = [rio EXCEPT ![e] = done.rp]
    /\ UNCHANGED <<proxy, tiny, given, cached>>

HasLine(e) == returns(stream[e], rio[e])
line(e) == rio[e].line
NextLine(e) == rio' = [rio EXCEPT ![e] = again(@)]

\* rio_writen: a write takes any part of what is left.
written(out, e) == { [out |-> from(out, k + 1), stream |-> [stream EXCEPT ![e].bytes = @ \o SubSeq(out, 1, k)]] : k \in 1 .. Len(out) }

-----------------------------------------------------------------------------
\* doit of proxy.c

Die(how) == proxy' = [proxy EXCEPT !.pc = how] /\ UNCHANGED <<stream, rio, cached>>

\* With no bytes read, method is junk, which is not GET.
Request ==
    /\ proxy.pc = "request" /\ HasLine("c2p")
    /\ IF line("c2p") = <<>> \/ line("c2p")[1] # "GET"
       THEN proxy' = [proxy EXCEPT !.pc = "close"]
       ELSE LET parsed == parse_uri(UriText[line("c2p")[2]], proxy.buf)
            IN  proxy' = [proxy EXCEPT !.pc = "headers", !.host = parsed.host, !.port = parsed.port, !.path = parsed.path]
    /\ NextLine("c2p")
    /\ UNCHANGED <<stream, tiny, given, cached>>

\* Whether the proxy has a header of its own instead.
check_header(buf) == buf[1] \in headers

\* A turn of parse_header.  At the end of the file buf is what it was.
Header ==
    /\ proxy.pc = "headers" /\ HasLine("c2p")
    /\ LET buf == IF line("c2p") = <<>> THEN proxy.buf ELSE line("c2p")
           other == proxy.header_other \o buf
       IN  IF buf = Empty
           THEN /\ proxy' = [proxy EXCEPT !.pc = "connect", !.buf = buf,
                               !.header_host = IF @ = <<>> THEN <<"Host">> \o proxy.host \o <<NL>> ELSE @]
                /\ NextLine("c2p") /\ UNCHANGED <<stream, cached>>
           ELSE IF buf = <<>> \/ buf[1] \in NoColon THEN Die("null dereference")
           ELSE IF buf[1] # "Host" /\ ~check_header(buf) /\ Len(other) > StackSize THEN Die("overflow")
           ELSE /\ proxy' = [proxy EXCEPT !.buf = buf,
                               !.header_host  = IF buf[1] = "Host" THEN strncpy(@, buf) ELSE @,
                               !.header_other = IF buf[1] = "Host" \/ check_header(buf) THEN @ ELSE other]
                /\ NextLine("c2p") /\ UNCHANGED <<stream, cached>>
    /\ UNCHANGED <<tiny, given>>

\* open_clientfd tries the addresses of the host one after the other and
\* closes what does not connect: which one answers is not told apart, but
\* each may fail, and only a server answers.
open_clientfd(host, port) == {"failed"} \union (IF <<host, port>> \in Servers THEN {"connected"} ELSE {})

\* Open_clientfd ends the process when no address can be connected to.
Connect ==
    /\ proxy.pc = "connect"
    /\ \/ "failed" \in open_clientfd(proxy.host, proxy.port) /\ Die("no connection")
       \/ /\ "connected" \in open_clientfd(proxy.host, proxy.port)
          /\ proxy' = [proxy EXCEPT !.pc = "send", !.out = http_header(proxy)]
          /\ UNCHANGED <<stream, rio, cached>>
    /\ UNCHANGED <<tiny, given>>

\* Rio_writen takes as long as who is written to likes, and ends the
\* process when it is gone.
Send ==
    /\ proxy.pc = "send"
    /\ \/ Die("server gone")
       \/ \E done \in written(proxy.out, "p2s") :
            /\ stream' = done.stream
            /\ proxy' = [proxy EXCEPT !.out = done.out, !.pc = IF done.out = <<>> THEN "relay" ELSE @]
            /\ UNCHANGED <<rio, cached>>
    /\ UNCHANGED <<tiny, given>>

\* strncat of strlen(buf) bytes: a byte 0 ends the line.
appended(obj, text) == obj \o before(text, "NUL")

Relay ==
    /\ proxy.pc = "relay" /\ HasLine("s2p")
    /\ LET buf == line("s2p")
           size == proxy.obj_size + Len(buf)
       IN  IF buf # <<>>
           THEN /\ proxy' = [proxy EXCEPT !.pc = "write", !.out = buf, !.obj_size = size,
                               !.obj_buf = IF size < MAX_OBJECT_SIZE THEN appended(@, buf) ELSE @]
                /\ NextLine("s2p") /\ UNCHANGED cached
           ELSE /\ proxy' = [proxy EXCEPT !.pc = "close"]
                /\ cached' = IF proxy.obj_size < MAX_OBJECT_SIZE
                             THEN [object |-> proxy.obj_buf, size |-> proxy.obj_size] ELSE cached
                /\ UNCHANGED rio
    /\ UNCHANGED <<stream, tiny, given>>

Write ==
    /\ proxy.pc = "write"
    /\ \/ Die("broken pipe")
       \/ \E done \in written(proxy.out, "p2c") :
            /\ stream' = done.stream
            /\ proxy' = [proxy EXCEPT !.out = done.out, !.pc = IF done.out = <<>> THEN "relay" ELSE @]
            /\ UNCHANGED <<rio, cached>>
    /\ UNCHANGED <<tiny, given>>

Close == /\ proxy.pc = "close"
         /\ proxy' = [proxy EXCEPT !.pc = "done"] /\ stream' = [stream EXCEPT !["p2c"].eof = TRUE]
         /\ UNCHANGED <<rio, tiny, given, cached>>

-----------------------------------------------------------------------------
\* doit of tiny.c

\* The answer is a sequence of writes; that of a program to run is written
\* by the child the server waits for.
clienterror(errnum) == << <<"HTTP", errnum, NL>>, <<"type", NL>>, <<"length", NL>> \o Empty, <<errnum, NL>> >>
serve_static(file) == << <<"HTTP", "200", NL, "length", NL>> \o Empty, file.bytes >>
serve_dynamic(file) == << <<"HTTP", "200", NL>>, <<"Server", NL>>, file.bytes >>

\* parse_uri of tiny: whether the file is a program, and its name.
dynamic(path) == Contains(path, "cgi-bin")
filename(path) == IF dynamic(path) THEN before(path, "?")
                  ELSE IF Last(path) = "/" THEN Append(path, "home.html") ELSE path

answer(path) ==
    LET name == filename(path)
        file == Files[name]
    IN  CASE name \notin DOMAIN Files -> clienterror("404")
          [] name \in DOMAIN Files /\ file.mode # (IF dynamic(path) THEN "x" ELSE "r") -> clienterror("403")
          [] OTHER -> IF dynamic(path) THEN serve_dynamic(file) ELSE serve_static(file)

\* What sscanf finds second: the version when there is no uri.
uri(l) == IF Len(l) > 2 THEN SubSeq(l, 2, Len(l) - 1) ELSE <<"HTTP/1.0">>

ServerRequest ==
    /\ tiny.pc = "request" /\ HasLine("p2s")
    /\ LET l == line("p2s")
       IN  tiny' = CASE l = <<>> -> [tiny EXCEPT !.pc = "close"]
                     [] l # <<>> /\ l[1] # "GET" -> [tiny EXCEPT !.pc = "answer", !.out = clienterror("501")]
                     [] OTHER -> [tiny EXCEPT !.pc = "headers", !.path = uri(l)]
    /\ NextLine("p2s")
    /\ UNCHANGED <<stream, proxy, given, cached>>

\* A turn of read_requesthdrs; at the end of the file it turns for ever.
ServerHeader ==
    /\ tiny.pc = "headers" /\ HasLine("p2s")
    /\ tiny' = IF line("p2s") = Empty THEN [tiny EXCEPT !.pc = "answer", !.out = answer(tiny.path)] ELSE tiny
    /\ NextLine("p2s")
    /\ UNCHANGED <<stream, proxy, given, cached>>

Answer ==
    /\ tiny.pc = "answer" /\ tiny.out # <<>>
    /\ stream' = [stream EXCEPT !["s2p"].bytes = @ \o Head(tiny.out)]
    /\ tiny' = [tiny EXCEPT !.out = Tail(@)]
    /\ UNCHANGED <<rio, proxy, given, cached>>

ServerClose ==
    /\ tiny.pc = "close" \/ (tiny.pc = "answer" /\ tiny.out = <<>>)
    /\ tiny' = [tiny EXCEPT !.pc = "done"] /\ stream' = [stream EXCEPT !["s2p"].eof = TRUE]
    /\ UNCHANGED <<rio, proxy, given, cached>>

-----------------------------------------------------------------------------
request(r) == <<r.method, r.uri, NL>> \o FlattenSeq(r.lines)

Init ==
    /\ given \in Requests
    /\ stream = [e \in {"c2p", "p2s", "s2p", "p2c"} |->
                   IF e = "c2p" THEN [bytes |-> request(given), eof |-> given.closes] ELSE [bytes |-> <<>>, eof |-> FALSE]]
    /\ rio = [e \in {"c2p", "p2s", "s2p"} |-> rio_readinitb]
    /\ proxy = [pc |-> "request", buf |-> given.stack, host |-> none, port |-> none, path |-> none, out |-> <<>>,
                header_host |-> given.stack, header_other |-> given.stack, obj_buf |-> given.stack, obj_size |-> 0]
    /\ tiny = [pc |-> "request", path |-> none, out |-> <<>>]
    /\ cached = [object |-> none, size |-> 0]

\* What the worker does without waiting for a peer to read.
ProxyLocal == Read("c2p") \/ Read("s2p") \/ Request \/ Header \/ Connect \/ Relay \/ Close
ProxyStep == ProxyLocal \/ Send \/ Write
TinyStep == Read("p2s") \/ ServerRequest \/ ServerHeader \/ Answer \/ ServerClose
Next == ProxyStep \/ TinyStep
Spec == Init /\ [][Next]_vars
\* Both programs run, and what is sent arrives.  Nothing makes a peer take
\* what the worker writes.
FairSpec == Spec /\ WF_vars(ProxyLocal) /\ WF_vars(TinyStep)

-----------------------------------------------------------------------------
\* A uri that means something, at most one Host line, lines that fit, every
\* one with a colon, and nothing left on the stack.
Regular ==
    /\ given.method = "GET" /\ given.uri \in DOMAIN Means
    /\ Len(Means[given.uri].path) + 2 < MAXLINE
    /\ \A i, j \in DOMAIN given.lines : given.lines[i][1] = "Host" /\ given.lines[j][1] = "Host" => i = j
    /\ given.lines # <<>> /\ \A i \in DOMAIN given.lines : given.lines[i] = Empty <=> i = Len(given.lines)
    /\ \A i \in DOMAIN given.lines : Len(given.lines[i]) < MAXLINE
    /\ \A i \in DOMAIN given.lines : given.lines[i] = Empty \/ given.lines[i][1] \notin NoColon
    /\ given.stack = <<>>

\* The first n lines but for those of some names.
without(names, lines, n) ==
    LET kept[k \in 0 .. Len(lines)] ==
            IF k = 0 THEN <<>> ELSE IF lines[k][1] \in names THEN kept[k - 1] ELSE kept[k - 1] \o lines[k]
    IN  kept[n]

Forwarded ==
    LET means == Means[given.uri]
        hosts == { i \in DOMAIN given.lines : given.lines[i][1] = "Host" }
    IN  <<"GET">> \o means.path \o <<NL>>
        \o (IF hosts = {} THEN <<"Host">> \o means.host \o <<NL>> ELSE given.lines[CHOOSE i \in hosts : TRUE])
        \o constant_headers \o without(headers \union {"Host"}, given.lines, Len(given.lines))

\* What was sent and not yet read as a line.
Coming(e) == rio[e].line \o rio[e].buf \o stream[e].bytes

Answered == FlattenSeq(answer(Means[given.uri].path))

\* However the reads and writes cut the bytes, the server of the uri is sent
\* the client's request with the proxy's own headers (what it has not read
\* and what is still to be sent are that request), the client receives the
\* server's answer and nothing else, all of it when the worker closes,
\* and the cache is given that answer when it is smaller than an object may
\* be and has no byte 0 (doit, parse_uri and parse_header of proxy.c).
ExchangeExact ==
    Regular =>
        /\ proxy.pc = "send" => /\ IsSuffix(proxy.out, Forwarded)
                                /\ tiny.pc = "request" => Coming("p2s") \o proxy.out = Forwarded
                                /\ proxy.host = Means[given.uri].host /\ proxy.port = Means[given.uri].port
        /\ IsPrefix(stream["p2c"].bytes, Answered)
        /\ proxy.pc = "done" =>
              /\ stream["p2c"].bytes = Answered
              /\ ~Contains(Answered, "NUL") =>
                    cached = IF Len(Answered) < MAX_OBJECT_SIZE THEN [object |-> Answered, size |-> Len(Answered)]
                             ELSE [object |-> none, size |-> 0]

\* A worker whose client sends the empty line serves it to the end, or the
\* process ends, if neither client nor server stops for ever reading what
\* the worker writes (doit of proxy.c and tiny.c).
\* What earlier calls left on the stack is part of what is sent: unless it
\* ends a line, the server never sees the empty line.
Ended == {"done", "null dereference", "overflow", "no connection", "server gone", "broken pipe"}
PeersRead == []<>(proxy.pc \notin {"send", "write"})
WorkerReturns ==
    /\ Contains(given.lines, Empty)
    /\ given.stack = <<>> \/ Last(given.stack) = NL
    /\ PeersRead
    => <>(proxy.pc \in Ended)
=============================================================================
