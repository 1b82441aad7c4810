-------------------------- MODULE MCHttpExchange --------------------------
EXTENDS HttpExchange

MCUriText ==
    [plain  |-> <<"http://", "tiny", "/", "home.html">>,
     port   |-> <<"http://", "tiny", ":", "90", "/">>,
     cgi    |-> <<"tiny", "/", "cgi-bin", "?", "1">>,
     gif    |-> <<"tiny", "/", "a.gif">>,
     colon  |-> <<"http://", "tiny", "/", "a", ":", "b">>,
     bare   |-> <<"http://", "tiny">>]
MCMeans ==
    [plain  |-> [host |-> <<"tiny">>, port |-> <<"80">>, path |-> <<"/", "home.html">>],
     port   |-> [host |-> <<"tiny">>, port |-> <<"90">>, path |-> <<"/">>],
     cgi    |-> [host |-> <<"tiny">>, port |-> <<"80">>, path |-> <<"/", "cgi-bin", "?", "1">>],
     gif    |-> [host |-> <<"tiny">>, port |-> <<"80">>, path |-> <<"/", "a.gif">>]]
MCServers == {<< <<"tiny">>, <<"80">> >>, << <<"tiny">>, <<"90">> >>}
MCFiles ==
    (<<"/", "home.html">> :> [mode |-> "r", bytes |-> <<"text", NL, "text">>])
 @@ (<<"/", "cgi-bin">> :> [mode |-> "x", bytes |-> Empty \o <<"text">>])

MCAccept == <<"Accept", "text", NL>>
MCHost == <<"Host", "text", NL>>
MCConn == <<"Connection", "text", NL>>
MCLong == <<"Accept", "text", "text", "text", "text", "text", NL>>       \* its last word is on a line of its own
MCExact == <<"Accept", "text", "text", "text", "text", "text", "\r", NL>> \* the empty line is what does not fit
MCEnd == <<"\r", NL>>

MCAsk(u, l) == [method |-> "GET", uri |-> u, lines |-> l, closes |-> FALSE, stack |-> <<>>]
MCLines == { <<MCEnd>>, <<MCAccept, MCEnd>>, <<MCConn, MCHost, MCAccept, MCEnd>>, <<MCAccept, MCAccept, MCHost, MCConn, MCEnd>> }
MCRequests ==
    { MCAsk(u, l) : u \in {"plain", "port"}, l \in MCLines }
    \union { MCAsk(u, <<MCAccept, MCEnd>>) : u \in DOMAIN MCUriText }
    \union { MCAsk("plain", l) : l \in { <<MCLong, MCEnd>>, <<MCExact, MCHost, MCEnd>>, <<MCHost, <<"text", NL>>, MCEnd>>,
                                         <<MCHost, <<"Host", NL>>, MCEnd>>, <<>>, <<MCAccept>> } }
    \union { [r EXCEPT !.closes = TRUE] : r \in { MCAsk("plain", l) : l \in { <<>>, <<MCAccept>>, <<MCHost>>, <<MCAccept, MCEnd>> } } }
    \union { [MCAsk(u, l) EXCEPT !.stack = st] : st \in { <<"text", "text">>, MCAccept }, u \in {"plain", "bare"}, l \in { <<MCEnd>>, <<MCHost, MCEnd>> } }
    \union { [MCAsk("plain", <<MCEnd>>) EXCEPT !.method = "POST"] }
=============================================================================
