----------------------------- MODULE MCConsumer -----------------------------
(* Conversations for the consumer of the memcached text protocol.           *)
EXTENDS TextGrammar

U(text, delim)   == [text |-> text, delim |-> delim, size |-> 0, hit |-> FALSE]
Num(size, delim) == [U("num", delim) EXCEPT !.size = size]
Line(text)       == <<U(text, "eol")>>
CRLF             == Line("")
Value(size)      == <<U("VALUE", "none"), Num(size, "eol")>>
Hit(size)        == [Value(size) EXCEPT ![1].hit = TRUE]

Get      == <<U("get", "blank"), U("key", "eol")>>
\* One hit; two hits, of an empty value and of a value whose data reads
\* "VALUE ... 1\r\n".
GetHit   == [client |-> Get, server |-> Hit(1) \o <<U("x", "none")>> \o CRLF \o Line("END")]
GetTwo   == [client |-> Get,
             server |-> Hit(0) \o CRLF \o Hit(2) \o Value(1) \o CRLF \o Line("END")]
\* A VALUE line whose size is not a number.
GetOdd   == [client |-> Get, server |-> <<U("VALUE", "none"), U("x", "eol")>> \o Line("END")]
\* The data of the set reads "get ".
Set      == [client |-> <<U("set", "blank"), U("key", "blank"), Num(0, "blank"), Num(0, "blank"),
                          Num(1, "eol"), U("get", "blank")>> \o CRLF,
             server |-> Line("STORED")]
\* A set with too few arguments has no data, and flush_all is not all letters.
SetShort == [client |-> <<U("set", "blank"), U("key", "eol")>>, server |-> Line("ERROR")]
FlushAll == [client |-> <<Num(0, "eol")>>, server |-> Line("OK")]
Version  == [client |-> Line("version"), server |-> Line("VERSION")]
Delete   == [client |-> <<U("delete", "blank"), U("key", "eol")>>, server |-> Line("DELETED")]
Quit     == [client |-> <<U("quit", "blank")>> \o CRLF, server |-> <<>>]
Binary   == [client |-> <<U("0x80", "none")>>, server |-> <<U("0x80", "none")>>]

\* The two streams of a sequence of requests.
Said(reqs) ==
  LET tagged(i, s) == [j \in DOMAIN reqs[i][s] |->
                         [request |-> i] @@ reqs[i][s][j]]
      flat(s) == FoldLeft(LAMBDA a, i : a \o tagged(i, s), <<>>, [i \in DOMAIN reqs |-> i])
  IN  [client |-> flat("client"), server |-> flat("server")]

MCConversations ==
  {Said(reqs) : reqs \in
     [1..3 -> {GetHit, Set, Version}]
       \cup {<<a, b, GetHit>> : a \in {SetShort, FlushAll, GetTwo}, b \in {GetTwo, Set}}
       \cup {<<GetTwo, Quit>>, <<Binary, Binary>>, <<GetOdd, GetHit>>}}
UnknownConversations == {Said(reqs) : reqs \in [1..3 -> {GetHit, Set, Delete}]}

ASSUME ConversationsAreRegular == \A c \in MCConversations : Regular(c)
=============================================================================
