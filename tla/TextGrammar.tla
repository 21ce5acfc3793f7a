----------------------------- MODULE TextGrammar -----------------------------
(***************************************************************************)
(* The conversations the consumer is written for: what mctext.fsm takes    *)
(* for granted of a client and a server that speak memcached's text        *)
(* protocol.  Every request is one the state machine reads to its last     *)
(* unit, and every reply one it finds the end of.                          *)
(***************************************************************************)
EXTENDS Consumer

Unit == [text : STRING, delim : {"none", "blank", "eol"}, size : Nat,
         hit : BOOLEAN, request : Nat \ {0}]

\* The requests of c, where they end in stream s, and their hits.
Requests(c) == {c["client"][p].request : p \in DOMAIN c["client"]}
EndOf(c, s, i) == Cardinality({p \in DOMAIN c[s] : c[s][p].request <= i})
HitsIn(c, a, z) == {p \in DOMAIN c["server"] : c["server"][p].hit /\ a < p /\ p <= z}

\* The first delimiter behind position p of stream s, and the text up to it.
Ahead(c, s, p, delims) == {q \in DOMAIN c[s] : q > p /\ c[s][q].delim \in delims}
First(c, s, p, delims) ==
  CHOOSE q \in Ahead(c, s, p, delims) : \A r \in Ahead(c, s, p, delims) : q <= r
Within(c, s, p, delims, z) ==
  Ahead(c, s, p, delims) # {} /\ First(c, s, p, delims) <= z
TextTo(c, s, p, q) == Word(SubSeq(c[s], p + 1, q))

\* The first word of request i, and where its line ends.
WordAt(c, i) == First(c, "client", EndOf(c, "client", i - 1), WordEnd)
WordOf(c, i) == TextTo(c, "client", EndOf(c, "client", i - 1), WordAt(c, i))
LineAt(c, i) == First(c, "client", WordAt(c, i), LineEnd)

\* The end of the n-th argument of request i, for n in 0..4.
ArgAt(c, i, n) ==
  LET next(p) == First(c, "client", p, WordEnd)
      e == WordAt(c, i)
  IN  CASE n = 0 -> e
        [] n = 1 -> next(e)
        [] n = 2 -> next(next(e))
        [] n = 3 -> next(next(next(e)))
        [] n = 4 -> next(next(next(next(e))))

\* The units of data behind the line of a set: none unless its fourth argument
\* is a number.
DataOf(c, i) ==
  LET to == ArgAt(c, i, 4)
  IN  IF /\ \A n \in 1..3 : ArgAt(c, i, n) # LineAt(c, i)
         /\ TextTo(c, "client", ArgAt(c, i, 3), to) = <<"num">>
      THEN c["client"][to].size + 1 ELSE 0

\* A reply that is one line.
OneLine(c, i) ==
  LET from == EndOf(c, "server", i - 1)
  IN  /\ Within(c, "server", from, LineEnd, EndOf(c, "server", i))
      /\ First(c, "server", from, LineEnd) = EndOf(c, "server", i)

IsValue(line) == Len(line) > 1 /\ line[1] = "VALUE"

\* The reply to a get is read line by line, and behind the VALUE line of a hit
\* from the end of its data on.
Behind(c, g) ==
  LET q == First(c, "server", g, LineEnd) IN q + c["server"][q].size + 1
Starts(c, i) ==
  LET a == EndOf(c, "server", i - 1)
      z == EndOf(c, "server", i)
  IN  {a} \cup {Behind(c, p - 1) : p \in HitsIn(c, a, z)}
\* A line read is the VALUE line of a hit, whose data holds no other, or the
\* last line, or a VALUE line of which nobody can tell the size.
GetReply(c, i) ==
  LET z == EndOf(c, "server", i)
  IN  \A g \in Starts(c, i) :
        LET q    == First(c, "server", g, LineEnd)
            line == TextTo(c, "server", g, q)
        IN  /\ Within(c, "server", g, LineEnd, z)
            /\ IF g + 1 \in HitsIn(c, g, z)
               THEN IsValue(line) /\ line[2] = "num" /\ HitsIn(c, g + 1, Behind(c, g)) = {}
               ELSE /\ HitsIn(c, g, z) = {}
                    /\ IF IsValue(line) THEN line[2] # "num" ELSE q = z

NoHits(c, i) == HitsIn(c, EndOf(c, "server", i - 1), EndOf(c, "server", i)) = {}

\* A request and its reply, for each way through the state machine.
Request(c, i) ==
  LET a    == EndOf(c, "client", i - 1)
      z    == EndOf(c, "client", i)
      word == WordOf(c, i)
  IN  /\ Within(c, "client", a, WordEnd, z)
      /\ IF Letters(word) /\ CommandState(word) # "nil"
         THEN /\ Within(c, "client", WordAt(c, i), LineEnd, z)
              /\ CommandState(word) = "handleGet" => LineAt(c, i) = z /\ GetReply(c, i)
              /\ CommandState(word) = "handleSet" =>
                   LineAt(c, i) + DataOf(c, i) = z /\ OneLine(c, i) /\ NoHits(c, i)
         ELSE /\ WordAt(c, i) = z /\ NoHits(c, i)
              /\ Letters(word) => OneLine(c, i)

\* A conversation in the binary protocol is left alone from its first unit on.
IsBinary(c) == c["client"] # <<>> /\ c["client"][1].text = "0x80"

Typed(c) ==
  /\ \A s \in Sides : c[s] \in Seq(Unit)
  /\ \A p \in DOMAIN c["server"] : c["server"][p].request \in Requests(c)

\* Requests, and replies, follow one another.
InTurn(c) ==
  \A s \in Sides : \A p, q \in DOMAIN c[s] : p <= q => c[s][p].request <= c[s][q].request

Regular(c) ==
  /\ Typed(c) /\ InTurn(c)
  /\ IsBinary(c) \/ \A i \in Requests(c) : Request(c, i)
=============================================================================
