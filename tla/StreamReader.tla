---------------------------- MODULE StreamReader ----------------------------
(***************************************************************************)
(* The reader of one direction of a conversation (assembly/reader):        *)
(* Reader and the Buffer it wraps.                                         *)
(*                                                                         *)
(* Buffer keeps the bytes in one bytes.Buffer, buf, and remembers in       *)
(* blocks where bytes are missing: a block is a gap followed by dataLen    *)
(* bytes of buf.  Nothing in it is an absolute position.  Here a byte is   *)
(* its position in the stream and Text[p] says what character it is, so    *)
(* that a misplaced byte can be told from the right one.                   *)
(***************************************************************************)
EXTENDS Integers, Sequences

CONSTANTS
  Text,     \* the content of each position: "x", "r" (\r) or "n" (\n)
  Cap,      \* Buffer.cap (BufferSize = 32 KiB)
  MaxRead,  \* largest argument of ReadN, PeekN and Discard (a bound)
  MaxAhead  \* largest value of Buffer.discard (a bound)

ASSUME ReaderAssumption ==
  /\ Text \in Seq({"x", "r", "n"})
  /\ Cap \in Nat /\ MaxRead \in Nat /\ MaxAhead \in Nat

VARIABLES
  sent,      \* positions of the stream the assembler has passed on
  buf,       \* Buffer.buf
  len,       \* Buffer.len: length including gaps
  blocks,    \* Buffer.blocks
  discard,   \* Buffer.discard: bytes to drop from what is yet to arrive
  closed, eof,
  err,       \* Reader.err: "nil" or "write" (io.ErrShortWrite)
  result     \* what the last call returned

buffer == <<buf, len, blocks, discard>>
vars   == <<sent, buf, len, blocks, discard, closed, eof, err, result>>

N == Len(Text)
Positions == 1..N
Block == [gap : 0..N, dataLen : 0..N]

TypeOK ==
  /\ sent \in 0..N
  /\ buf \in Seq(Positions)
  /\ len \in 0..N
  /\ blocks \in Seq(Block)
  /\ discard \in 0..MaxAhead
  /\ closed \in BOOLEAN
  /\ eof \in BOOLEAN
  /\ err \in {"nil", "write"}
  /\ result.out \in Seq(Positions)

Return(op, n, out, e, gap) ==
  result' = [op |-> op, n |-> n, out |-> out, err |-> e, gap |-> gap]

Init ==
  /\ sent = 0
  /\ buf = <<>> /\ len = 0 /\ blocks = <<>> /\ discard = 0
  /\ closed = FALSE /\ eof = FALSE /\ err = "nil"
  /\ result = [op |-> "New", n |-> 0, out |-> <<>>, err |-> "nil", gap |-> 0]

-----------------------------------------------------------------------------
(* Buffer.                                                                 *)

\* f[1] + ... + f[i]
SumTo(f, i) ==
  LET sum[k \in 0..i] == IF k = 0 THEN 0 ELSE sum[k - 1] + f[k]
  IN  sum[i]

\* block.len and the sums the code's loops over the first i blocks compute.
blockLen(b) == b.gap + b.dataLen
lens(bs)    == [k \in DOMAIN bs |-> blockLen(bs[k])]
dataLens(bs) == [k \in DOMAIN bs |-> bs[k].dataLen]
lenTo(i)    == SumTo(lens(blocks), i)
dataTo(i)   == SumTo(dataLens(blocks), i)

Least(S) == CHOOSE i \in S : \A j \in S : i <= j

gapped == {i \in DOMAIN blocks : blocks[i].gap > 0}

\* contiguousAvailable
avail == IF gapped = {} THEN dataTo(Len(blocks)) ELSE dataTo(Least(gapped) - 1)
gap   == IF gapped = {} THEN 0 ELSE blocks[Least(gapped)].gap

BufferReset_KeepsDiscard == buf' = <<>> /\ len' = 0 /\ blocks' = <<>> /\ UNCHANGED discard

\* Buffer.Reset
BufferReset == buf' = <<>> /\ len' = 0 /\ blocks' = <<>> /\ discard' = 0

taken_ForgetsGap(b, n) == IF b.gap > n THEN 0 ELSE n

\* What is left of block b after block.discard(n), and the data bytes it took.
taken(b, n)   == IF b.gap > n THEN 0 ELSE n - b.gap
trimmed(b, n) == [gap     |-> IF b.gap > n THEN b.gap - n ELSE 0,
                  dataLen |-> b.dataLen - taken(b, n)]

\* Buffer.Discard with dropBlocks: the first block that outlasts n is trimmed
\* and those before it go; if there is none the buffer is empty and the
\* remainder is owed by later writes.
BufferDiscard(n) ==
  LET outlast == {i \in DOMAIN blocks : lenTo(i) > n}
      i == Least(outlast)
      t == n - lenTo(i - 1)
  IN  IF outlast = {}
      THEN /\ buf' = <<>> /\ len' = 0 /\ blocks' = <<>>
           /\ discard' = discard + n - lenTo(Len(blocks))
      ELSE /\ buf' = SubSeq(buf, dataTo(i - 1) + taken(blocks[i], t) + 1, Len(buf))
           /\ len' = len - t - lenTo(i - 1)
           /\ blocks' = <<trimmed(blocks[i], t)>> \o SubSeq(blocks, i + 1, Len(blocks))
           /\ UNCHANGED discard

\* A negative Skip: "starting mid-conversation".
known(skip) == IF skip < 0 THEN 0 ELSE skip

\* Buffer.Write of count bytes after a gap of skip0; full says whether it
\* returns io.ErrShortWrite.
Write(skip0, count, full) ==
  LET skip  == known(skip0)
      owed  == IF discard <= skip THEN 0 ELSE discard - skip  \* taken from data
      skip1 == IF discard <= skip THEN skip - discard ELSE 0
      data  == [i \in 1..(count - owed) |-> sent + skip + owed + i]
      last  == Len(blocks)
  IN  IF discard >= skip + count
      THEN /\ ~full
           /\ discard' = discard - skip - count
           /\ UNCHANGED <<buf, len, blocks>>
      ELSE /\ full = (Len(buf) + Len(data) > Cap)
           /\ IF full THEN UNCHANGED buffer
              ELSE /\ buf' = buf \o data
                   /\ discard' = 0
                   /\ blocks' = IF skip1 = 0 /\ last > 0
                                THEN [blocks EXCEPT ![last].dataLen = @ + Len(data)]
                                ELSE Append(blocks, [gap |-> skip1, dataLen |-> Len(data)])
                   /\ len' = len + skip1 + Len(data)

-----------------------------------------------------------------------------
(* Reader, the side of the assembler.                                      *)

\* One element of Reassembled; skip is -1 when the stream is picked up in
\* the middle.
Reassembled(skip, count) ==
  /\ ~closed /\ err = "nil"
  /\ sent + known(skip) + count <= N
  /\ \E full \in BOOLEAN :
       /\ Write(skip, count, full)
       /\ err' = IF full THEN "write" ELSE err
       /\ sent' = IF full THEN sent ELSE sent + known(skip) + count
  /\ Return("Reassembled", 0, <<>>, "nil", 0)
  /\ UNCHANGED <<closed, eof>>

\* A closed or failed reader ignores what arrives.
ReassembledIgnored ==
  /\ closed \/ err # "nil"
  /\ UNCHANGED vars

ReassemblyComplete ==
  /\ eof' = TRUE
  /\ Return("Complete", 0, <<>>, "nil", 0)
  /\ UNCHANGED <<sent, buffer, closed, err>>

-----------------------------------------------------------------------------
(* Reader, the side of the consumer.                                       *)

\* Reset readies the reader for another connection.
Reset ==
  /\ BufferReset
  /\ sent' = 0
  /\ closed' = FALSE /\ eof' = FALSE /\ err' = "nil"
  /\ Return("Reset", 0, <<>>, "nil", 0)

Truncate ==
  /\ BufferReset
  /\ Return("Truncate", 0, <<>>, "nil", 0)
  /\ UNCHANGED <<sent, closed, eof, err>>

Close ==
  /\ BufferReset
  /\ closed' = TRUE
  /\ Return("Close", 0, <<>>, "nil", 0)
  /\ UNCHANGED <<sent, eof, err>>

\* if r.err != nil { return r.err }
Failed(op, n) ==
  /\ err # "nil"
  /\ Return(op, n, <<>>, err, 0)
  /\ UNCHANGED <<sent, buffer, closed, eof, err>>

\* ErrShortRead, or io.ErrUnexpectedEOF once the stream has ended.
short == IF eof THEN "eof" ELSE "short"

Discard(n) ==
  \/ Failed("Discard", n)
  \/ /\ err = "nil"
     /\ discard + n - len <= MaxAhead
     /\ BufferDiscard(n)
     /\ Return("Discard", n, <<>>, "nil", 0)
     /\ UNCHANGED <<sent, closed, eof, err>>

ReadN(n) ==
  \/ Failed("ReadN", n)
  \/ /\ err = "nil"
     /\ UNCHANGED <<sent, closed, eof, err>>
     /\ \/ /\ len < n
           /\ Return("ReadN", n, <<>>, short, 0)
           /\ UNCHANGED buffer
        \/ /\ len >= n /\ avail < n
           /\ Return("ReadN", n, SubSeq(buf, 1, avail), "lost", gap)
           /\ BufferDiscard(avail + gap)
        \/ /\ len >= n /\ avail >= n
           /\ Return("ReadN", n, SubSeq(buf, 1, n), "nil", 0)
           /\ BufferDiscard(n)

PeekN(n) ==
  \/ Failed("PeekN", n)
  \/ /\ err = "nil"
     /\ UNCHANGED <<sent, buffer, closed, eof, err>>
     /\ \/ len < n /\ Return("PeekN", n, <<>>, short, 0)
        \/ len >= n /\ avail < n /\ Return("PeekN", n, SubSeq(buf, 1, avail), "lost", gap)
        \/ len >= n /\ avail >= n /\ Return("PeekN", n, SubSeq(buf, 1, n), "nil", 0)

\* Indexes, from 0, of the available bytes whose content is in chars.
hits(chars) == {i \in 0..(avail - 1) : Text[buf[i + 1]] \in chars}

IndexAny(chars) ==
  \/ Failed("IndexAny", 0)
  \/ /\ err = "nil"
     /\ UNCHANGED <<sent, buffer, closed, eof, err>>
     /\ \/ hits(chars) # {} /\ Return("IndexAny", Least(hits(chars)), <<>>, "nil", 0)
        \/ hits(chars) = {} /\ avail < len /\ Return("IndexAny", 0, <<>>, "lost", gap)
        \/ hits(chars) = {} /\ avail >= len /\ Return("IndexAny", 0, <<>>, short, 0)

\* The line that ends at index pos, without "\n" and without a "\r" before it.
chomp(pos) ==
  SubSeq(buf, 1, IF pos >= 1 /\ Text[buf[pos]] = "r" THEN pos - 1 ELSE pos)

ReadLine ==
  LET pos == Least(hits({"n"}))
  IN  \/ Failed("ReadLine", 0)
      \/ /\ err = "nil"
         /\ UNCHANGED <<sent, closed, eof, err>>
         /\ \/ /\ hits({"n"}) # {}
               /\ Return("ReadLine", 0, chomp(pos), "nil", 0)
               /\ BufferDiscard(pos + 1)
            \/ /\ hits({"n"}) = {} /\ avail < len
               /\ Return("ReadLine", 0, <<>>, "lost", gap)
               /\ BufferDiscard(avail + gap)
            \/ /\ hits({"n"}) = {} /\ avail >= len
               /\ Return("ReadLine", 0, <<>>, short, 0)
               /\ UNCHANGED buffer

-----------------------------------------------------------------------------
Next ==
  \/ \E skip \in -1..N, count \in 0..N : Reassembled(skip, count)
  \/ ReassembledIgnored
  \/ ReassemblyComplete
  \/ Reset
  \/ Truncate
  \/ Close
  \/ \E n \in 0..MaxRead : Discard(n) \/ ReadN(n) \/ PeekN(n)
  \/ \E chars \in SUBSET {"x", "r", "n"} : IndexAny(chars)
  \/ ReadLine

Spec == Init /\ [][Next]_vars

-----------------------------------------------------------------------------
(* Properties.                                                             *)

\* The three representations of the length agree (Buffer.validate panics
\* otherwise): buf holds exactly the data the blocks count, len is what they
\* cover.  Two blocks are never adjacent without a gap, no block is empty,
\* the capacity is respected, and bytes are owed only by an empty buffer.
Validate ==
  /\ TypeOK
  /\ dataTo(Len(blocks)) = Len(buf)
  /\ lenTo(Len(blocks)) = len
  /\ \A i \in DOMAIN blocks : blockLen(blocks[i]) > 0 /\ (i > 1 => blocks[i].gap > 0)
  /\ Len(buf) <= Cap
  /\ discard > 0 => len = 0

\* The stream position of the reader's cursor, and the lost positions behind
\* it, as the representation implies them.
cursor == sent - len + discard
lostAhead ==
  UNION {(cursor + lenTo(i - 1) + 1)..(cursor + lenTo(i - 1) + blocks[i].gap) :
           i \in DOMAIN blocks}

Stream == INSTANCE GapStream WITH rd <- cursor, lost <- lostAhead,
                                  failed <- (err # "nil")

\* Reader and Buffer implement a cursor in the TCP stream: every call returns
\* the bytes at the right positions, every loss is reported where it is (by PeekN
\* and IndexAny at every call), and the reader never gets out of step with the
\* stream.
ImplementsGapStream == Stream!Spec
=============================================================================
