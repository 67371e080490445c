------------------------------ MODULE PartsProofs ------------------------------
(***************************************************************************)
(* The reader of the container's stdout, for any replies, chunks and cap;  *)
(* and the three parts that run beside the sessions, together.             *)
(***************************************************************************)
EXTENDS MCParts, SovGuardProofs, SequenceTheorems

\* A part of a sequence, by its places.
LEMMA PartOf ==
  ASSUME NEW S, NEW s \in Seq(S), NEW i \in 0..Len(s), NEW j \in i..Len(s)
  PROVE  /\ SubSeq(s, i + 1, j) \in Seq(S) /\ Len(SubSeq(s, i + 1, j)) = j - i
         /\ \A k \in 1..(j - i) : SubSeq(s, i + 1, j)[k] = s[i + k] /\ s[i + k] \in S
<1> DEFINE lo == i + 1
<1>1. /\ Len(s) \in Nat /\ i \in Nat /\ lo \in Int /\ lo = i + 1 /\ j \in Int /\ i <= j
      /\ \A k \in lo..j : s[k] \in S
  OBVIOUS
<1> HIDE DEF lo
<1>2. /\ SubSeq(s, lo, j) \in Seq(S)
      /\ Len(SubSeq(s, lo, j)) = IF lo <= j THEN j - lo + 1 ELSE 0
      /\ \A k \in 1..(j - lo + 1) : SubSeq(s, lo, j)[k] = s[lo + k - 1]
  BY <1>1, SubSeqProperties
<1>3. Len(SubSeq(s, lo, j)) = j - i /\ j - lo + 1 = j - i
  BY <1>1, <1>2
<1>4. \A k \in 1..(j - i) : lo + k - 1 = i + k /\ i + k \in lo..j
  BY <1>1
<1>5. \A k \in 1..(j - i) : SubSeq(s, lo, j)[k] = s[i + k] /\ s[i + k] \in S
  BY <1>1, <1>2, <1>3, <1>4
<1> QED
  BY <1>2, <1>3, <1>5 DEF lo

\* What is known of a reply.
LEMMA TextFacts ==
  ASSUME NEW text \in Text
  PROVE  /\ text \in Seq({"a", "lead", "trail"}) /\ Len(text) \in Nat \ {0}
         /\ \A k \in 1..Len(text) :
              /\ text[k] \in {"a", "lead", "trail"}
              /\ text[k] = "lead" => k < Len(text) /\ text[k + 1] = "trail"
              /\ text[k] = "trail" => k > 1 /\ text[k - 1] = "lead"
BY ReaderAssumption

\* What is known of a reply in the stream.
LEMMA ReplyFacts ==
  ASSUME ReaderTypeOK, StreamInv, NEW w \in written
  PROVE  /\ w.text \in Text /\ Len(w.text) \in Nat \ {0} /\ Start(w) \in Nat
         /\ w.at \in 1..Len(stream) /\ w.at = Start(w) + Len(w.text) + 1
<1>1. w.text \in Text /\ w.at \in 1..Len(stream)
  BY DEF ReaderTypeOK
<1>2. Len(w.text) \in Nat \ {0}
  BY <1>1, TextFacts
<1>3. Len(stream) \in Nat
  BY DEF ReaderTypeOK
<1> QED
  BY <1>1, <1>2, <1>3 DEF StreamInv, Start

\* At the start nothing was written or read.
LEMMA InitReader == ReaderInit => ReaderInv
<1> SUFFICES ASSUME ReaderInit PROVE ReaderInv
  OBVIOUS
<1> USE DEF ReaderInit
<1>0. <<>> \in Seq(Byte) /\ <<>> \in Seq(Decoded) /\ Len(<<>>) = 0
  OBVIOUS
<1>1. ReaderTypeOK
  <2>1. stream \in Seq(Byte) /\ mcpBuffer \in Seq(Decoded) /\ read \in 0..Len(stream)
    BY <1>0
  <2> QED
    BY <2>1 DEF ReaderTypeOK
<1>2. StreamInv /\ TornInv
  BY DEF StreamInv, TornInv
<1>3. BufferInv
  <2>1. Len(mcpBuffer) = 0 /\ read = 0
    BY <1>0, Zenon
  <2> HIDE DEF ReaderInit
  <2> QED
    BY <2>1 DEF BufferInv, LineStart
<1>4. GotInv
  BY DEF GotInv, Arrived
<1> QED
  BY <1>1, <1>2, <1>3, <1>4 DEF ReaderInv, NoEarlyOverflow

-----------------------------------------------------------------------------
(* A reply is written.                                                      *)

\* It is appended to the stream, behind what was there.
LEMMA StreamGrows ==
  ASSUME ReaderTypeOK, NEW text \in Text, WriteReply(text)
  PROVE  /\ stream' \in Seq(Byte) /\ Len(stream') = Len(stream) + Len(text) + 1
         /\ Len(stream) \in Nat
         /\ \A p \in 1..Len(stream) : stream'[p] = stream[p]
         /\ \A k \in 1..Len(text) : stream'[Len(stream) + k] = text[k]
         /\ stream'[Len(stream) + Len(text) + 1] = "nl"
<1> DEFINE bytes == Append(text, "nl")
<1>1. /\ bytes \in Seq(Byte) /\ Len(bytes) = Len(text) + 1
      /\ \A k \in 1..Len(text) : bytes[k] = text[k]
      /\ bytes[Len(text) + 1] = "nl"
  BY TextFacts DEF Byte
<1>2. stream' = stream \o bytes /\ stream \in Seq(Byte)
  BY DEF WriteReply, ReaderTypeOK
<1> HIDE DEF bytes
<1>3. Len(text) \in Nat
  BY TextFacts
<1> QED
  BY <1>1, <1>2, <1>3

\* The stream is still its replies.
LEMMA WriteStream ==
  ASSUME ReaderTypeOK, StreamInv, NEW text \in Text, WriteReply(text)
  PROVE  StreamInv'
<1> DEFINE new == [at |-> Len(stream) + Len(text) + 1, text |-> text]
<1>0. /\ written' = written \cup {new} /\ new.at = Len(stream) + Len(text) + 1
      /\ new.text = text /\ Len(text) \in Nat \ {0} /\ Len(stream) \in Nat
      /\ Start(new) = Len(stream)
  BY TextFacts, StreamGrows DEF WriteReply, Start
<1> HIDE DEF new
<1>1. \A w \in written : w.at \in 1..Len(stream) /\ w.text \in Text
  BY DEF ReaderTypeOK
<1>2. LineStart(stream', Len(stream))
  <2>1. CASE Len(stream) = 0
    BY <2>1 DEF LineStart
  <2>2. CASE Len(stream) > 0
    <3>1. PICK w \in written : Start(w) < Len(stream) /\ Len(stream) <= w.at
      BY <2>2, <1>0 DEF StreamInv
    <3>2. stream[Len(stream)] = "nl"
      BY <1>0, <1>1, <3>1 DEF StreamInv
    <3> QED
      BY <1>0, <2>2, <3>2, StreamGrows DEF LineStart
  <2> QED
    BY <1>0, <2>1, <2>2
<1>3. ASSUME NEW w \in written'
      PROVE  /\ Start(w) \in Nat /\ LineStart(stream', Start(w)) /\ stream'[w.at] = "nl"
             /\ \A k \in 1..Len(w.text) : stream'[Start(w) + k] = w.text[k]
  <2>1. CASE w = new
    BY <1>0, <1>2, <2>1, StreamGrows DEF LineStart
  <2>2. CASE w \in written
    <3>1. Start(w) \in Nat /\ Len(w.text) \in Nat /\ w.at \in 1..Len(stream)
          /\ w.at = Start(w) + Len(w.text) + 1
      BY <2>2, ReplyFacts
    <3>2. \A p \in 1..Len(stream) : stream'[p] = stream[p]
      BY StreamGrows
    <3>3. LineStart(stream', Start(w)) /\ stream'[w.at] = "nl"
      <4>1. LineStart(stream, Start(w)) /\ stream[w.at] = "nl"
        BY <2>2 DEF StreamInv
      <4>2. Start(w) = 0 \/ Start(w) \in 1..Len(stream)
        BY <3>1
      <4> QED
        BY <3>1, <3>2, <4>1, <4>2 DEF LineStart
    <3>4. ASSUME NEW k \in 1..Len(w.text) PROVE stream'[Start(w) + k] = w.text[k]
      <4>1. Start(w) + k \in 1..Len(stream) /\ stream[Start(w) + k] = w.text[k]
        BY <1>0, <2>2, <3>1 DEF StreamInv
      <4> QED
        BY <3>2, <4>1
    <3> QED
      BY <3>1, <3>3, <3>4
  <2> QED
    BY <1>0, <2>1, <2>2
<1>4. ASSUME NEW p \in 1..Len(stream') PROVE \E w \in written' : Start(w) < p /\ p <= w.at
  <2>1. CASE p <= Len(stream)
    BY <1>0, <2>1 DEF StreamInv
  <2>2. CASE p > Len(stream)
    BY <1>0, <2>2, StreamGrows
  <2> QED
    BY <1>0, <2>1, <2>2
<1>5. \A v, w \in written' : v.at = w.at => v = w
  BY <1>0, <1>1 DEF StreamInv
<1>6. \A w : Start(w)' = Start(w)
  BY DEF Start
<1> QED
  BY <1>3, <1>4, <1>5, <1>6 DEF StreamInv

\* What was read of it is what it was.
LEMMA WriteKeeps ==
  ASSUME ReaderInv, NEW text \in Text, WriteReply(text)
  PROVE  ReaderInv'
<1> USE DEF ReaderInv
<1>0. /\ UNCHANGED <<read, mcpBuffer, got, torn, over>>
      /\ Len(stream) \in Nat /\ read \in 0..Len(stream) /\ torn \subseteq 1..read
      /\ \A p \in 1..Len(stream) : stream'[p] = stream[p]
      /\ Len(stream') = Len(stream) + Len(text) + 1 /\ Len(text) \in Nat
  BY StreamGrows, TextFacts DEF WriteReply, ReaderTypeOK
<1>1. ReaderTypeOK'
  <2> DEFINE new == [at |-> Len(stream) + Len(text) + 1, text |-> text]
  <2>1. written' = written \cup {new} /\ new \in [at : 1..Len(stream'), text : Text]
    BY <1>0 DEF WriteReply
  <2>2. [at : 1..Len(stream), text : Text] \subseteq [at : 1..Len(stream'), text : Text]
    BY <1>0
  <2> HIDE DEF new
  <2>3. written' \subseteq [at : 1..Len(stream'), text : Text]
    BY <2>1, <2>2 DEF ReaderTypeOK
  <2>4. stream' \in Seq(Byte) /\ read' \in 0..Len(stream')
    BY <1>0, StreamGrows
  <2> QED
    BY <1>0, <2>3, <2>4 DEF ReaderTypeOK
<1>2. StreamInv'
  BY WriteStream
<1>3. TornInv'
  BY <1>0 DEF TornInv
<1>4. \A p \in 1..read : Place(stream', torn, p) = Place(stream, torn, p)
  BY <1>0 DEF Place
<1>5. Arrived' = Arrived /\ \A w \in Arrived : Seen(stream', torn, w) = Seen(stream, torn, w)
  <2> DEFINE new == [at |-> Len(stream) + Len(text) + 1, text |-> text]
  <2>1. written' = written \cup {new} /\ new.at = Len(stream) + Len(text) + 1
    BY DEF WriteReply
  <2> HIDE DEF new
  <2>2. Arrived' = Arrived
    BY <1>0, <2>1 DEF Arrived
  <2>3. ASSUME NEW w \in Arrived PROVE Seen(stream', torn, w) = Seen(stream, torn, w)
    <3>1. /\ Start(w) \in Nat /\ Len(w.text) \in Nat
          /\ w.at \in Nat /\ w.at <= read /\ w.at = Start(w) + Len(w.text) + 1
      BY ReplyFacts DEF Arrived
    <3>2. \A k \in 1..Len(w.text) :
            Place(stream', torn, Start(w) + k) = Place(stream, torn, Start(w) + k)
      BY <1>0, <1>4, <3>1
    <3> QED
      BY <3>1, <3>2 DEF Seen
  <2> QED
    BY <2>2, <2>3
<1>6. BufferInv'
  <2> DEFINE from == read - Len(mcpBuffer)
  <2>1. /\ from \in Nat /\ from <= read /\ (over \/ LineStart(stream, from))
        /\ Len(mcpBuffer) \in Nat
        /\ \A k \in 1..Len(mcpBuffer) : from + k \in 1..read
    BY <1>0 DEF BufferInv, ReaderTypeOK
  <2>2. over \/ LineStart(stream', from)
    BY <1>0, <2>1 DEF LineStart
  <2> QED
    BY <1>0, <1>4, <2>1, <2>2 DEF BufferInv
<1>7. NoEarlyOverflow'
  BY <1>0 DEF NoEarlyOverflow, WriteReply
<1>8. GotInv'
  BY <1>0, <1>5 DEF GotInv
<1> QED
  BY <1>1, <1>2, <1>3, <1>6, <1>7, <1>8

-----------------------------------------------------------------------------
(* A chunk is read.                                                         *)

\* The reader's view of the stream when n more bytes have come.
Chunk(n)   == SubSeq(stream, read + 1, read + n)
TextNow(n) == mcpBuffer \o Decode(Chunk(n))
From       == read - Len(mcpBuffer)

\* The second byte of a character follows its first.
LEMMA TrailFollowsLead ==
  ASSUME ReaderTypeOK, StreamInv, NEW p \in 1..Len(stream), stream[p] = "trail"
  PROVE  p > 1 /\ stream[p - 1] = "lead"
<1>1. PICK w \in written : Start(w) < p /\ p <= w.at
  BY DEF StreamInv
<1>2. /\ w.text \in Text /\ Len(w.text) \in Nat /\ Start(w) \in Nat
      /\ w.at = Start(w) + Len(w.text) + 1 /\ w.at \in 1..Len(stream)
  BY ReplyFacts
<1>3. stream[w.at] = "nl" /\ \A k \in 1..Len(w.text) : stream[Start(w) + k] = w.text[k]
  BY DEF StreamInv
<1> DEFINE k == p - Start(w)
<1>4. k \in 1..Len(w.text) /\ p = Start(w) + k
  BY <1>1, <1>2, <1>3
<1> HIDE DEF k
<1>5. w.text[k] = "trail"
  BY <1>3, <1>4
<1>6. k > 1 /\ w.text[k - 1] = "lead"
  BY <1>2, <1>4, <1>5, TextFacts
<1>7. k - 1 \in 1..Len(w.text) /\ p - 1 = Start(w) + (k - 1) /\ p > 1
  BY <1>2, <1>4, <1>6
<1>8. stream[Start(w) + (k - 1)] = w.text[k - 1]
  BY <1>3, <1>7
<1> QED
  BY <1>6, <1>7, <1>8

\* What was decoded before stays so; a place is torn by the chunk that ends there.
LEMMA ReadTorn ==
  ASSUME ReaderTypeOK, TornInv, NEW n \in 1..MaxChunk, ReadChunk(n)
  PROVE  /\ read \in Nat /\ n \in Nat /\ n > 0 /\ Len(stream) \in Nat
         /\ read' = read + n /\ read' <= Len(stream)
         /\ stream' = stream /\ written' = written
         /\ torn' \subseteq 1..read' /\ TornInv'
         /\ \A p \in 1..read : p \in torn' <=> p \in torn
         /\ \A p \in (read + 1)..read' : p \in torn' <=> p = read' /\ stream[p] = "lead"
<1>1. /\ read \in Nat /\ n \in Nat /\ n > 0 /\ Len(stream) \in Nat
      /\ read' = read + n /\ read' <= Len(stream) /\ torn \subseteq 1..read
      /\ stream' = stream /\ written' = written
      /\ torn' = IF stream[read + n] = "lead" THEN torn \cup {read + n} ELSE torn
  BY ReaderAssumption DEF ReadChunk, ReaderTypeOK
<1> QED
  BY <1>1 DEF TornInv

LEMMA PlaceKept ==
  ASSUME ReaderTypeOK, TornInv, NEW n \in 1..MaxChunk, ReadChunk(n), NEW p \in 1..read
  PROVE  Place(stream, torn', p) = Place(stream, torn, p)
<1>1. p \in torn' <=> p \in torn
  BY ReadTorn
<1>2. p - 1 \in torn' <=> p - 1 \in torn
  <2>1. CASE p = 1
    BY <2>1, ReadTorn DEF ReaderTypeOK
  <2>2. CASE p # 1
    BY <2>2, ReadTorn
  <2> QED
    BY <2>1, <2>2
<1> QED
  BY <1>1, <1>2 DEF Place

\* A chunk that is decoded by itself comes out as its places say.
LEMMA ChunkDecodes ==
  ASSUME ReaderTypeOK, StreamInv, TornInv, NEW n \in 1..MaxChunk, ReadChunk(n)
  PROVE  /\ Decode(Chunk(n)) \in Seq(Decoded) /\ Len(Decode(Chunk(n))) = n
         /\ \A k \in 1..n : Decode(Chunk(n))[k] = Place(stream, torn', read + k)
<1> DEFINE chunk == Chunk(n)
<1>1. /\ read \in Nat /\ n \in Nat /\ n > 0 /\ read' = read + n /\ Len(stream) \in Nat
      /\ read' <= Len(stream) /\ stream' = stream /\ stream \in Seq(Byte)
  BY ReadTorn DEF ReaderTypeOK
<1>2. Len(chunk) = n /\ \A k \in 1..n : chunk[k] = stream[read + k] /\ chunk[k] \in Byte
  <2>1. read \in 0..Len(stream) /\ read + n \in read..Len(stream) /\ (read + n) - read = n
    BY <1>1
  <2> QED
    BY <1>1, <2>1, PartOf DEF Chunk
<1> HIDE DEF chunk
<1>3. ASSUME NEW k \in 1..n
      PROVE  Decode(chunk)[k] = Place(stream, torn', read + k) /\ Decode(chunk)[k] \in Decoded
  <2> DEFINE p == read + k
  <2>1. p \in (read + 1)..read' /\ p \in 1..Len(stream) /\ k \in 1..Len(chunk)
    BY <1>1, <1>2
  <2>2. p \in torn' <=> k = n /\ stream[p] = "lead"
    BY <1>1, <2>1, ReadTorn
  <2>3. stream[p] = "trail" => (p - 1 \in torn' <=> k = 1)
    <3>1. CASE k = 1
      <4> HAVE stream[p] = "trail"
      <4>1. p > 1 /\ stream[p - 1] = "lead"
        BY <2>1, TrailFollowsLead
      <4>2. p - 1 = read
        BY <1>1, <3>1
      <4>3. read \in torn
        BY <1>1, <4>1, <4>2 DEF TornInv
      <4> QED
        BY <1>1, <3>1, <4>2, <4>3, ReadTorn DEF ReaderTypeOK
    <3>2. CASE k # 1
      <4>1. p - 1 \in (read + 1)..read' /\ p - 1 # read'
        BY <1>1, <2>1, <3>2
      <4> QED
        BY <3>2, <4>1, ReadTorn
    <3> QED
      BY <3>1, <3>2
  <2>4. chunk[k] = stream[p] /\ stream[p] \in Byte
    BY <1>2
  <2>5. Decode(chunk)[k] = CASE stream[p] = "lead"  -> IF k < n THEN "e" ELSE "bad"
                             [] stream[p] = "trail" -> IF k > 1 THEN "void" ELSE "bad"
                             [] OTHER -> stream[p]
    BY <1>2, <2>1, <2>4 DEF Decode
  <2> HIDE DEF p
  <2>6. Place(stream, torn', p) = CASE stream[p] = "lead"  -> IF p \in torn' THEN "bad" ELSE "e"
                   [] stream[p] = "trail" -> IF p - 1 \in torn' THEN "bad" ELSE "void"
                   [] OTHER -> stream[p]
    BY DEF Place
  <2>7. Decode(chunk)[k] = Place(stream, torn', p) /\ Decode(chunk)[k] \in Decoded
    BY <1>1, <2>2, <2>3, <2>4, <2>5, <2>6 DEF Byte, Decoded
  <2> QED
    BY <2>7 DEF p
<1>4. Len(Decode(chunk)) = n /\ DOMAIN Decode(chunk) = 1..n
  BY <1>1, <1>2 DEF Decode
<1>5. Decode(chunk) \in [1..n -> Decoded]
  BY <1>2, <1>3 DEF Decode
<1>6. Decode(chunk) \in Seq(Decoded)
  BY <1>1, <1>5
<1> QED
  BY <1>3, <1>4, <1>6 DEF chunk

\* So does all that is in the buffer then.
LEMMA TextDecodes ==
  ASSUME ReaderTypeOK, StreamInv, TornInv, BufferInv, NEW n \in 1..MaxChunk, ReadChunk(n)
  PROVE  /\ TextNow(n) \in Seq(Decoded) /\ Len(TextNow(n)) \in Nat
         /\ From \in Nat /\ From <= read /\ From + Len(TextNow(n)) = read'
         /\ Len(TextNow(n)) = Len(mcpBuffer) + n
         /\ \A k \in 1..Len(TextNow(n)) :
              /\ TextNow(n)[k] = Place(stream, torn', From + k)
              /\ TextNow(n)[k] = "nl" <=> stream[From + k] = "nl"
              /\ TextNow(n)[k] = "nl" => From + k > read
<1> DEFINE piece == Decode(Chunk(n))
<1> DEFINE text == TextNow(n)
<1>1. /\ piece \in Seq(Decoded) /\ Len(piece) = n
      /\ \A k \in 1..n : piece[k] = Place(stream, torn', read + k)
  BY ChunkDecodes
<1>2. /\ mcpBuffer \in Seq(Decoded) /\ Len(mcpBuffer) \in Nat /\ From \in Nat
      /\ read = From + Len(mcpBuffer)
      /\ \A k \in 1..Len(mcpBuffer) : mcpBuffer[k] = Place(stream, torn, From + k) /\ mcpBuffer[k] # "nl"
  BY DEF ReaderTypeOK, BufferInv, From
<1>3. /\ read \in Nat /\ n \in Nat /\ n > 0 /\ read' = read + n /\ read' <= Len(stream)
      /\ Len(stream) \in Nat /\ stream' = stream
  BY ReadTorn
<1>4. text = mcpBuffer \o piece
  BY DEF TextNow
<1> HIDE DEF piece, text
<1>5. /\ text \in Seq(Decoded) /\ Len(text) = Len(mcpBuffer) + n
      /\ \A k \in 1..Len(text) :
           text[k] = IF k <= Len(mcpBuffer) THEN mcpBuffer[k] ELSE piece[k - Len(mcpBuffer)]
  <2>1. /\ mcpBuffer \o piece \in Seq(Decoded)
        /\ Len(mcpBuffer \o piece) = Len(mcpBuffer) + Len(piece)
        /\ \A k \in 1..Len(mcpBuffer) + Len(piece) : (mcpBuffer \o piece)[k] =
             IF k <= Len(mcpBuffer) THEN mcpBuffer[k] ELSE piece[k - Len(mcpBuffer)]
    BY <1>1, <1>2, ConcatProperties, Zenon
  <2> QED
    BY <1>1, <1>4, <2>1
<1>6. ASSUME NEW k \in 1..Len(text)
      PROVE  text[k] = Place(stream, torn', From + k) /\ (text[k] = "nl" => From + k > read)
  <2>1. CASE k <= Len(mcpBuffer)
    <3>1. Place(stream, torn', From + k) = Place(stream, torn, From + k)
      BY <1>2, <1>3, <2>1, PlaceKept
    <3> QED
      BY <1>2, <1>5, <2>1, <3>1
  <2>2. CASE k > Len(mcpBuffer)
    <3>1. k - Len(mcpBuffer) \in 1..n /\ From + k = read + (k - Len(mcpBuffer))
      BY <1>2, <1>3, <1>5, <2>2
    <3>2. text[k] = piece[k - Len(mcpBuffer)]
      BY <1>2, <1>3, <1>5, <2>2
    <3> QED
      BY <1>1, <1>2, <1>3, <3>1, <3>2
  <2> QED
    BY <1>2, <1>3, <1>5, <2>1, <2>2
<1>7. ASSUME NEW k \in 1..Len(text) PROVE text[k] = "nl" <=> stream[From + k] = "nl"
  BY <1>6 DEF Place
<1> QED
  BY <1>2, <1>3, <1>5, <1>6, <1>7 DEF text

\* Within a reply there is no newline.
LEMMA InReply ==
  ASSUME ReaderTypeOK, StreamInv, NEW w \in written, NEW p \in Nat, Start(w) < p, p < w.at
  PROVE  p \in 1..Len(stream) /\ stream[p] # "nl"
<1>1. /\ w.text \in Text /\ Len(w.text) \in Nat /\ Start(w) \in Nat
      /\ w.at = Start(w) + Len(w.text) + 1 /\ w.at \in 1..Len(stream)
  BY ReplyFacts
<1> DEFINE k == p - Start(w)
<1>2. k \in 1..Len(w.text) /\ p = Start(w) + k
  BY <1>1
<1> HIDE DEF k
<1>3. stream[p] = w.text[k] /\ w.text[k] \in {"a", "lead", "trail"}
  BY <1>1, <1>2, TextFacts DEF StreamInv
<1> QED
  BY <1>1, <1>3 DEF ReaderTypeOK

\* There is at most one last newline.
LEMMA LastNewlineIs ==
  ASSUME NEW text, NEW m \in Nat, NEW i \in 0..m, i = 0 \/ text[i] = "nl",
         \A k \in (i + 1)..m : text[k] # "nl"
  PROVE  LastNewline(text, m) = i
<1> DEFINE Is(l) == (l = 0 \/ text[l] = "nl") /\ \A k \in (l + 1)..m : text[k] # "nl"
<1>1. Is(i) /\ LastNewline(text, m) = CHOOSE l \in 0..m : Is(l)
  BY DEF LastNewline
<1> DEFINE l == LastNewline(text, m)
<1>2. l \in 0..m /\ Is(l)
  BY <1>1
<1> HIDE DEF l
<1>3. ~(l < i) /\ ~(i < l)
  BY <1>2
<1>4. l = i
  BY <1>2, <1>3
<1> QED
  BY <1>4 DEF l

\* In the text at hand there is one.
LEMMA LastNewlineFacts ==
  ASSUME ReaderTypeOK, StreamInv, TornInv, BufferInv, NEW n \in 1..MaxChunk, ReadChunk(n),
         NEW m \in 0..Len(TextNow(n))
  PROVE  LET i == LastNewline(TextNow(n), m)
         IN  /\ i \in 0..m /\ (i = 0 \/ TextNow(n)[i] = "nl")
             /\ \A k \in (i + 1)..m : TextNow(n)[k] # "nl"
<1> DEFINE text == TextNow(n)
<1>0. /\ Len(text) \in Nat /\ From \in Nat /\ From + Len(text) = read' /\ m \in Nat
      /\ read' <= Len(stream) /\ Len(stream) \in Nat /\ m <= Len(text)
      /\ \A k \in 1..Len(text) : text[k] = "nl" <=> stream[From + k] = "nl"
  BY TextDecodes, ReadTorn
<1> HIDE DEF text
<1> DEFINE Is(i) == (i = 0 \/ text[i] = "nl") /\ \A k \in (i + 1)..m : text[k] # "nl"
<1>1. \E i \in 0..m : Is(i)
  <2>1. CASE m = 0
    BY <2>1
  <2>2. CASE m > 0
    <3> DEFINE p == From + m
    <3>1. p \in 1..Len(stream) /\ p \in Nat /\ p = From + m
      BY <1>0, <2>2
    <3> HIDE DEF p
    <3>2. PICK w \in written : Start(w) < p /\ p <= w.at
      BY <3>1 DEF StreamInv
    <3>3. /\ Start(w) \in Nat /\ w.at \in Nat /\ stream[w.at] = "nl"
          /\ LineStart(stream, Start(w))
      BY ReplyFacts DEF StreamInv
    <3>4. CASE p = w.at
      <4>1. text[m] = "nl"
        BY <1>0, <2>2, <3>1, <3>3, <3>4
      <4> QED
        BY <1>0, <4>1
    <3>5. CASE p < w.at
      <4>1. ASSUME NEW k \in 1..m, Start(w) < From + k PROVE text[k] # "nl"
        <5>1. From + k \in Nat /\ From + k < w.at /\ k \in 1..Len(text)
          BY <1>0, <3>1, <3>3, <3>5
        <5>2. stream[From + k] # "nl"
          BY <4>1, <5>1, InReply
        <5> QED
          BY <1>0, <5>1, <5>2
      <4>2. CASE Start(w) <= From
        BY <1>0, <3>3, <4>1, <4>2
      <4>3. CASE Start(w) > From
        <5> DEFINE e == Start(w) - From
        <5>1. e \in 1..m /\ From + e = Start(w) /\ e \in 1..Len(text)
          BY <1>0, <3>1, <3>2, <3>3, <4>3
        <5>2. text[e] = "nl"
          BY <1>0, <3>3, <4>3, <5>1 DEF LineStart
        <5>3. \A k \in (e + 1)..m : k \in 1..m /\ Start(w) < From + k
          BY <1>0, <5>1
        <5> HIDE DEF e
        <5> QED
          BY <4>1, <5>1, <5>2, <5>3
      <4> QED
        BY <1>0, <3>3, <4>2, <4>3
    <3> QED
      BY <3>1, <3>2, <3>3, <3>4, <3>5
  <2> QED
    BY <1>0, <2>1, <2>2
<1>2. LastNewline(text, m) = CHOOSE i \in 0..m : Is(i)
  BY DEF LastNewline
<1>3. LastNewline(text, m) \in 0..m /\ Is(LastNewline(text, m))
  BY <1>1, <1>2
<1> QED
  BY <1>3 DEF text

\* The replies that come with the chunk, and where their lines are in the text.
Came(n) == {w \in written : read < w.at /\ w.at <= read + n}

LineTo(n, j) ==
  [at   |-> From + j,
   text |-> SubSeq(TextNow(n), LastNewline(TextNow(n), j - 1) + 1, j - 1)]

LEMMA LineOf ==
  ASSUME ReaderTypeOK, StreamInv, TornInv, BufferInv, ~over,
         NEW n \in 1..MaxChunk, ReadChunk(n), NEW w \in Came(n)
  PROVE  /\ w.at - From \in 1..Len(TextNow(n)) /\ TextNow(n)[w.at - From] = "nl"
         /\ LineTo(n, w.at - From) = Seen(stream, torn', w)
         /\ LineTo(n, w.at - From).text # <<>>
<1> DEFINE text == TextNow(n)
<1> DEFINE j == w.at - From
<1> DEFINE e == Start(w) - From
<1>0. /\ Len(text) \in Nat /\ From \in Nat /\ From <= read /\ From + Len(text) = read'
      /\ read' = read + n /\ read' <= Len(stream) /\ Len(stream) \in Nat /\ read \in Nat
      /\ text \in Seq(Decoded) /\ n \in Nat
      /\ \A k \in 1..Len(text) : /\ text[k] = Place(stream, torn', From + k)
                                 /\ text[k] = "nl" <=> stream[From + k] = "nl"
  BY TextDecodes, ReadTorn
<1>1. /\ w \in written /\ read < w.at /\ w.at <= read + n /\ Len(w.text) \in Nat \ {0}
      /\ Start(w) \in Nat /\ w.at = Start(w) + Len(w.text) + 1 /\ w.at \in Nat
      /\ stream[w.at] = "nl" /\ LineStart(stream, Start(w))
  BY ReplyFacts DEF Came, StreamInv
<1>2. Start(w) >= From
  <2> SUFFICES ASSUME Start(w) < From PROVE FALSE
    BY <1>0, <1>1
  <2>1. stream[From] = "nl"
    BY <1>0, <1>1 DEF BufferInv, LineStart, From
  <2>2. From < w.at
    BY <1>0, <1>1
  <2> QED
    BY <1>0, <1>1, <2>1, <2>2, InReply
<1> HIDE DEF text
<1>3. /\ j \in 1..Len(text) /\ From + j = w.at /\ j - 1 \in Nat /\ j - 1 \in 0..Len(text)
      /\ e \in 0..(j - 1) /\ e \in Nat /\ From + e = Start(w) /\ (j - 1) - e = Len(w.text)
      /\ j - 1 \in e..Len(text) /\ e \in 0..Len(text)
  <2>1. /\ From \in Nat /\ Len(text) \in Nat /\ w.at \in Nat /\ Start(w) \in Nat
        /\ Len(w.text) \in Nat /\ w.at = Start(w) + Len(w.text) + 1
        /\ Start(w) >= From /\ w.at <= From + Len(text)
    BY <1>0, <1>1, <1>2
  <2>2. j \in Int /\ e \in Int /\ From + j = w.at /\ From + e = Start(w)
    BY <2>1
  <2> HIDE DEF j, e
  <2>3. j = e + Len(w.text) + 1
    BY <2>1, <2>2
  <2>4. 0 <= e
    BY <2>1, <2>2
  <2>5. j <= Len(text)
    BY <2>1, <2>2
  <2> QED
    BY <2>1, <2>2, <2>3, <2>4, <2>5
<1> HIDE DEF j, e
<1>4. text[j] = "nl"
  BY <1>0, <1>1, <1>3
<1>5. e = 0 \/ text[e] = "nl"
  <2> SUFFICES ASSUME e # 0 PROVE text[e] = "nl"
    OBVIOUS
  <2>1. e \in 1..Len(text) /\ Start(w) # 0
    BY <1>0, <1>3
  <2> QED
    BY <1>0, <1>1, <1>3, <2>1 DEF LineStart
<1>6. ASSUME NEW k \in (e + 1)..(j - 1) PROVE text[k] # "nl"
  <2>1. /\ From + k \in Nat /\ Start(w) < From + k /\ From + k < w.at
        /\ k \in 1..Len(text)
    BY <1>0, <1>3
  <2>2. stream[From + k] # "nl"
    BY <1>1, <2>1, InReply
  <2>3. text[k] = "nl" <=> stream[From + k] = "nl"
    BY <1>0, <2>1
  <2> QED
    BY <2>2, <2>3
<1>7. LastNewline(text, j - 1) = e
  BY <1>3, <1>5, <1>6, LastNewlineIs
<1> DEFINE piece == SubSeq(text, e + 1, j - 1)
<1>8. /\ piece \in Seq(Decoded) /\ Len(piece) = Len(w.text)
      /\ \A k \in 1..Len(w.text) : piece[k] = text[e + k]
  BY <1>0, <1>3, PartOf
<1>9. \A k \in 1..Len(w.text) : text[e + k] = Place(stream, torn', Start(w) + k)
  <2> TAKE k \in 1..Len(w.text)
  <2> DEFINE l == e + k
  <2>1. l \in 1..Len(text) /\ From + l = Start(w) + k
    BY <1>0, <1>1, <1>3
  <2> HIDE DEF l
  <2>2. text[l] = Place(stream, torn', From + l)
    BY <1>0, <2>1
  <2> QED
    BY <2>1, <2>2 DEF l
<1> HIDE DEF piece
<1>10. piece = [k \in 1..Len(w.text) |-> Place(stream, torn', Start(w) + k)]
  BY <1>8, <1>9
<1>11. LineTo(n, j) = [at |-> w.at, text |-> piece]
  BY <1>3, <1>7 DEF LineTo, text, piece
<1>12. LineTo(n, j) = Seen(stream, torn', w) /\ piece # <<>>
  BY <1>1, <1>8, <1>10, <1>11 DEF Seen
<1> QED
  BY <1>3, <1>4, <1>11, <1>12 DEF text, j

\* A newline in the text is the end of a reply that comes with the chunk.
LEMMA NewlineEnds ==
  ASSUME ReaderTypeOK, StreamInv, TornInv, BufferInv, NEW n \in 1..MaxChunk, ReadChunk(n),
         NEW j \in 1..Len(TextNow(n)), TextNow(n)[j] = "nl"
  PROVE  \E w \in Came(n) : w.at = From + j
<1>1. /\ From \in Nat /\ Len(TextNow(n)) \in Nat /\ From + Len(TextNow(n)) = read'
      /\ stream[From + j] = "nl" /\ From + j > read
  BY TextDecodes
<1>2. read' = read + n /\ read' <= Len(stream) /\ Len(stream) \in Nat
  BY ReadTorn
<1> DEFINE p == From + j
<1>3. p \in Nat /\ p \in 1..Len(stream) /\ p > read /\ p <= read + n
  BY <1>1, <1>2
<1> HIDE DEF p
<1>4. PICK w \in written : Start(w) < p /\ p <= w.at
  BY <1>3 DEF StreamInv
<1>5. w.at \in Nat
  BY ReplyFacts
<1>6. p = w.at
  BY <1>1, <1>3, <1>4, <1>5, InReply DEF p
<1> QED
  BY <1>3, <1>4, <1>6 DEF Came, p

\* The lines are exactly the replies that come with the chunk.
LEMMA LinesAre ==
  ASSUME ReaderTypeOK, StreamInv, TornInv, BufferInv, ~over,
         NEW n \in 1..MaxChunk, ReadChunk(n)
  PROVE  LinesOf(TextNow(n), From) = {Seen(stream, torn', w) : w \in Came(n)}
<1> DEFINE ends == {j \in 1..Len(TextNow(n)) : TextNow(n)[j] = "nl"}
<1>1. LinesOf(TextNow(n), From) = {line \in {LineTo(n, j) : j \in ends} : line.text # <<>>}
  BY DEF LinesOf, LineTo
<1>2. ASSUME NEW line \in LinesOf(TextNow(n), From)
      PROVE  line \in {Seen(stream, torn', w) : w \in Came(n)}
  <2>1. PICK j \in ends : line = LineTo(n, j)
    BY <1>1, <1>2
  <2>2. PICK w \in Came(n) : w.at = From + j
    BY <2>1, NewlineEnds
  <2>3. w.at - From = j
    BY <2>1, <2>2, TextDecodes
  <2>4. line = Seen(stream, torn', w)
    BY <2>1, <2>2, <2>3, LineOf
  <2> QED
    BY <2>2, <2>4
<1>3. ASSUME NEW w \in Came(n) PROVE Seen(stream, torn', w) \in LinesOf(TextNow(n), From)
  <2>1. /\ w.at - From \in ends
        /\ LineTo(n, w.at - From) = Seen(stream, torn', w)
        /\ LineTo(n, w.at - From).text # <<>>
    BY LineOf
  <2> QED
    BY <1>1, <2>1
<1> QED
  BY <1>2, <1>3

\* The replies that had arrived read as before.
LEMMA SeenKept ==
  ASSUME ReaderTypeOK, StreamInv, TornInv, NEW n \in 1..MaxChunk, ReadChunk(n),
         NEW w \in Arrived
  PROVE  Seen(stream, torn', w) = Seen(stream, torn, w)
<1>1. /\ w \in written /\ w.at <= read /\ Len(w.text) \in Nat /\ Start(w) \in Nat
      /\ w.at = Start(w) + Len(w.text) + 1 /\ read \in Nat
  BY ReplyFacts, ReadTorn DEF Arrived
<1>2. \A k \in 1..Len(w.text) : Start(w) + k \in 1..read
  BY <1>1
<1>3. \A k \in 1..Len(w.text) :
        Place(stream, torn', Start(w) + k) = Place(stream, torn, Start(w) + k)
  BY <1>2, PlaceKept
<1> QED
  BY <1>3 DEF Seen

\* The lines handed on are the replies that arrived, again.
LEMMA ReadGot ==
  ASSUME ReaderTypeOK, StreamInv, TornInv, BufferInv, GotInv,
         NEW n \in 1..MaxChunk, ReadChunk(n)
  PROVE  GotInv'
<1>1. stream' = stream /\ written' = written /\ read' = read + n /\ read \in Nat /\ n \in Nat
  BY ReadTorn
<1> SUFFICES ASSUME ~over' PROVE got' = {Seen(stream, torn', w) : w \in Arrived'}
  BY <1>1 DEF GotInv, Seen, Start
<1>2. ~over /\ got' = got \cup LinesOf(TextNow(n), From)
  BY DEF ReadChunk, TextNow, Chunk, From, ReaderTypeOK
<1>3. got = {Seen(stream, torn', w) : w \in Arrived}
  BY <1>2, SeenKept DEF GotInv
<1>4. \A w \in written : w.at \in Nat
  BY ReplyFacts
<1>5. Arrived' = Arrived \cup Came(n)
  BY <1>1, <1>4 DEF Arrived, Came
<1> QED
  BY <1>2, <1>3, <1>5, LinesAre

\* What is left of the text stays in the buffer, from a line's start.
LEMMA ReadBuffer ==
  ASSUME ReaderTypeOK, StreamInv, TornInv, BufferInv, NEW n \in 1..MaxChunk, ReadChunk(n)
  PROVE  BufferInv' /\ mcpBuffer' \in Seq(Decoded)
<1> DEFINE text == TextNow(n)
<1> DEFINE i == LastNewline(text, Len(text))
<1>1. /\ text \in Seq(Decoded) /\ Len(text) \in Nat /\ From \in Nat
      /\ From + Len(text) = read' /\ stream' = stream /\ read' \in Nat
      /\ \A k \in 1..Len(text) : /\ text[k] = Place(stream, torn', From + k)
                                 /\ text[k] = "nl" <=> stream[From + k] = "nl"
  BY TextDecodes, ReadTorn
<1>2. CASE Overflows(text)
  <2>1. mcpBuffer' = <<>> /\ over'
    BY <1>2 DEF ReadChunk, TextNow, Chunk
  <2>2. mcpBuffer' \in Seq(Decoded) /\ Len(mcpBuffer') = 0
    BY <2>1
  <2>3. read' \in Nat
    BY <1>1
  <2> HIDE DEF text, i
  <2>4. read' - Len(mcpBuffer') \in Nat /\ \A k \in 1..Len(mcpBuffer') : FALSE
    <3> DEFINE len == Len(mcpBuffer')
    <3> DEFINE r == read'
    <3>1. len = 0 /\ r \in Nat
      BY <2>2, <2>3
    <3> HIDE DEF len, r
    <3>2. r - len \in Nat /\ \A k \in 1..len : FALSE
      BY <3>1
    <3> QED
      BY <3>2 DEF len, r
  <2>5. BufferInv'
    BY <2>1, <2>4 DEF BufferInv
  <2> QED
    BY <2>2, <2>5
<1>3. CASE ~Overflows(text)
  <2>1. mcpBuffer' = SubSeq(text, i + 1, Len(text)) /\ over' = over
    BY <1>3 DEF ReadChunk, TextNow, Chunk, Rest
  <2>2. /\ i \in 0..Len(text) /\ (i = 0 \/ text[i] = "nl")
        /\ \A k \in (i + 1)..Len(text) : text[k] # "nl"
    BY <1>1, LastNewlineFacts
  <2> HIDE DEF text, i
  <2>3. Len(text) \in i..Len(text) /\ i \in Nat
    BY <1>1, <2>2
  <2>4. /\ mcpBuffer' \in Seq(Decoded) /\ Len(mcpBuffer') = Len(text) - i
        /\ \A k \in 1..(Len(text) - i) : mcpBuffer'[k] = text[i + k]
    BY <1>1, <2>1, <2>2, <2>3, PartOf
  <2>5. read' - Len(mcpBuffer') = From + i /\ From + i \in Nat
    BY <1>1, <2>3, <2>4
  <2>6. over \/ LineStart(stream, From + i)
    <3>1. CASE i = 0
      BY <1>1, <3>1 DEF BufferInv, From
    <3>2. CASE i # 0
      BY <1>1, <2>2, <2>3, <3>2 DEF LineStart
    <3> QED
      BY <3>1, <3>2
  <2>7. ASSUME NEW k \in 1..(Len(text) - i)
        PROVE  mcpBuffer'[k] = Place(stream, torn', (From + i) + k) /\ mcpBuffer'[k] # "nl"
    <3> DEFINE l == i + k
    <3>1. l \in 1..Len(text) /\ l \in (i + 1)..Len(text) /\ From + l = (From + i) + k
      BY <1>1, <2>3
    <3>2. mcpBuffer'[k] = text[l]
      BY <2>4
    <3> HIDE DEF l
    <3>3. text[l] = Place(stream, torn', From + l) /\ text[l] # "nl"
      BY <1>1, <2>2, <3>1
    <3> QED
      BY <3>1, <3>2, <3>3
  <2>8. BufferInv'
    BY <1>1, <2>1, <2>4, <2>5, <2>6, <2>7 DEF BufferInv
  <2> QED
    BY <2>4, <2>8
<1> QED
  BY <1>2, <1>3

\* The lines and the places of their newlines are of the right kind.
LEMMA ReadTypes ==
  ASSUME ReaderInv, NEW n \in 1..MaxChunk, ReadChunk(n)
  PROVE  ReaderTypeOK'
<1> USE DEF ReaderInv
<1> DEFINE text == TextNow(n)
<1>1. /\ stream' = stream /\ written' = written /\ read' = read + n /\ read' <= Len(stream)
      /\ read \in Nat /\ n \in Nat /\ Len(stream) \in Nat /\ torn' \subseteq 1..read'
      /\ stream \in Seq(Byte) /\ written \subseteq [at : 1..Len(stream), text : Text]
      /\ over \in BOOLEAN
  BY ReadTorn DEF ReaderTypeOK
<1>2. mcpBuffer' \in Seq(Decoded)
  BY ReadBuffer
<1>3. over' \in BOOLEAN /\ (got' = got \/ got' = got \cup LinesOf(text, From))
  BY <1>1 DEF ReadChunk, TextNow, Chunk, From
<1>4. ASSUME NEW line \in LinesOf(text, From)
      PROVE  line \in [at : 1..read', text : Seq(Decoded)]
  <2>1. PICK j \in 1..Len(text) : text[j] = "nl" /\ line = LineTo(n, j)
    BY DEF LinesOf, LineTo
  <2>2. /\ text \in Seq(Decoded) /\ Len(text) \in Nat /\ From \in Nat
        /\ From + Len(text) = read'
    BY TextDecodes
  <2>3. j - 1 \in 0..Len(text)
    BY <2>1, <2>2
  <2> DEFINE i == LastNewline(text, j - 1)
  <2>4. i \in 0..(j - 1)
    BY <2>3, LastNewlineFacts
  <2> HIDE DEF text, i
  <2>5. i \in 0..Len(text) /\ j - 1 \in i..Len(text)
    BY <2>1, <2>2, <2>4
  <2>6. SubSeq(text, i + 1, j - 1) \in Seq(Decoded)
    BY <2>2, <2>5, PartOf
  <2>7. From + j \in 1..read'
    BY <1>1, <2>1, <2>2
  <2>8. line = [at |-> From + j, text |-> SubSeq(text, i + 1, j - 1)]
    BY <2>1 DEF LineTo, text, i
  <2> QED
    BY <2>6, <2>7, <2>8
<1>5. got \subseteq [at : 1..read', text : Seq(Decoded)]
  <2>1. 1..read \subseteq 1..read'
    BY <1>1
  <2> QED
    BY <2>1 DEF ReaderTypeOK
<1>6. got' \subseteq [at : 1..read', text : Seq(Decoded)]
  BY <1>3, <1>4, <1>5
<1>7. read' \in 0..Len(stream')
  BY <1>1
<1> QED
  BY <1>1, <1>2, <1>3, <1>6, <1>7 DEF ReaderTypeOK

\* The characters are at most the bytes.
LEMMA CharsBound ==
  ASSUME NEW text, Len(text) \in Nat
  PROVE  Chars(text) \in Nat /\ Chars(text) <= Len(text)
<1> DEFINE all == 1..Len(text)
<1> DEFINE chars == {k \in 1..Len(text) : text[k] # "void"}
<1>1. IsFiniteSet(all) /\ Cardinality(all) = Len(text)
  <2>1. 1 \in Int /\ Len(text) \in Int
    OBVIOUS
  <2>2. /\ IsFiniteSet(1..Len(text))
        /\ Cardinality(1..Len(text)) = IF 1 > Len(text) THEN 0 ELSE Len(text) - 1 + 1
    BY <2>1, FS_Interval
  <2> QED
    BY <2>2
<1>2. chars \subseteq all
  OBVIOUS
<1> HIDE DEF all, chars
<1>3. IsFiniteSet(chars) /\ Cardinality(chars) <= Cardinality(all)
  BY <1>1, <1>2, FS_Subset
<1>4. Cardinality(chars) \in Nat
  BY <1>3, FS_CardinalityType
<1> QED
  BY <1>1, <1>3, <1>4 DEF Chars, chars

\* A buffer that overflows holds part of one reply, and a chunk.
LEMMA ReadOverflow ==
  ASSUME ReaderTypeOK, StreamInv, TornInv, BufferInv, NoEarlyOverflow,
         NEW n \in 1..MaxChunk, ReadChunk(n)
  PROVE  NoEarlyOverflow'
<1>1. /\ stream' = stream /\ written' = written /\ read' = read + n /\ read' <= Len(stream)
      /\ read \in Nat /\ n \in Nat /\ n > 0 /\ Len(stream) \in Nat
      /\ Cap \in Nat /\ MaxChunk \in Nat /\ n <= MaxChunk
  BY ReadTorn, ReaderAssumption
<1> SUFFICES ASSUME ~over, over' PROVE \E w \in written : Len(w.text) + MaxChunk > Cap
  BY <1>1 DEF NoEarlyOverflow
<1>2. Chars(TextNow(n)) > Cap
  BY DEF ReadChunk, TextNow, Chunk, Overflows
<1>3. /\ Len(TextNow(n)) \in Nat /\ Len(TextNow(n)) = Len(mcpBuffer) + n
      /\ From \in Nat /\ From <= read /\ Len(mcpBuffer) \in Nat
  BY TextDecodes DEF ReaderTypeOK
<1>4. Len(mcpBuffer) + n > Cap
  BY <1>1, <1>2, <1>3, CharsBound
<1>5. CASE Len(mcpBuffer) = 0
  <2>1. 1 \in 1..Len(stream)
    BY <1>1
  <2>2. PICK w \in written : Start(w) < 1 /\ 1 <= w.at
    BY <2>1 DEF StreamInv
  <2>3. Len(w.text) \in Nat
    BY ReplyFacts
  <2> QED
    BY <1>1, <1>4, <1>5, <2>3
<1>6. CASE Len(mcpBuffer) > 0
  <2>1. read \in 1..Len(stream) /\ read = From + Len(mcpBuffer)
    BY <1>1, <1>3, <1>6 DEF From
  <2>2. PICK w \in written : Start(w) < read /\ read <= w.at
    BY <2>1 DEF StreamInv
  <2>3. /\ Start(w) \in Nat /\ Len(w.text) \in Nat /\ w.at = Start(w) + Len(w.text) + 1
        /\ stream[w.at] = "nl" /\ LineStart(stream, Start(w)) /\ w.at \in Nat
    BY ReplyFacts DEF StreamInv
  <2>4. ASSUME NEW k \in 1..Len(mcpBuffer) PROVE stream[From + k] # "nl"
    BY DEF BufferInv, Place, From
  <2>5. read # w.at
    <3>1. stream[From + Len(mcpBuffer)] # "nl"
      BY <1>3, <1>6, <2>4
    <3> QED
      BY <2>1, <2>3, <3>1
  <2>6. Start(w) <= From
    <3> SUFFICES ASSUME Start(w) > From PROVE FALSE
      BY <1>3, <2>3
    <3> DEFINE k == Start(w) - From
    <3>1. k \in 1..Len(mcpBuffer) /\ From + k = Start(w) /\ Start(w) # 0
      BY <1>3, <2>1, <2>2, <2>3
    <3> HIDE DEF k
    <3> QED
      BY <2>3, <2>4, <3>1 DEF LineStart
  <2>7. Len(w.text) >= Len(mcpBuffer)
    BY <1>3, <2>1, <2>2, <2>3, <2>5, <2>6
  <2> QED
    BY <1>1, <1>3, <1>4, <2>3, <2>7
<1> QED
  BY <1>3, <1>5, <1>6

LEMMA ReadKeeps ==
  ASSUME ReaderInv, NEW n \in 1..MaxChunk, ReadChunk(n)
  PROVE  ReaderInv'
<1> USE DEF ReaderInv
<1>1. StreamInv'
  <2>1. stream' = stream /\ written' = written
    BY ReadTorn
  <2> QED
    BY <2>1 DEF StreamInv, Start, LineStart
<1> QED
  BY <1>1, ReadTypes, ReadTorn, ReadBuffer, ReadGot, ReadOverflow

LEMMA ReaderStep == ReaderInv /\ [ReaderNext]_readerVars => ReaderInv'
<1> SUFFICES ASSUME ReaderInv, [ReaderNext]_readerVars PROVE ReaderInv'
  OBVIOUS
<1>1. ASSUME NEW text \in Text, WriteReply(text) PROVE ReaderInv'
  BY <1>1, WriteKeeps
<1>2. ASSUME NEW n \in 1..MaxChunk, ReadChunk(n) PROVE ReaderInv'
  BY <1>2, ReadKeeps
<1>3. CASE UNCHANGED readerVars
  BY <1>3 DEF readerVars, ReaderInv, ReaderTypeOK, StreamInv, TornInv, BufferInv, GotInv,
              NoEarlyOverflow, Start, LineStart, Arrived, Place, Seen
<1> QED
  BY <1>1, <1>2, <1>3 DEF ReaderNext

\* Between the container and the lines nothing is lost, mixed up or counted wrong:
\* for any replies, cut into any chunks, under any cap (cli.ts, dockerStdout 'data').
THEOREM ReaderInvariant == ReaderSpec => []ReaderInv
BY InitReader, ReaderStep, PTL DEF ReaderSpec

\* A reply that was not torn reads as it would alone; a torn one never does.
LEMMA SeenIntact ==
  ASSUME ReaderTypeOK, StreamInv, TornInv, NEW w \in written
  PROVE  Seen(stream, torn, w).text = Decode(w.text) <=> ~Torn(w)
<1> DEFINE seen(k) == Place(stream, torn, Start(w) + k)
<1> DEFINE alone(k) == CASE w.text[k] = "lead"  -> IF k < Len(w.text) THEN "e" ELSE "bad"
                         [] w.text[k] = "trail" -> IF k > 1 THEN "void" ELSE "bad"
                         [] OTHER -> w.text[k]
<1>1. /\ Len(w.text) \in Nat /\ Start(w) \in Nat
      /\ \A k \in 1..Len(w.text) :
           /\ stream[Start(w) + k] = w.text[k]
           /\ w.text[k] \in {"a", "lead", "trail"}
           /\ w.text[k] = "lead" => k < Len(w.text)
           /\ w.text[k] = "trail" => k > 1
  BY ReplyFacts, TextFacts DEF StreamInv
<1>2. /\ Seen(stream, torn, w).text = [k \in 1..Len(w.text) |-> seen(k)]
      /\ Decode(w.text) = [k \in 1..Len(w.text) |-> alone(k)]
  BY DEF Seen, Decode
<1>3. CASE Torn(w)
  <2>1. PICK k \in 1..Len(w.text) : Start(w) + k \in torn
    BY <1>3 DEF Torn
  <2>2. w.text[k] = "lead"
    BY <1>1, <2>1 DEF TornInv
  <2>3. seen(k) = "bad" /\ alone(k) = "e"
    BY <1>1, <2>1, <2>2 DEF Place
  <2>4. seen(k) # alone(k)
    BY <2>3
  <2> HIDE DEF seen, alone
  <2>5. /\ Seen(stream, torn, w).text[k] = seen(k)
        /\ Decode(w.text)[k] = alone(k)
    BY <1>2
  <2> QED
    BY <1>3, <2>4, <2>5
<1>4. CASE ~Torn(w)
  <2>1. ASSUME NEW k \in 1..Len(w.text) PROVE seen(k) = alone(k)
    <3>1. Start(w) + k \notin torn
      BY <1>4 DEF Torn
    <3>2. w.text[k] = "trail" => (Start(w) + k) - 1 \notin torn
      <4> HAVE w.text[k] = "trail"
      <4> DEFINE l == k - 1
      <4>1. l \in 1..Len(w.text) /\ (Start(w) + k) - 1 = Start(w) + l
        BY <1>1
      <4> HIDE DEF l
      <4> QED
        BY <1>4, <4>1 DEF Torn
    <3> QED
      BY <1>1, <3>1, <3>2 DEF Place
  <2> HIDE DEF seen, alone
  <2> QED
    BY <1>2, <1>4, <2>1
<1> QED
  BY <1>3, <1>4

\* However the container's output is cut into chunks, each reply is handed on once,
\* complete, as the line it is; only a cut inside a character spoils it, and always
\* does (cli.ts: each chunk is decoded by itself).
THEOREM ReaderLinesIntact == ReaderSpec => []LinesIntact
<1>1. ReaderInv => LinesIntact
  <2> SUFFICES ASSUME ReaderInv, ~over
               PROVE  /\ {line.at : line \in got} = {w.at : w \in Arrived}
                      /\ \A line \in got, w \in Arrived :
                           line.at = w.at => (line.text = Decode(w.text) <=> ~Torn(w))
                      /\ \A line1, line2 \in got : line1.at = line2.at => line1 = line2
    BY DEF LinesIntact
  <2> USE DEF ReaderInv
  <2>1. got = {Seen(stream, torn, w) : w \in Arrived} /\ Arrived \subseteq written
    BY DEF GotInv, Arrived
  <2>2. \A w : Seen(stream, torn, w).at = w.at
    BY DEF Seen
  <2>3. \A v, w \in Arrived : v.at = w.at => v = w
    BY <2>1 DEF StreamInv
  <2>4. \A w \in Arrived : Seen(stream, torn, w).text = Decode(w.text) <=> ~Torn(w)
    BY <2>1, SeenIntact
  <2> QED
    BY <2>1, <2>2, <2>3, <2>4
<1> QED
  BY <1>1, ReaderInvariant, PTL

\* A session is never ended for a reply that is shorter than the cap by a chunk.
THEOREM ReaderNoEarlyOverflow == ReaderSpec => []NoEarlyOverflow
<1>1. ReaderInv => NoEarlyOverflow
  BY DEF ReaderInv
<1> QED
  BY <1>1, ReaderInvariant, PTL

-----------------------------------------------------------------------------
(* The parts together.                                                       *)

\* Each part runs as it would alone.
LEMMA PartsRun == Spec => QueueSpec /\ LimiterSpec /\ ReaderSpec
<1>1. Init => QueueInit /\ LimiterInit /\ ReaderInit
  BY DEF Init
<1>2. [Next]_vars =>
        [QueueNext]_queueVars /\ [LimiterNext]_limiterVars /\ [ReaderNext]_readerVars
  BY DEF Next, vars
<1> QED
  BY <1>1, <1>2, PTL DEF Spec, QueueSpec, LimiterSpec, ReaderSpec

\* The queue, the limiter and the reader keep their types.
THEOREM PartsTypeOK == Spec => []TypeOK
<1>1. QueueInv /\ LimiterInv /\ ReaderInv => TypeOK
  BY DEF QueueInv, LimiterInv, ReaderInv, TypeOK
<1> QED
  BY <1>1, PartsRun, QueueInvariant, LimiterInvariant, ReaderInvariant, PTL
================================================================================
