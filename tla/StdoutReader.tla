------------------------------ MODULE StdoutReader ------------------------------
(***************************************************************************)
(* The reader of the container's stdout (src/cli.ts, dockerStdout's 'data' *)
(* handler): it takes the stream in chunks, decodes each, and cuts what    *)
(* has come so far into lines, one reply each.  The characters that wait   *)
(* for their newline are capped.                                           *)
(*                                                                         *)
(* A character is one byte, "a", or two, "lead" and "trail".  Decoded      *)
(* text keeps the places of its bytes: the two-byte character is "e" at    *)
(* its first place and "void" at its second, and a byte of a torn one is   *)
(* "bad", the replacement character.                                       *)
(***************************************************************************)
EXTENDS Integers, Sequences, FiniteSets

CONSTANTS
  Text,      \* the replies the container may write, in bytes
  MaxLines,  \* bound on the replies
  MaxChunk,  \* the longest chunk the stream delivers, in bytes
  Cap        \* MAX_MCP_BUFFER_BYTES, which counts decoded characters

\* Replies are not empty, hold no newline, and their characters are whole.
ASSUME ReaderAssumption ==
  /\ Text \subseteq Seq({"a", "lead", "trail"})
  /\ \A text \in Text :
       /\ text # <<>>
       /\ \A k \in 1..Len(text) :
            /\ text[k] = "lead" => k < Len(text) /\ text[k + 1] = "trail"
            /\ text[k] = "trail" => k > 1 /\ text[k - 1] = "lead"
  /\ MaxLines \in Nat /\ MaxChunk \in Nat /\ Cap \in Nat

VARIABLES
  stream,     \* the bytes the container wrote
  written,    \* the replies they are, each with the place of its newline
  read,       \* how many bytes have arrived
  mcpBuffer,  \* the decoded text without a newline
  got,        \* the lines handed to JSON.parse, with the places of their newlines
  torn,       \* the places at which a chunk ended inside a character
  over        \* the buffer has overflowed, and the session is being ended

readerVars == <<stream, written, read, mcpBuffer, got, torn, over>>

ReaderInit ==
  /\ stream = <<>> /\ written = {} /\ read = 0
  /\ mcpBuffer = <<>> /\ got = {}
  /\ torn = {} /\ over = FALSE

\* chunk.toString(): each chunk by itself.
Decode(chunk) ==
  [k \in 1..Len(chunk) |->
     CASE chunk[k] = "lead"  -> IF k < Len(chunk) THEN "e" ELSE "bad"
       [] chunk[k] = "trail" -> IF k > 1 THEN "void" ELSE "bad"
       [] OTHER -> chunk[k]]

\* The place of the last newline among the first m, or 0.
LastNewline(text, m) ==
  CHOOSE i \in 0..m : (i = 0 \/ text[i] = "nl") /\ \A k \in (i + 1)..m : text[k] # "nl"

\* text.split('\n') but for its last piece, without the empty ones ...
LinesOf(text, from) ==
  {line \in {[at   |-> from + j,
              text |-> SubSeq(text, LastNewline(text, j - 1) + 1, j - 1)] :
              j \in {j \in 1..Len(text) : text[j] = "nl"}} : line.text # <<>>}

\* Mutant: what follows the last newline is dropped.
RestDropped(text) == <<>>

\* ... which stays in the buffer.
Rest(text) == SubSeq(text, LastNewline(text, Len(text)) + 1, Len(text))

Chars(text) == Cardinality({k \in 1..Len(text) : text[k] # "void"})

\* Mutant: a buffer that is just full counts as too long.
OverflowsFull(text) == Chars(text) >= Cap

Overflows(text) == Chars(text) > Cap

\* The MCP server writes a reply and its newline at once.
WriteReply(text) ==
  /\ Cardinality(written) < MaxLines
  /\ stream' = stream \o Append(text, "nl")
  /\ written' = written \cup {[at |-> Len(stream) + Len(text) + 1, text |-> text]}
  /\ UNCHANGED <<read, mcpBuffer, got, torn, over>>

\* The next n bytes arrive, also while the process ends.
ReadChunk(n) ==
  LET text == mcpBuffer \o Decode(SubSeq(stream, read + 1, read + n))
  IN  /\ read + n <= Len(stream)
      /\ read' = read + n
      /\ torn' = IF stream[read + n] = "lead" THEN torn \cup {read + n} ELSE torn
      /\ \/ /\ Overflows(text)
            /\ mcpBuffer' = <<>> /\ over' = TRUE /\ UNCHANGED got
         \/ /\ ~Overflows(text)
            /\ got' = got \cup LinesOf(text, read - Len(mcpBuffer))
            /\ mcpBuffer' = Rest(text) /\ UNCHANGED over
      /\ UNCHANGED <<stream, written>>

ReaderNext ==
  \/ \E text \in Text : WriteReply(text)
  \/ \E n \in 1..MaxChunk : ReadChunk(n)

ReaderSpec == ReaderInit /\ [][ReaderNext]_readerVars

-----------------------------------------------------------------------------
Byte    == {"a", "lead", "trail", "nl"}
Decoded == {"a", "e", "void", "bad", "nl"}

ReaderTypeOK ==
  /\ stream \in Seq(Byte)
  /\ written \subseteq [at : 1..Len(stream), text : Text]
  /\ read \in 0..Len(stream)
  /\ mcpBuffer \in Seq(Decoded)
  /\ got \subseteq [at : 1..read, text : Seq(Decoded)]
  /\ torn \subseteq 1..read
  /\ over \in BOOLEAN

\* The place before the first byte of a reply, and whether it was torn.
Start(w) == w.at - 1 - Len(w.text)
Torn(w)  == \E k \in 1..Len(w.text) : Start(w) + k \in torn

Arrived == {w \in written : w.at <= read}

\* However the stream is cut into chunks, the replies come out complete, one
\* line each, and each as it was written: except that a chunk's end inside a
\* character always spoils that reply (each chunk is decoded by itself).
LinesIntact ==
  ~over =>
    /\ {line.at : line \in got} = {w.at : w \in Arrived}
    /\ \A line \in got, w \in Arrived :
         line.at = w.at => (line.text = Decode(w.text) <=> ~Torn(w))
    /\ \A line1, line2 \in got : line1.at = line2.at => line1 = line2

\* A reply shorter, in bytes, than the cap by a chunk never ends the session: the
\* cap counts characters, of which torn ones make two, and it is tested before the
\* lines are cut, so that what follows a reply in its chunk counts as well.
NoEarlyOverflow ==
  over => \E w \in written : Len(w.text) + MaxChunk > Cap

-----------------------------------------------------------------------------
(* Why they hold.                                                            *)

\* The stream is its replies, one after the other, each with its newline.
LineStart(bytes, p) == p = 0 \/ bytes[p] = "nl"

StreamInv ==
  /\ \A w \in written :
       /\ Start(w) \in Nat /\ LineStart(stream, Start(w)) /\ stream[w.at] = "nl"
       /\ \A k \in 1..Len(w.text) : stream[Start(w) + k] = w.text[k]
  /\ \A p \in 1..Len(stream) : \E w \in written : Start(w) < p /\ p <= w.at
  /\ \A v, w \in written : v.at = w.at => v = w

\* A place is torn where a chunk ended on the first byte of a character.
TornInv ==
  /\ \A p \in torn : stream[p] = "lead"
  /\ read > 0 /\ stream[read] = "lead" => read \in torn

\* What a place of the stream is decoded to.
Place(bytes, cuts, p) ==
  CASE bytes[p] = "lead"  -> IF p \in cuts THEN "bad" ELSE "e"
    [] bytes[p] = "trail" -> IF p - 1 \in cuts THEN "bad" ELSE "void"
    [] OTHER -> bytes[p]

Seen(bytes, cuts, w) ==
  [at |-> w.at, text |-> [k \in 1..Len(w.text) |-> Place(bytes, cuts, Start(w) + k)]]

\* The buffer is what was read last, without a newline: until an overflow drops
\* its first part, the last line as far as it was read.
BufferInv ==
  LET from == read - Len(mcpBuffer)
  IN  /\ from \in Nat /\ (over \/ LineStart(stream, from))
      /\ \A k \in 1..Len(mcpBuffer) :
           mcpBuffer[k] = Place(stream, torn, from + k) /\ mcpBuffer[k] # "nl"

\* The lines that were handed on are the replies that arrived.
GotInv == ~over => got = {Seen(stream, torn, w) : w \in Arrived}

ReaderInv ==
  ReaderTypeOK /\ StreamInv /\ TornInv /\ BufferInv /\ GotInv /\ NoEarlyOverflow
================================================================================
