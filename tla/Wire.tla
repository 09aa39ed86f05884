-------------------------------- MODULE Wire --------------------------------
(***************************************************************************)
(* An open /sample stream: the multipart body cut into chunks by the       *)
(* transport, the incremental splitter that frames it                      *)
(* (src/src/mtconnect/multipart.rs), and the loop that reads it            *)
(* (stream.rs; drive_stream and handle_part of mod.rs).                    *)
(*                                                                         *)
(* Bytes are tokens: a line break, the two dashes, the boundary, a header  *)
(* line, a piece of text.  Sizes count tokens.  A chunk may end between    *)
(* any two of them.  What a document holds is Acquisition's; here it is    *)
(* the kind its first token names.                                         *)
(***************************************************************************)
EXTENDS Integers, Sequences, FiniteSets, SequencesExt

CONSTANTS
  Tokens,          \* the alphabet
  Scripts,         \* what an agent may send: sequences of parts
  Stream,          \* [Scripts -> the tokens of the stream]
  StartOf,         \* [Scripts -> how many of them precede each part, and the epilogue]
  LengthOf,        \* [the Content-length lines -> the lengths they declare]
  BadLines,        \* lines without a colon, or with a length that is no number
  MaxPart,         \* max_part_bytes
  MaxPartHeader,   \* MAX_PART_HEADER_BYTES
  MaxChunk,        \* the transport's largest chunk
  MaxUndecodable,  \* MAX_CONSECUTIVE_UNDECODABLE
  Window           \* twice the heartbeat, in units of time

ASSUME SizesNat   == MaxPart \in Nat \ {0} /\ MaxPartHeader \in Nat /\ MaxChunk \in Nat \ {0}
ASSUME CountsNat  == MaxUndecodable \in Nat \ {0} /\ Window \in Nat \ {0}

VARIABLES
  script,   \* the parts the agent sends on this stream
  arrived,  \* how many of its tokens the transport has delivered
  buffer, state, need,  \* MultipartReader: the buffer, where it is, the declared length
  pc,       \* the loop: awaiting a chunk, or splitting what it holds
  exit,     \* StreamExit
  handled,  \* history: the bodies handed to handle_part
  undecodable,  \* the loop's run of parts it could not use
  age       \* time since the watch was touched

reader == <<buffer, state, need>>
loop   == <<handled, undecodable, age>>
vars   == <<script, arrived, reader, pc, exit, loop>>

Break    == "\n"
Marker   == <<"--", "b">>
Delim    == <<Break>> \o Marker
Undeclared == -1

\* A header line: Content-length with its value, or one this client ignores.
IsLength(token) == token \in DOMAIN LengthOf
LengthLine(n) == CHOOSE t \in DOMAIN LengthOf : LengthOf[t] = n

ASSUME LinesDeclare ==
  /\ LengthOf \in [DOMAIN LengthOf -> Nat] /\ DOMAIN LengthOf \cap {"type", Break} = {}
  /\ BadLines \cap ({"type", Break} \cup DOMAIN LengthOf) = {}
  /\ {Break, "--", "b", "type"} \cup DOMAIN LengthOf \cup BadLines \subseteq Tokens

----------------------------------------------------------------------------
(* The agent's side: a part is what comes before its marker, its first     *)
(* header line, whether its length is declared, and its body.              *)

Headers(p) == IF p.declared THEN <<p.first, Break, LengthLine(Len(p.body)), Break>>
                            ELSE <<p.first, Break>>

Lead(p)  == p.junk \o Marker \o <<Break>> \o Headers(p) \o <<Break>>
Sent(p)  == Lead(p) \o p.body \o <<Break>>

\* The stream ends with the terminator and an epilogue nobody reads.
Epilogue == Marker \o <<"--", Break>>

\* The stream is its parts, one after another, and the epilogue.
LiesAt(stream, place, tokens) ==
  /\ place + Len(tokens) <= Len(stream)
  /\ \A j \in DOMAIN tokens : stream[place + j] = tokens[j]
Parts == Seq([junk : Seq(Tokens), first : {"type"} \cup BadLines,
              declared : BOOLEAN, body : Seq(Tokens)])

ASSUME StreamIsItsParts ==
  \A s \in Scripts :
    /\ s \in Parts /\ Stream[s] \in Seq(Tokens)
    /\ StartOf[s] \in [1..Len(s) + 1 -> Nat] /\ StartOf[s][1] = 0
    /\ \A i \in DOMAIN s : /\ StartOf[s][i + 1] = StartOf[s][i] + Len(Sent(s[i]))
                           /\ LiesAt(Stream[s], StartOf[s][i], Sent(s[i]))
    /\ Len(Stream[s]) = StartOf[s][Len(s) + 1] + Len(Epilogue)
    /\ LiesAt(Stream[s], StartOf[s][Len(s) + 1], Epilogue)

\* What it sends can be told apart: there is no marker in the text before one,
\* nor in a body that ends at one, and such a body's marker follows at once.
Before(text, end) == \A k \in DOMAIN text :
                       SubSeq(text \o end, k, k + Len(end) - 1) # end

ASSUME PartsCanBeFramed ==
  \A s \in Scripts : \A i \in DOMAIN s :
    /\ Before(s[i].junk, Marker)
    /\ s[i].declared => \E line \in DOMAIN LengthOf : LengthOf[line] = Len(s[i].body)
    /\ ~s[i].declared => Before(s[i].body, Delim)
    /\ ~s[i].declared /\ i < Len(s) => s[i + 1].junk = <<>>

Body == Stream[script]

----------------------------------------------------------------------------
(* The splitter (MultipartReader).                                         *)

\* find: the place of the first occurrence, or 0.
Find(s, needle) ==
  LET at == {i \in 1..Len(s) - Len(needle) + 1 : SubSeq(s, i, i + Len(needle) - 1) = needle}
  IN  IF at = {} THEN 0 ELSE Min(at)

Rest(s, n) == SubSeq(s, n + 1, Len(s))

\* One turn of next_part's loop: the reader after it, and what it gives: "more" to
\* go round again, "none" to wait for bytes, "error", or the body of a part.
Turn(buf, st, len) == [buf |-> buf, st |-> st, len |-> len]
More(r)    == [r |-> r, gives |-> "more",  body |-> <<>>]
None(r)    == [r |-> r, gives |-> "none",  body |-> <<>>]
Fail(r)    == [r |-> r, gives |-> "error", body |-> <<>>]
Gives(r, b) == [r |-> r, gives |-> "part", body |-> b]

\* Mutant: what cannot be a marker is dropped whole.
SeekDropsTail(r) ==
  LET i == Find(r.buf, Marker)
  IN  IF i > 0 THEN More(Turn(Rest(r.buf, i + Len(Marker) - 1), "AfterMarker", Undeclared))
               ELSE None(Turn(<<>>, "Seek", Undeclared))

\* Junk is discarded, except a tail that may be the start of a marker.
Seek(r) ==
  LET i    == Find(r.buf, Marker)
      keep == IF Len(Marker) - 1 < Len(r.buf) THEN Len(Marker) - 1 ELSE Len(r.buf)
  IN  IF i > 0 THEN More(Turn(Rest(r.buf, i + Len(Marker) - 1), "AfterMarker", Undeclared))
               ELSE None(Turn(Rest(r.buf, Len(r.buf) - keep), "Seek", Undeclared))

AfterMarker(r) ==
  IF r.buf = <<>> THEN None(r)
  ELSE CASE Head(r.buf) = "--"   -> None(Turn(<<>>, "Finished", Undeclared))
         [] Head(r.buf) = Break  -> More(Turn(Tail(r.buf), "Headers", Undeclared))
         [] OTHER                -> Fail(r)

\* parse_part_headers: the last declared length counts.
DeclaredIn(lines) ==
  LET at == {i \in DOMAIN lines : IsLength(lines[i])}
  IN  IF at = {} THEN Undeclared ELSE LengthOf[lines[Max(at)]]

\* A line it cannot read spoils the block, once the block is complete.
Unreadable(lines) == \E i \in DOMAIN lines : lines[i] \in BadLines

HeaderBlock(r) ==
  LET i     == Find(r.buf, <<Break, Break>>)
      lines == SubSeq(r.buf, 1, i - 1)
      len   == DeclaredIn(lines)
  IN  CASE i = 0 -> IF Len(r.buf) > MaxPartHeader THEN Fail(r) ELSE None(r)
        [] i > 0 -> IF Unreadable(lines) \/ len > MaxPart
                    THEN Fail(r)
                    ELSE More(Turn(Rest(r.buf, i + 1), "Body", len))

\* A declared length is trusted, so a body may hold bytes that look like a marker.
DeclaredBody(r) ==
  IF Len(r.buf) < r.len THEN None(r)
  ELSE Gives(Turn(Rest(r.buf, r.len), "Seek", Undeclared), SubSeq(r.buf, 1, r.len))

\* Otherwise it runs to the next marker, which is left for Seek.
DelimitedBody(r) ==
  LET i    == Find(r.buf, Delim)
      body == SubSeq(r.buf, 1, i - 1)
  IN  CASE i = 0 -> IF Len(r.buf) > MaxPart + Len(Delim) THEN Fail(r) ELSE None(r)
        [] i > 0 -> IF Len(body) > MaxPart THEN Fail(r)
                    ELSE Gives(Turn(Rest(r.buf, i), "Seek", Undeclared), body)

BodyOf(r) == IF r.len = Undeclared THEN DelimitedBody(r) ELSE DeclaredBody(r)

next_part(r) ==
  CASE r.st = "Seek"        -> Seek(r)
    [] r.st = "AfterMarker" -> AfterMarker(r)
    [] r.st = "Headers"     -> HeaderBlock(r)
    [] r.st = "Body"        -> BodyOf(r)
    [] r.st = "Finished"    -> None(Turn(<<>>, "Finished", Undeclared))

\* push: the cap is on everything held, complete parts of the same chunk included.
OverCap(n) == Len(buffer) + n > MaxPart + MaxPartHeader

----------------------------------------------------------------------------
(* The reading loop (drive_stream).                                        *)

Init ==
  /\ script \in Scripts /\ arrived = 0
  /\ buffer = <<>> /\ state = "Seek" /\ need = Undeclared
  /\ pc = "await" /\ exit = "none"
  /\ handled = <<>> /\ undecodable = 0 /\ age = 0

Open == exit = "none"
Leave(how) == exit' = how

\* The next chunk, of any size, is taken in or is one too many.
Chunk(n) ==
  /\ Open /\ pc = "await" /\ arrived + n <= Len(Body)
  /\ arrived' = arrived + n
  /\ IF OverCap(n)
     THEN Leave("Malformed") /\ UNCHANGED <<buffer, pc>>
     ELSE /\ buffer' = buffer \o SubSeq(Body, arrived + 1, arrived + n)
          /\ pc' = "split"
          /\ UNCHANGED exit
  /\ UNCHANGED <<script, state, need, loop>>

Here == next_part(Turn(buffer, state, need))

After(r) == buffer' = r.buf /\ state' = r.st /\ need' = r.len

Splitting(gives) == Open /\ pc = "split" /\ Here.gives = gives

\* The splitter goes round, or what it finds cannot be framed.
Split ==
  /\ Splitting("more")
  /\ After(Here.r)
  /\ UNCHANGED <<script, arrived, pc, exit, loop>>

Unframeable ==
  /\ Splitting("error")
  /\ Leave("Malformed")
  /\ UNCHANGED <<script, arrived, reader, pc, loop>>

\* It wants more bytes: back to the select, unless the terminator was seen.
Starved ==
  /\ Splitting("none")
  /\ After(Here.r)
  /\ pc' = "await"
  /\ IF Here.r.st = "Finished" THEN Leave("EndOfStream") ELSE UNCHANGED exit
  /\ UNCHANGED <<script, arrived, loop>>

\* classify_part: a document of another kind, or none at all, proves nothing.
Kinds   == {"obs", "beat", "error", "range", "restart", "html"}
Kind(b) == IF b # <<>> /\ Head(b) \in Kinds THEN Head(b) ELSE "html"
IsLiveness(b) == Kind(b) # "html"

\* Mutant: the run of undecodable parts is not broken by a good one.
CountNoReset(b) ==
  /\ undecodable' = IF IsLiveness(b) THEN undecodable ELSE undecodable + 1
  /\ age' = IF IsLiveness(b) THEN 0 ELSE age

\* A part that proves the agent alive ends a run of undecodable ones and touches
\* the watch.
Count(b) ==
  /\ undecodable' = IF IsLiveness(b) THEN 0 ELSE undecodable + 1
  /\ age' = IF IsLiveness(b) THEN 0 ELSE age

\* handle_part, and what its outcome does to the stream.
Handle ==
  /\ Splitting("part")
  /\ After(Here.r)
  /\ LET b == Here.body
     IN  /\ handled' = Append(handled, b)
         /\ Count(b)
         /\ CASE Kind(b) = "restart" -> Leave("InstanceChanged")
              [] Kind(b) = "range"   -> Leave("OutOfRange")
              [] Kind(b) = "html" /\ undecodable' >= MaxUndecodable -> Leave("Malformed")
              [] OTHER -> UNCHANGED exit
  /\ UNCHANGED <<script, arrived, pc>>

\* The transport fails, or the agent hangs up.
Cut(how) ==
  /\ Open /\ pc = "await"
  /\ Leave(how)
  /\ UNCHANGED <<script, arrived, reader, pc, loop>>

\* The arm of the watch: ready once the window is over, chunks or no chunks.
Missed ==
  /\ Open /\ pc = "await" /\ age >= Window
  /\ Leave("HeartbeatMissed")
  /\ UNCHANGED <<script, arrived, reader, pc, loop>>

\* Time passes while the loop waits; past the window it makes no difference.
Tick ==
  /\ Open /\ pc = "await" /\ age < Window
  /\ age' = age + 1
  /\ UNCHANGED <<script, arrived, reader, pc, exit, handled, undecodable>>

Next ==
  \/ \E n \in 1..MaxChunk : Chunk(n)
  \/ Split \/ Unframeable \/ Starved \/ Handle
  \/ \E how \in {"TransportLost", "EndOfStream"} : Cut(how)
  \/ Missed \/ Tick

Spec == Init /\ [][Next]_vars

----------------------------------------------------------------------------
(* Properties.                                                             *)

Bodies == [i \in DOMAIN script |-> script[i].body]

\* The place in the stream where part i is known to be whole: at its last token
\* if its length was declared, else at the marker that follows it.
WholeAt(i) == StartOf[script][i] + Len(Lead(script[i])) + Len(script[i].body)
              + IF script[i].declared THEN 0 ELSE Len(Delim)

\* The parts handed on are the parts the agent sent, whole, in order, each once,
\* wherever the transport cut the stream and whatever lies between them
\* (next_part); and a loop that goes back to waiting has handed on every part
\* that is whole: no document sits in the buffer until the next chunk (the
\* inner loop of drive_stream).
PartsAsSent ==
  /\ IsPrefix(handled, Bodies)
  /\ pc = "await" /\ Open =>
       \A i \in DOMAIN script : WholeAt(i) <= arrived => Len(handled) >= i

Unfit(i) == i \in DOMAIN script /\ (Len(script[i].body) > MaxPart \/ script[i].first \in BadLines)
LongHead(i) == i \in DOMAIN script /\ Len(Headers(script[i])) > MaxPartHeader
ThreeInARow ==
  LET n == Len(handled)
  IN  n >= MaxUndecodable /\ \A k \in n - MaxUndecodable + 1..n : ~IsLiveness(handled[k])

\* The part the stream was dropped at is at fault, or the run that ends with it.
AtFault == LET i == Len(handled) + 1 IN ThreeInARow \/ Unfit(i) \/ LongHead(i)

\* More has arrived behind the last part handed on than the cap on what is held.
Crowded == arrived + 1 - StartOf[script][Len(handled) + 1] > MaxPart + MaxPartHeader

\* A stream is dropped as malformed for the third undecodable part in a row, for a
\* part over the cap or with headers that cannot be read or are too many, or because
\* more than the cap arrived since the last part; at the third it is dropped at once,
\* and a part over the cap or with unreadable headers is never handed on (push,
\* next_part, drive_stream).
DroppedForCause ==
  /\ exit = "Malformed" => AtFault \/ Crowded
  /\ ThreeInARow => exit = "Malformed"
  /\ \A i \in DOMAIN handled : ~Unfit(i)

\* A stream whose parts are all within the cap is read: it is the incomplete part
\* that may not exceed the cap (the doc of push, multipart.rs:153).  The code counts
\* all it holds and the whole of the chunk, complete parts included, so this does not
\* hold (MCWire, with MaxPartHeader 4 and MaxChunk 6).
DroppedAtAPart == exit = "Malformed" => AtFault
=============================================================================
