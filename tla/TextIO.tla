------------------------------- MODULE TextIO -------------------------------
(***************************************************************************)
(* How reports leave and /proc files enter the process without malloc:     *)
(* GenericWriter over a file descriptor, a std::string or a list of chunks *)
(* (base/generic_writer.h, .cc), and ForEachLine (base/for_each_line.h).   *)
(* Text is numbered as it is written; of what is read only the newlines    *)
(* matter.                                                                 *)
(***************************************************************************)
EXTENDS Integers, Sequences, SequencesExt, FiniteSetsExt

CONSTANTS TxFormats,   \* lengths of AppendF's output, below kSize
          TxMems,      \* lengths of AppendMem's argument
          kSize,       \* the file descriptor writer's static buffer
          ChunkBuffer, \* config.buffer_size
          ChunkHeader, \* sizeof(Chunk) - 1
          TxLength,    \* bound on the text written
          BufSize,     \* ForEachLine's buffer
          TxInputs     \* texts read: sequences over {"x", "nl"}

VARIABLES wr,   \* a writer, if there is one
          rd    \* a call of ForEachLine, if there is one

txVars == <<wr, rd>>

-----------------------------------------------------------------------------
\* Writers.  fill is what is between buf_ and buf_fill_, room the size of the
\* buffer.  For a string, whose buffer is its unused end, size and unused are
\* kept; for chunks, their texts, newest first.

NewWriter(kind, before) ==
  [kind |-> kind, fill |-> << >>, rest |-> << >>, room |-> 0, written |-> before, out |-> before,
   size |-> Len(before), unused |-> 0, chunks |-> << >>, done |-> FALSE]

\* RecycleBuffer of the three writers: what is filled is kept, and there is
\* room for want characters; the file descriptor's buffer has the room it has.
Flushed(w) == [w EXCEPT !.out = @ \o w.fill, !.fill = << >>]

FdRecycle(w) == [Flushed(w) EXCEPT !.room = kSize]

StringRecycle(w, want) ==
  LET unused == w.unused - Len(w.fill)
      deficit == want - unused
      size == IF deficit > 0 THEN Max({w.size + deficit, w.size * 2}) ELSE w.size
      left == unused + size - w.size
  IN  [Flushed(w) EXCEPT !.size = size, !.unused = left, !.room = left]

AppendChunk(w, want) ==
  [w EXCEPT !.chunks = << << >> >> \o @,
            !.room = Max({want + ChunkHeader + 1, ChunkBuffer}) - ChunkHeader]

ChunkRecycle(w, want) ==
  LET closed == IF w.chunks = << >> THEN w ELSE [w EXCEPT !.chunks[1] = w.fill, !.fill = << >>]
  IN  IF want = 0 THEN [closed EXCEPT !.room = 0] ELSE AppendChunk(closed, want)

RecycleBuffer(w, want) ==
  CASE w.kind = "fd" -> FdRecycle(w)
    [] w.kind = "string" -> StringRecycle(w, want)
    [] w.kind = "chunks" -> ChunkRecycle(w, want)

Text(w, n) == [i \in 1 .. n |-> Len(w.written) + i]
Noted(w, n) == [w EXCEPT !.written = @ \o Text(w, n)]


\* vsnprintf needs room for a terminator, too.
AppendF(w, n) ==
  LET v == IF n >= w.room - Len(w.fill) THEN RecycleBuffer(w, n + 1) ELSE w
  IN  [Noted(v, n) EXCEPT !.fill = @ \o SubSeq(Text(w, n), 1, Min({n, v.room - Len(v.fill) - 1}))]

\* One turn of AppendMem's loop: as much as fits, then a fresh buffer if there
\* is more.
AppendMem(w) ==
  LET amount == Min({Len(w.rest), w.room - Len(w.fill)})
      v == [w EXCEPT !.fill = @ \o SubSeq(w.rest, 1, amount),
                     !.rest = SubSeq(@, amount + 1, Len(@))]
  IN  IF v.rest = << >> THEN v ELSE RecycleBuffer(v, 1)

\* The chunks are copied together, oldest first, and freed.
StrDupAndRelease(w) ==
  [w EXCEPT !.out = @ \o FlattenSeq(Reverse(w.chunks)), !.chunks = << >>]

\* The destructors: the rest is kept, and the string cut to what was written.
FinalRecycle(w) ==
  LET v == RecycleBuffer(w, 0)
  IN  [StrDupAndRelease(v) EXCEPT !.size = @ - v.unused, !.unused = 0, !.done = TRUE]

Write ==
  /\ wr.kind # "none" /\ ~wr.done
  /\ IF wr.rest # << >> THEN wr' = AppendMem(wr)
     ELSE \/ \E n \in TxFormats : Len(wr.written) + n <= TxLength /\ wr' = AppendF(wr, n)
          \/ \E n \in TxMems : /\ Len(wr.written) + n <= TxLength
                               /\ wr' = AppendMem([Noted(wr, n) EXCEPT !.rest = Text(wr, n)])
          \/ wr' = FinalRecycle(wr)
  /\ UNCHANGED rd

-----------------------------------------------------------------------------
\* ForEachLine.  buf is what is between sbuf and ebuf, off is sbuf - buf.

NewReader(input) == [all |-> input, input |-> input, buf |-> << >>, off |-> 0, eof |-> FALSE,
                     lines |-> << >>, result |-> "none"]

Cap == BufSize - 1  \* one byte is left for a newline
NewlineAt(s) == {i \in DOMAIN s : s[i] = "nl"}

\* The first line of the buffer goes to the body, which may want no more.
GiveLine(r) ==
  LET at == Min(NewlineAt(r.buf)) IN
  /\ NewlineAt(r.buf) # {}
  /\ \E stop \in BOOLEAN :
       rd' = [r EXCEPT !.lines = Append(@, at - 1), !.off = @ + at,
                       !.buf = SubSeq(@, at + 1, Len(@)), !.result = IF stop THEN "stopped" ELSE @]

\* Nothing more comes: done, or the last line has no newline.
AtEof(r) ==
  /\ NewlineAt(r.buf) = {} /\ r.eof
  /\ rd' = IF r.buf = << >> THEN [r EXCEPT !.result = "done"] ELSE [r EXCEPT !.buf = Append(@, "nl")]

\* The text is moved to the start, and the reader adds some, perhaps less than
\* there is room for.
ReadMore(r) ==
  /\ NewlineAt(r.buf) = {} /\ ~r.eof
  /\ IF r.off = 0 /\ Len(r.buf) = Cap THEN rd' = [r EXCEPT !.result = "failed"]
     ELSE \E n \in 0 .. Min({Cap - Len(r.buf), Len(r.input)}) :
            /\ n = 0 => r.input = << >>
            /\ rd' = [r EXCEPT !.off = 0, !.buf = @ \o SubSeq(r.input, 1, n), !.eof = n = 0,
                               !.input = SubSeq(@, n + 1, Len(@))]

ReadLines ==
  /\ rd.result = "none"
  /\ GiveLine(rd) \/ AtEof(rd) \/ ReadMore(rd)
  /\ UNCHANGED wr

TxInit ==
  \/ /\ rd = [result |-> "off"]
     /\ \E k \in {"fd", "string", "chunks"} : wr = NewWriter(k, IF k = "string" THEN <<1>> ELSE << >>)
  \/ wr = [kind |-> "none"] /\ \E input \in TxInputs : rd = NewReader(input)

TxNext == Write \/ ReadLines
TxSpec == TxInit /\ [][TxNext]_txVars

-----------------------------------------------------------------------------
\* What was appended, in whatever pieces, comes out once and in order when the
\* writer is gone, no buffer is filled beyond its end, and the string is as
\* long as its text (GenericWriter and its three subclasses).
WriterWhole ==
  wr.kind # "none" =>
    /\ Len(wr.fill) <= wr.room
    /\ wr.done => wr.out = wr.written /\ (wr.kind = "string" => wr.size = Len(wr.written))

\* The lines of a text, as lengths; a last one without newline counts.
Lines(s) ==
  LET ends == SetToSortSeq(NewlineAt(s) \cup (IF s # << >> /\ s[Len(s)] # "nl" THEN {Len(s) + 1} ELSE {}),
                           <)
  IN  [i \in DOMAIN ends |-> ends[i] - 1 - (IF i = 1 THEN 0 ELSE ends[i - 1])]

\* Whatever the sizes of the reads, the body gets the lines of the text in
\* order, all of them unless it stops; the call fails exactly when a line
\* leaves no room for its newline, and writes only within its buffer.
LinesExact ==
  rd.result # "off" => LET want == Lines(rd.all) IN
    /\ rd.off + Len(rd.buf) <= BufSize
    /\ IsPrefix(rd.lines, want)
    /\ rd.result = "done" => rd.lines = want /\ \A i \in DOMAIN want : want[i] < Cap
    /\ rd.result = "failed" => want[Len(rd.lines) + 1] >= Cap

=============================================================================
