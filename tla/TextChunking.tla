----------------------------- MODULE TextChunking -----------------------------
(* rag/chunking.py: a document's text is normalised and cut into overlapping *)
(* chunks that prefer to end at a paragraph, sentence, line or word.  A text *)
(* is a sequence of characters, "stop" being the ideographic full stop; a    *)
(* slice is the positions, from 0, from its start up to and without its end. *)
EXTENDS Integers, Sequences, SequencesExt, FiniteSets

IsSpace(c) == c \in {"\n", " "}
Blank(s) == s = <<>> \/ IsSpace(Last(s))
TwoLines(s) == Len(s) >= 2 /\ s[Len(s)] = "\n" /\ s[Len(s) - 1] = "\n"

\* normalize_text: spaces are collapsed, lines trimmed, and at most one blank line
\* stays between two others.
NormalizeNext(s, c) ==
  LET line == IF s # <<>> /\ Last(s) = " " THEN Front(s) ELSE s
  IN CASE c = " " -> IF Blank(s) THEN s ELSE Append(s, c)
       [] c = "\n" -> IF s = <<>> \/ TwoLines(line) THEN s ELSE Append(line, c)
       [] OTHER -> Append(s, c)

\* The ends are trimmed: what is left there is one space, or at most two newlines.
normalize_text(text) ==
  LET read[n \in 0 .. Len(text)] ==
        IF n = 0 THEN <<>> ELSE NormalizeNext(read[n - 1], text[n])
      s == read[Len(text)]
  IN IF TwoLines(s) THEN Front(Front(s)) ELSE IF s # <<>> /\ Blank(s) THEN Front(s) ELSE s

-----------------------------------------------------------------------------
(* split_text *)

At(text, position) == text[position + 1]
Follows(text, p, characters) ==
  \A k \in DOMAIN characters : p + k <= Len(text) /\ text[p + k] = characters[k]

Separators == {<<"\n", "\n">>, <<"stop">>, <<".", " ">>, <<"\n">>, <<" ">>}

\* The last separator in the second half of the slice, which keeps the mark of a
\* sentence and the first newline of a paragraph.
preferred_boundary(text, start, target_end) ==
  LET minimum_boundary == start + (target_end - start) \div 2
      candidates == {p \in minimum_boundary .. (target_end - 1) :
                       \E s \in Separators : p + Len(s) <= target_end /\ Follows(text, p, s)}
      boundary == CHOOSE b \in candidates : \A c \in candidates : c <= b
  IN IF target_end = Len(text) \/ candidates = {} THEN target_end
     ELSE IF \E s \in {<<"\n", "\n">>, <<".", " ">>, <<"stop">>} : Follows(text, boundary, s)
          THEN boundary + 1 ELSE boundary

LargerOf(a, b) == IF a >= b THEN a ELSE b

\* Defect used to test TextIsKept: without overlap, the boundary is taken for a space
\* and stepped over.
next_start_after_space(text, start, end, overlap) ==
  LargerOf(IF overlap = 0 THEN end + 1 ELSE end - overlap, start + 1)

\* From the overlap on, but always forward, to the first visible character before end.
next_start(text, start, end, overlap) ==
  LET p == LargerOf(end - overlap, start + 1)
  IN CHOOSE q \in p .. LargerOf(p, end) :
       /\ \A r \in p .. (q - 1) : IsSpace(At(text, r))
       /\ q >= end \/ ~IsSpace(At(text, q))

Visible(text, start, end) == {p \in start .. (end - 1) : ~IsSpace(At(text, p))}

\* The slice without the spaces at its ends, or nothing.
Chunk(text, start, end) ==
  LET visible == Visible(text, start, end)
  IN IF visible = {} THEN <<>>
     ELSE << [start_character |-> CHOOSE p \in visible : \A q \in visible : p <= q,
              end_character |-> 1 + CHOOSE p \in visible : \A q \in visible : q <= p] >>

split_text(text, max_characters, overlap_characters) ==
  LET chunks[start \in 0 .. Len(text)] ==
        LET furthest == start + max_characters
            end == preferred_boundary(text, start, IF furthest < Len(text) THEN furthest ELSE Len(text))
        IN Chunk(text, start, end) \o
             IF end = Len(text) THEN <<>>
             ELSE chunks[next_start(text, start, end, overlap_characters)]
  IN IF text = <<>> THEN <<>> ELSE chunks[0]

-----------------------------------------------------------------------------

\* Two texts show the same characters in the same order: the k-th visible one of each.
SameVisible(a, b) ==
  LET VisibleIn(s) == Visible(s, 0, Len(s))
  IN /\ Cardinality(VisibleIn(a)) = Cardinality(VisibleIn(b))
     /\ \A p \in VisibleIn(a), q \in VisibleIn(b) :
          Cardinality(Visible(a, 0, p)) = Cardinality(Visible(b, 0, q)) => At(a, p) = At(b, q)

\* Normalising loses no visible character; each is in a chunk; no chunk is empty or
\* longer than asked; and chunks start in order.
ChunksKeepText(raw, max_characters, overlap_characters) ==
  LET text == normalize_text(raw)
      chunks == split_text(text, max_characters, overlap_characters)
  IN /\ SameVisible(raw, text)
     /\ \A p \in Visible(text, 0, Len(text)) :
          \E i \in DOMAIN chunks : chunks[i].start_character <= p /\ p < chunks[i].end_character
     /\ \A i \in DOMAIN chunks :
          /\ chunks[i].end_character - chunks[i].start_character \in 1 .. max_characters
          /\ i > 1 => chunks[i - 1].start_character <= chunks[i].start_character
=============================================================================
