------------------------------ MODULE RecallText ------------------------------
(***************************************************************************)
(* The pure parts of recall: how the words of a user become search terms,  *)
(* how a note is cut into chunks, which hit stands for a note, which       *)
(* windows of a note are shown, and what still fits the budget of the      *)
(* session.  Positions are lines, characters or hits of small inputs,      *)
(* where the code counts bytes; only the length of a word is one in bytes. *)
(* A body is what was read of its file, up to the cap of the scan, and its *)
(* lower case is taken to have the length of the body.                     *)
(***************************************************************************)
EXTENDS Integers, Sequences, FiniteSets, SequencesExt, FiniteSetsExt, Functions, Subsequences

CONSTANTS
    MaxNoteLines,    \* bound on the lines of the notes considered
    MaxLevel,        \* bound on their heading levels
    Runes,           \* characters of the queries, in lower case
    MaxTerms,        \* maxRecallTermCount
    BodyLen,         \* length of the bodies in which words are found
    MaxSpans,        \* bound on the matches in one body
    Pad, Gap,        \* recallSnippetPadBytes, mergeSnippetGapBytes
    MaxSnippets,     \* maxSnippetsPerFile
    MaxShown,        \* maxSnippetLineRunes
    Hits,            \* chunks of notes with their scores and sizes
    MaxHits,         \* bound on the hits of one recall
    RecallBudget     \* budget.recall_max_bytes, in the size of a hit

\* A budget that is not positive is replaced by a default; a chunk has some text; an excerpt
\* is cut behind its first match (220 characters, 120 and 24).
ASSUME TextAssumption ==
    /\ Hits \subseteq [of : Nat, at : Nat, score : Nat, size : Nat \ {0}] /\ IsFiniteSet(Hits)
    /\ RecallBudget \in Nat \ {0} /\ {MaxNoteLines, MaxLevel, BodyLen, MaxSpans, Pad, Gap} \subseteq Nat
    /\ Runes \subseteq [kind : {"han", "letter", "gap"}, bytes : Nat \ {0}, is : Nat]
    /\ {MaxTerms, MaxSnippets, MaxShown} \subseteq Nat /\ Pad + Gap < MaxShown

VARIABLE input       \* what recall works on; it is chosen once

-----------------------------------------------------------------------------
(* tokenizeRecall: the words of more than two bytes, whatever their        *)
(* letters, and every two adjacent Han characters, each once, up to a cap. *)
(* A place is the interval of the text a term comes from.                  *)
\* No more than there may be.
Capped(n, max) == IF n > max THEN max ELSE n

\* A word, of that many bytes.
LatinTerms(latin, size) == IF size > 2 THEN <<<<latin[1], Last(latin)>>>> ELSE <<>>

FlushLatin(acc) ==
    [terms |-> acc.terms \o LatinTerms(acc.latin, acc.size), latin |-> <<>>, size |-> 0, han |-> acc.han]

\* A variant: the last pair is forgotten.
HanTermsShort(han) == IF Len(han) < 3 THEN <<>> ELSE [i \in 1 .. Len(han) - 2 |-> <<han[i], han[i] + 1>>]

HanTerms(han) == IF Len(han) < 2 THEN <<>> ELSE [i \in 1 .. Len(han) - 1 |-> <<han[i], han[i] + 1>>]

FlushHan(acc) == [terms |-> acc.terms \o HanTerms(acc.han), latin |-> acc.latin, size |-> acc.size, han |-> <<>>]

\* The turn for the character at place i.
TakeRune(acc, rune, i) ==
    CASE rune.kind = "han"    -> [FlushLatin(acc) EXCEPT !.han = Append(@, i)]
      [] rune.kind = "letter" -> [FlushHan(acc) EXCEPT !.latin = Append(@, i), !.size = @ + rune.bytes]
      [] rune.kind = "gap"    -> FlushHan(FlushLatin(acc))

\* The places of all terms, in the order in which add is called with them.
TermPlaces(text) ==
    LET acc[n \in 0 .. Len(text)] ==
            IF n = 0 THEN [terms |-> <<>>, latin |-> <<>>, size |-> 0, han |-> <<>>]
            ELSE TakeRune(acc[n - 1], text[n], n)
    IN FlushHan(FlushLatin(acc[Len(text)])).terms

\* add: a term the first time it is met, while there is room.
Admitted(words) ==
    LET firsts == {i \in 1 .. Len(words) : \A j \in 1 .. i - 1 : words[j] # words[i]}
        at     == Kept([i \in 1 .. Len(words) |-> i], firsts)
    IN [n \in 1 .. Capped(Len(at), MaxTerms) |-> words[at[n]]]

TokenizeRecall(text) ==
    LET places == TermPlaces(text)
    IN Admitted([n \in 1 .. Len(places) |-> SubSeq(text, places[n][1], places[n][2])])

-----------------------------------------------------------------------------
(* splitSQLiteRecallChunks.  A line is the level of its heading, 0 for     *)
(* text and Empty for a blank one; a heading is named by its line.         *)
Empty == -1
LineKinds == {Empty, 0} \cup 1 .. MaxLevel
NoteTexts == UNION {[1 .. n -> LineKinds] : n \in 0 .. MaxNoteLines}

\* appendChunk: without the blank lines in front; nothing of blank lines only.
Chunk(lines, from, to, path) ==
    LET full == {i \in from .. to : lines[i] # Empty}
    IN IF full = {} THEN <<>>
       ELSE <<[from |-> CHOOSE i \in full : \A j \in full : i <= j, to |-> to, path |-> path]>>

\* The headings above that a heading of this level leaves open; a jump over a level counts as
\* one level down.
Outer(stack, level) == SubSeq(stack, 1, (IF level > Len(stack) + 1 THEN Len(stack) + 1 ELSE level) - 1)

\* The turn for line i: a heading ends the chunk before it.
TakeLine(acc, lines, i) ==
    IF lines[i] <= 0 THEN acc
    ELSE [from   |-> i,
          stack  |-> Append(Outer(acc.stack, lines[i]), i),
          chunks |-> acc.chunks \o Chunk(lines, acc.from, i - 1, acc.stack)]

Chunks(lines) ==
    LET acc[n \in 0 .. Len(lines)] ==
            IF n = 0 THEN [from |-> 1, stack |-> <<>>, chunks |-> <<>>] ELSE TakeLine(acc[n - 1], lines, n)
        end == acc[Len(lines)]
    IN end.chunks \o Chunk(lines, end.from, Len(lines), end.stack)

-----------------------------------------------------------------------------
\* The order of tuples, the first place first.
Lex(a, b) == \E k \in DOMAIN a : a[k] < b[k] /\ \A j \in 1 .. k - 1 : a[j] = b[j]

(* mergeExpandedMatchWindows.  A span is [start, end), as in the code.     *)
Spans     == {[start |-> x, end |-> x + n] : x \in 0 .. BodyLen - 2, n \in 1 .. 2}
MatchSets == UNION {kSubset(k, Spans) : k \in 0 .. MaxSpans}

Expand(s) == [lo |-> IF s.start < Pad THEN 0 ELSE s.start - Pad,
              hi |-> Capped(s.end + Pad, BodyLen),
              m  |-> s.start]

Joins(e, w) == e.lo <= w.hi + Gap

ByStart(exps) == {p \in exps \X exps : Lex(<<p[1].lo, p[1].hi, p[1].m>>, <<p[2].lo, p[2].hi, p[2].m>>)}

\* A match joins the last window or opens one.
JoinOrOpen(out, e) ==
    IF out = <<>> \/ ~ Joins(e, Last(out)) THEN Append(out, e)
    ELSE LET w == Last(out)
         IN Append(Front(out), [lo |-> w.lo, hi |-> IF e.hi > w.hi THEN e.hi ELSE w.hi, m |-> IF e.m < w.m THEN e.m ELSE w.m])

MergeWindows(matches) ==
    LET exps  == {Expand(s) : s \in matches}
        order == Sorted(exps, ByStart(exps))
        out[n \in 0 .. Len(order)] == IF n = 0 THEN <<>> ELSE JoinOrOpen(out[n - 1], order[n])
    IN out[Len(order)]

\* formatRecallMemoryBlock: the first windows, each cut at the length of a line
\* (truncateOneLineSnippet), with the offset of its first match.
Excerpts(matches) ==
    LET ws == MergeWindows(matches)
    IN [i \in 1 .. Capped(Len(ws), MaxSnippets) |->
           [from |-> ws[i].lo, to |-> Capped(ws[i].hi, ws[i].lo + MaxShown), at |-> ws[i].m]]

-----------------------------------------------------------------------------
(* rerankSQLiteRecallHits and formatRecallAttachment.  A hit is a chunk of *)
(* a note: its note, its place in it, its score and its size.              *)
\* The order of the hits: by score, then by note and place.
BestFirst(hits) == {p \in hits \X hits : Lex(<<- p[1].score, p[1].of, p[1].at>>, <<- p[2].score, p[2].of, p[2].at>>)}

\* A place whose note none of the places before it has.
IsFirstOf(order, i) == \A j \in 1 .. i - 1 : order[j].of # order[i].of

Ranked(hits) ==
    LET order == Sorted(hits, BestFirst(hits))
    IN Kept(order, {order[i] : i \in {i \in DOMAIN order : IsFirstOf(order, i)}})

\* querySQLiteRecallHits drops the notes shown before.
Fresh(hits, st) == Kept(hits, {h \in ToSet(hits) : h.of \notin st.paths})

\* A variant: the header is free.
FitsWithoutHeader(h, room) == h.size <= room + 1

\* The first hit that does not fit ends the attachment.  bytes counts the whole session; the
\* header, of size 1, is counted when something stands under it.
Fits(h, room) == h.size <= room

Surface(acc, h) ==
    IF acc.full \/ ~ Fits(h, acc.room) THEN [acc EXCEPT !.full = TRUE]
    ELSE [acc EXCEPT !.room = @ - h.size, !.paths = @ \cup {h.of}, !.bytes = @ + h.size]

Attach(hits, st) ==
    LET room == RecallBudget - st.bytes
        acc[n \in 0 .. Len(hits)] ==
            IF n = 0 THEN [full |-> FALSE, room |-> room - 1, paths |-> st.paths, bytes |-> st.bytes]
            ELSE Surface(acc[n - 1], hits[n])
        end == acc[Len(hits)]
    IN IF room < 1 \/ end.paths = st.paths THEN st
       ELSE [paths |-> end.paths, bytes |-> end.bytes + 1]

\* What the index may return: chunks of a note have different places in it.
HitSets == {hits \in UNION {kSubset(k, Hits) : k \in 0 .. MaxHits} :
               \A g, h \in hits : g.of = h.of /\ g.at = h.at => g = h}

TextInit ==
    input \in [kind : {"query"}, text : UNION {[1 .. n -> Runes] : n \in 0 .. MaxNoteLines}]
             \cup [kind : {"note"}, lines : NoteTexts]
             \cup [kind : {"body"}, matches : MatchSets]
             \cup [kind : {"hits"}, first : HitSets, then : HitSets]

-----------------------------------------------------------------------------
(* Properties.                                                             *)

\* More than two bytes from x to y; a whole word of that length; two adjacent Han characters.
IsLong(text, x, y) == \/ y > x + 1
                      \/ y = x + 1 /\ text[x].bytes + text[y].bytes > 2
                      \/ y = x /\ text[x].bytes > 2
IsWord(text, x, y) ==
    LET letters == {i \in 1 .. Len(text) : text[i].kind = "letter"}
    IN x <= y /\ x .. y \subseteq letters /\ {x - 1, y + 1} \cap letters = {} /\ IsLong(text, x, y)
IsPair(text, x, y) == y = x + 1 /\ text[x].kind = "han" /\ text[y].kind = "han"

\* The terms of a query are its whole words of more than two bytes and its pairs of
\* neighbouring Han characters: nothing else, none of them twice, and all of them unless
\* there are as many terms as there may be.
TermsAreWords ==
    input.kind = "query" =>
        LET text  == input.text
            terms == TokenizeRecall(text)
            here  == 1 .. Len(text)
            meant == {SubSeq(text, p[1], p[2]) :
                         p \in {q \in here \X here : IsWord(text, q[1], q[2]) \/ IsPair(text, q[1], q[2])}}
        IN /\ Len(terms) <= MaxTerms
           /\ \A i, j \in DOMAIN terms : terms[i] = terms[j] => i = j
           /\ ToSet(terms) \subseteq meant
           /\ Len(terms) < MaxTerms => meant \subseteq ToSet(terms)

\* The chunks of a note are in order and disjoint, together hold every line that is not blank,
\* and hold no heading but as their first line; the headings a chunk is filed under are
\* those whose section it is in: none of them was closed by a later one of its depth, and no
\* open one is missing.
ChunksCoverNote ==
    input.kind = "note" =>
        LET lines == input.lines
            cs    == Chunks(lines)
        IN /\ \A i, j \in DOMAIN cs : i < j => cs[i].to < cs[j].from
           /\ \A l \in DOMAIN lines : lines[l] # Empty => \E i \in DOMAIN cs : l \in cs[i].from .. cs[i].to
           /\ \A c \in ToSet(cs) :
                 /\ \A l \in c.from + 1 .. c.to : lines[l] <= 0
                 /\ \A k \in DOMAIN c.path :
                       /\ lines[c.path[k]] >= k
                       /\ \A l \in c.path[k] + 1 .. c.from : lines[l] <= 0 \/ lines[l] > k
                 /\ \A h \in 1 .. c.from :
                       (lines[h] > 0 /\ \A l \in h + 1 .. c.from : lines[l] <= 0 \/ lines[l] > lines[h])
                           => Contains(c.path, h)

\* The windows of a note are in order and more than the gap apart, every match lies in one
\* of them, and none reaches further from a match than the padding and the gap.  Each of
\* the first windows is shown, with its first match in sight and its offset printed; no other
\* match of these is cut off but by the length of the line.
WindowsCoverMatches ==
    input.kind = "body" =>
        LET ws == MergeWindows(input.matches)
            es == Excerpts(input.matches)
            In(w) == {s \in input.matches : w.lo <= s.start /\ s.end <= w.hi}
        IN /\ \A i, j \in DOMAIN ws : i < j => ws[i].hi + Gap < ws[j].lo
           /\ input.matches = UNION {In(w) : w \in ToSet(ws)}
           /\ \A w \in ToSet(ws) : \A x \in w.lo .. w.hi - 1 :
                 \E s \in In(w) : s.start - Pad - Gap <= x /\ x < s.end + Pad + Gap
           /\ \A i \in DOMAIN ws : i <= MaxSnippets =>
                 /\ es[i].at = Min({s.start : s \in In(ws[i])}) /\ es[i].from <= es[i].at /\ es[i].at < es[i].to
                 /\ \A s \in In(ws[i]) : s.end <= ws[i].lo + MaxShown => es[i].from <= s.start /\ s.end <= es[i].to

\* Recall looks for what was asked, in the sections it names, and shows what it found up to
\* its caps on terms, excerpts and their length.
RecallTextIsExact == TermsAreWords /\ ChunksCoverNote /\ WindowsCoverMatches

\* Over two recalls of a session, whatever the index returns: no note is shown twice, each is
\* shown by its best chunk, and the session's budget is kept.
RecallStaysInBudget ==
    input.kind = "hits" =>
        LET none == [paths |-> {}, bytes |-> 0]
            one  == Attach(Fresh(Ranked(input.first), none), none)
            hits == Fresh(Ranked(input.then), one)
            two  == Attach(hits, one)
        IN /\ two.bytes <= RecallBudget /\ one.paths \subseteq two.paths
           /\ \A h \in ToSet(hits) : h.of \notin one.paths
           /\ \A h \in input.first : \E best \in ToSet(Ranked(input.first)) : best.of = h.of /\ best.score >= h.score
           /\ \A i, j \in DOMAIN hits : hits[i].of = hits[j].of => i = j

=============================================================================
