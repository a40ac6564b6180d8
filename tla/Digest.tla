------------------------------- MODULE Digest -------------------------------
(***************************************************************************)
(* What a maintenance pass does to the text of a digest file.  A text is a *)
(* sequence of lines, without the blank ones: a line is a "## " header, a  *)
(* bullet, which is its normalized key, or anything else.  Sizes are       *)
(* counted in lines, where the code counts bytes.                          *)
(***************************************************************************)
EXTENDS Naturals, Sequences, SequencesExt, Subsequences

CONSTANTS
    NoDurable,   \* the key of the bullet "(no durable entries)"
    Garbled      \* the key of a bullet that a header has run into; all such count as one

Header(d) == [kind |-> "header", of |-> d]
Bullet(k) == [kind |-> "bullet", of |-> k]
Other     == [kind |-> "other", of |-> NoDurable]

IsBullet(line) == line.kind = "bullet"
IsHeader(line) == line.kind = "header"

BulletsOf(lines) == {l \in ToSet(lines) : IsBullet(l)}
KeysOf(lines)    == {l.of : l \in BulletsOf(lines)}

-----------------------------------------------------------------------------
\* The block of day d: from its first header up to the next header of anything else; a
\* second header of the same day belongs to it.  An empty interval if there is none.
Span(md, d) ==
    LET first == SelectInSeq(md, LAMBDA l : l = Header(d))
        ends  == {i \in first + 1 .. Len(md) : IsHeader(md[i]) /\ md[i] # Header(d)}
    IN IF first = 0 THEN [found |-> FALSE, from |-> 1, to |-> 1]
       ELSE [found |-> TRUE, from |-> first,
             to |-> IF ends = {} THEN Len(md) + 1 ELSE CHOOSE i \in ends : \A j \in ends : i <= j]

Block(md, s)   == SubSeq(md, s.from, s.to - 1)
Before(md, s)  == SubSeq(md, 1, s.from - 1)
After(md, s)   == SubSeq(md, s.to, Len(md))
Without(md, s) == Before(md, s) \o After(md, s)

\* A trimmed block in front of the rest of a file, with no line break between the two: the
\* last bullet and the header behind the block become one line.
Joined(lines, rest) ==
    IF rest = <<>> THEN lines ELSE Front(lines) \o <<Bullet(Garbled)>> \o Tail(rest)

\* The bullets of lines, in order; a key of the older text, or one that came before, is
\* skipped.
Take(lines, older) ==
    LET fresh == {i \in 1 .. Len(lines) :
                     /\ IsBullet(lines[i]) /\ lines[i].of \notin older
                     /\ \A j \in 1 .. i - 1 : lines[j] # lines[i]}
        at == Kept([i \in 1 .. Len(lines) |-> i], fresh)
    IN [n \in 1 .. Len(at) |-> lines[at[n]]]

OrNothing(bullets) == IF bullets = <<>> THEN <<Bullet(NoDurable)>> ELSE bullets

\* dedupeMaintenanceBullets keeps the first line, whatever it is, and the new bullets.
Dedupe(section, older) ==
    IF Len(section) <= 1 THEN section
    ELSE <<Head(section)>> \o OrNothing(Take(Tail(section), older))

\* maintenanceSectionOnlyNoDurable looks at the first bullet only.
OnlyNoDurable(section) ==
    LET i == SelectInSeq(section, IsBullet) IN i # 0 /\ section[i] = Bullet(NoDurable)

\* What the merge reads of the model's section: the lines after day d's header, and nothing
\* from another header on.
Body(section, d) ==
    LET start == SelectInSeq(section, LAMBDA l : l = Header(d))
        stop  == SelectInSeq(section, LAMBDA l : IsHeader(l) /\ l # Header(d))
    IN IF start = 0 THEN <<>> ELSE SubSeq(section, start + 1, IF stop = 0 THEN Len(section) ELSE stop - 1)

\* mergeSameDayAutoMaintainedBlocks: the old bullets first.
Merge(block, section, d, older) ==
    IF block = <<>> THEN section
    ELSE <<Header(d)>> \o OrNothing(Take(block \o Body(section, d), older))

\* trimEpisodicAutoMaintainSection drops the oldest bullets; a section without the day's
\* header is cut at the end instead.
Trim(section, d, max) ==
    IF Len(section) <= max THEN section
    ELSE IF ~ Contains(section, Header(d)) THEN SubSeq(section, 1, max)
    ELSE LET bullets == Kept(section, BulletsOf(section))
         IN <<Header(d)>> \o SubSeq(bullets, Len(bullets) - max + 2, Len(bullets))

=============================================================================
