------------------------------ MODULE Chunker -------------------------------
(***************************************************************************)
(* _parse_sections and _chunk_content (src/docserver/ingestion.py): a      *)
(* markdown text becomes sections of blocks, by its headings, and each     *)
(* section chunks of about target_size characters.                         *)
(*                                                                         *)
(* A text is a sequence of lines, a line its kind, its level if it is a    *)
(* heading, and its width.  A block is the sequence of its line numbers.   *)
(* The text of a chunk is its heading path, the tail of the body before it *)
(* (last_tail of _emit, never reset between sections), and its own blocks. *)
(***************************************************************************)
EXTENDS Naturals, Sequences, FiniteSets, SequencesExt

CONSTANTS
    Lines,          \* the lines a text may have
    TargetSize,     \* CHUNK_TARGET_SIZE
    OverlapSize     \* OVERLAP_SIZE

Kinds == {"fence", "heading", "item", "plain", "blank"}

ASSUME ChunkerAssumption ==
    /\ Lines \subseteq [kind: Kinds, level: 1..6, width: Nat]
    /\ \A l \in Lines : l.kind = "blank" => l.width = 0
    /\ TargetSize \in Nat /\ OverlapSize \in Nat \ {0}

VARIABLE text

Kind(i)  == text[i].kind
Level(i) == text[i].level
Numbers == [i \in DOMAIN text |-> i]

-----------------------------------------------------------------------------
(* _parse_sections, line by line.                                          *)
Start == [stack |-> <<>>, sections |-> <<>>, blocks |-> <<>>, lines |-> <<>>,
          fenced |-> FALSE]

(* _flush_lines: strip() takes the blank lines off the ends.               *)
Stripped(lines) ==
    LET last == SelectLastInSeq(lines, LAMBDA i : Kind(i) # "blank")
    IN  SubSeq(lines, 1, last)
Flush(st) ==
    [st EXCEPT !.blocks = IF st.lines = <<>> THEN @ ELSE Append(@, Stripped(st.lines)),
               !.lines = <<>>]

SaveSection(st) ==
    IF st.blocks = <<>> THEN st
    ELSE [st EXCEPT !.sections = Append(@, [path |-> st.stack, blocks |-> st.blocks]),
                    !.blocks = <<>>]

Take(st, i) == [st EXCEPT !.lines = Append(@, i)]

Fence(st, i) ==
    IF st.fenced THEN [Flush(Take(st, i)) EXCEPT !.fenced = FALSE]
    ELSE [Take(Flush(st), i) EXCEPT !.fenced = TRUE]

(* Fault: only headings at a deeper level are popped.                      *)
HeadingPopsDeeper(st, i) ==
    LET outer == SelectLastInSeq(st.stack, LAMBDA h : Level(h) <= Level(i))
    IN  [SaveSection(Flush(st)) EXCEPT !.stack = Append(SubSeq(@, 1, outer), i)]

Heading(st, i) ==
    LET outer == SelectLastInSeq(st.stack, LAMBDA h : Level(h) < Level(i))
    IN  [SaveSection(Flush(st)) EXCEPT !.stack = Append(SubSeq(@, 1, outer), i)]

(* A blank line ends a paragraph, but not what began with a list item.     *)
BlankLine(st, i) ==
    IF st.lines # <<>> /\ Kind(st.lines[1]) = "item" THEN Take(st, i) ELSE Flush(st)

ParseLine(st, i) ==
    CASE Kind(i) = "fence"                 -> Fence(st, i)
      [] Kind(i) = "heading" /\ ~st.fenced -> Heading(st, i)
      [] Kind(i) = "blank" /\ ~st.fenced   -> BlankLine(st, i)
      [] OTHER                             -> Take(st, i)

Sections ==
    SaveSection(Flush(FoldLeftDomain(ParseLine, Start, text))).sections

-----------------------------------------------------------------------------
(* _chunk_content.  Lengths in characters: lines are joined by one, blocks *)
(* by two.                                                                 *)
AddLine(n, i) == n + text[i].width + 1
BlockSize(b) == FoldLeft(AddLine, 0, b) - 1
AddBlock(n, b) == n + BlockSize(b) + 2
BodySize(parts) == FoldLeft(AddBlock, 0, parts) - 2

(* "[heading path]" and an empty line, of the headings' texts without their*)
(* marks, joined by " > ": nothing if there is no heading.                 *)
AddHeading(n, h) == n + (text[h].width - Level(h) - 1) + 3
PrefixSize(path) == IF path = <<>> THEN 0 ELSE FoldLeft(AddHeading, 0, path) - 3 + 4

(* The lines of a body, each with the number of characters behind it.      *)
Placed(parts) ==
    UNION {{[line   |-> parts[b][j],
             behind |-> BodySize(SubSeq(parts, b + 1, Len(parts))) + 2
                        + BlockSize(SubSeq(parts[b], j + 1, Len(parts[b]))) + 1] :
              j \in DOMAIN parts[b]} : b \in DOMAIN parts}
PushBack(lines, n) == {[l EXCEPT !.behind = @ + n] : l \in lines}

(* Those of which the last overlap_size characters hold something: the     *)
(* ones after the last line that is before them.                           *)
InTail(lines) ==
    {l \in lines : \A m \in lines : m.line >= l.line => m.behind < OverlapSize}

(* _emit: the tail of the last body, with its mark, before this one's; the *)
(* path before both, if it is not empty, and not in the body.              *)
NoChunks == [chunks |-> <<>>, tail |-> 0, tailLines |-> {},
             parts |-> <<>>, size |-> 0, path |-> <<>>]
Mark == 5   \* len("[...]")

Emit(acc) ==
    LET own   == BodySize(acc.parts)
        after == acc.tail > 0 /\ acc.chunks # <<>>
        over  == IF after THEN acc.tailLines ELSE {}
        body  == own + IF after THEN Mark + acc.tail + 2 ELSE 0
    IN  [acc EXCEPT !.chunks = Append(@, [path |-> acc.path, parts |-> acc.parts,
                                          over |-> {l.line : l \in over},
                                          size |-> PrefixSize(acc.path) + body]),
                    !.tail = IF body > OverlapSize THEN OverlapSize ELSE body,
                    !.tailLines = InTail(PushBack(over, 2 + own) \cup Placed(acc.parts)),
                    !.parts = <<>>, !.size = 0]

(* Fault: the two characters that join a block to the last are not counted.*)
PlaceBlockTight(acc, b) ==
    IF acc.parts # <<>> /\ acc.size + BlockSize(b) > TargetSize
    THEN [Emit(acc) EXCEPT !.parts = <<b>>, !.size = BlockSize(b)]
    ELSE [acc EXCEPT !.parts = Append(@, b), !.size = @ + BlockSize(b)]

(* current_size grows by two for the first block of a section as well:     *)
(* current_parts is never empty when it is tested.                         *)
PlaceBlock(acc, b) ==
    IF acc.parts # <<>> /\ acc.size + 2 + BlockSize(b) > TargetSize
    THEN [Emit(acc) EXCEPT !.parts = <<b>>, !.size = BlockSize(b)]
    ELSE [acc EXCEPT !.parts = Append(@, b), !.size = @ + 2 + BlockSize(b)]

PlaceSection(acc, s) ==
    LET placed == FoldLeft(PlaceBlock, [acc EXCEPT !.path = s.path], s.blocks)
    IN  Emit(placed)

(* A text without sections is one chunk, whatever its size.                *)
ChunksOfText ==
    IF Sections = <<>> THEN <<[path |-> <<>>, parts |-> <<Numbers>>, over |-> {},
                               size |-> BlockSize(Numbers)]>>
    ELSE FoldLeft(PlaceSection, NoChunks, Sections).chunks

-----------------------------------------------------------------------------
(* Reference definitions: a line is fenced when an odd number of fence     *)
(* lines comes before it, and its headings are those that no heading at    *)
(* their level or above comes after.                                       *)
Fenced(i) == Cardinality({j \in 1..(i - 1) : Kind(j) = "fence"}) % 2 = 1
IsHeading(i) == Kind(i) = "heading" /\ ~Fenced(i)
Shown(i) == Kind(i) # "blank" /\ ~IsHeading(i)
HeadingsOf(i) ==
    {j \in 1..(i - 1) :
        /\ IsHeading(j)
        /\ \A k \in (j + 1)..(i - 1) : IsHeading(k) => Level(k) > Level(j)}

Increasing(s) == \A i, j \in DOMAIN s : i < j => s[i] < s[j]
Ascending(sets) ==
    \A i, j \in DOMAIN sets : i < j => \A x \in sets[i], y \in sets[j] : x < y
IsPathOf(path, i) == Increasing(path) /\ Range(path) = HeadingsOf(i)
LinesIn(parts) == UNION {Range(parts[b]) : b \in DOMAIN parts}

(* Every line of a text that is neither blank nor a heading is put into    *)
(* one chunk, once, in its place, and under its own headings, so that      *)
(* search finds it by a chunk whose section_path is true of it, however    *)
(* fences, lists and headings follow each other: no heading in a fence     *)
(* counts, and a fence never closed runs to the end (_parse_sections,      *)
(* _chunk_content).  Besides, a chunk repeats lines of the chunks before   *)
(* it, the ones right before its own, without a gap; they may be of other  *)
(* sections, under headings that section_path does not name (985, 993).    *)
(* A text with none of these lines is one chunk as it is.                  *)
LinesKeepTheirPlace ==
    LET chunks == ChunksOfText
        lines  == [c \in DOMAIN chunks |-> LinesIn(chunks[c].parts)]
        before == [c \in DOMAIN chunks |-> UNION {lines[d] : d \in 1..(c - 1)}]
        shown  == {i \in DOMAIN text : Shown(i)}
    IN  IF shown = {} THEN Len(chunks) = 1
        ELSE /\ {i \in UNION Range(lines) : Kind(i) # "blank"} = shown
             /\ Ascending(lines)
             /\ \A c \in DOMAIN chunks :
                  LET parts == chunks[c].parts
                      over  == chunks[c].over IN
                  /\ Ascending([b \in DOMAIN parts |-> Range(parts[b])])
                  /\ \A b \in DOMAIN parts : Increasing(parts[b])
                  /\ \A i \in lines[c] : IsPathOf(chunks[c].path, i)
                  /\ over \subseteq before[c]
                  /\ \A i \in over, k \in before[c] : i < k => k \in over

(* The own blocks of a chunk that has several are no longer than           *)
(* target_size, and its stored text exceeds that by no more than the tail  *)
(* of the chunk before it, of overlap_size characters, its mark, and the   *)
(* heading path in front, which nothing bounds (988).                      *)
ChunksFit ==
    Sections # <<>> =>
        \A c \in DOMAIN ChunksOfText :
            LET chunk == ChunksOfText[c] IN
            Len(chunk.parts) > 1 =>
                /\ BodySize(chunk.parts) <= TargetSize
                /\ chunk.size <= PrefixSize(chunk.path)
                                 + Mark + OverlapSize + 2 + TargetSize
=============================================================================
