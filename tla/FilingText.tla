----------------------------- MODULE FilingText -----------------------------
(***************************************************************************)
(* The part of _ingest_filing between the file and the embedder, from the  *)
(* blocks of a page on: parse_10k gathers them in sections, chunk_sections *)
(* packs each section and merges what is small.  Nothing runs beside it;   *)
(* an action is a turn of one of the loops, or the end of one.             *)
(***************************************************************************)
EXTENDS Chunker, SequencesExt

CONSTANT MaxHeadingLen  \* MAX_HEADING_LEN

TextAssumption ==
  /\ MaxHeadingLen \in Nat
  /\ TargetTokens \in Nat \ {0}
  /\ MaxTokens \in Nat
  /\ MaxTokens >= TargetTokens
  /\ MinMergeTokens \in Nat
  /\ MergeSlack \in Nat

ASSUME TextAssumption

VARIABLES
  pc,        \* the loop that runs: "parse", "pack", "merge", or "embed" after all of them
  turn,      \* how many turns it has made
  blocks,    \* what the walk over the page has yielded
  sections,  \* of parse_10k: records [item, heading, blocks], the cover first
  last_idx,  \* of parse_10k: the Item of the last heading
  sec,       \* the section that _pack_section works on
  parts,     \* its parts of text since the last table, not yet in protos
  protos,    \* its bodies before merging
  merged,    \* and after it
  chunks     \* of chunk_sections: the drafts of all sections before it

vars == <<pc, turn, blocks, sections, last_idx, sec, parts, protos, merged, chunks>>

Start ==
  /\ pc = "parse"
  /\ turn = 0
  /\ sections = << [item |-> 0, heading |-> <<>>, blocks |-> <<>>] >>
  /\ last_idx = 0
  /\ sec = 0
  /\ parts = <<>>
  /\ protos = <<>>
  /\ merged = <<>>
  /\ chunks = <<>>

Init == blocks \in Seq(Block) /\ Start

-----------------------------------------------------------------------------
(***************************************************************************)
(* parse_10k.                                                              *)
(***************************************************************************)

\* The Item of a heading, 0 if the block is none.
match_item_heading(block) ==
  IF block.kind = "text" /\ Content(block).len <= MaxHeadingLen THEN block.item ELSE 0

Opened(block) ==
  Append(sections, [item |-> match_item_heading(block), heading |-> <<block>>, blocks |-> <<>>])

Extended(block) == [sections EXCEPT ![Len(sections)].blocks = Append(@, block)]

\* Mutant: last_idx follows every heading.
TakeBlock_FollowsAll ==
  /\ pc = "parse"
  /\ turn < Len(blocks)
  /\ LET block == blocks[turn + 1]
         idx   == match_item_heading(block)
     IN  /\ sections' = IF idx > last_idx THEN Opened(block) ELSE Extended(block)
         /\ last_idx' = IF idx > 0 THEN idx ELSE last_idx
  /\ turn' = turn + 1
  /\ UNCHANGED <<pc, blocks, sec, parts, protos, merged, chunks>>

TakeBlock ==
  /\ pc = "parse"
  /\ turn < Len(blocks)
  /\ LET block == blocks[turn + 1]
         idx   == match_item_heading(block)
     IN  \/ /\ idx > last_idx
            /\ sections' = Opened(block)
            /\ last_idx' = idx
         \/ /\ idx <= last_idx
            /\ sections' = Extended(block)
            /\ UNCHANGED last_idx
  /\ turn' = turn + 1
  /\ UNCHANGED <<pc, blocks, sec, parts, protos, merged, chunks>>

\* It returns, and chunk_sections begins with the cover.
Parsed ==
  /\ pc = "parse"
  /\ turn = Len(blocks)
  /\ pc' = "pack"
  /\ turn' = 0
  /\ sec' = 1
  /\ UNCHANGED <<blocks, sections, last_idx, parts, protos, merged, chunks>>

-----------------------------------------------------------------------------
(***************************************************************************)
(* chunk_sections and _pack_section.                                       *)
(***************************************************************************)

\* Text is held back, as it may be packed together with what follows; a table is not.
PackBlock ==
  /\ pc = "pack"
  /\ turn < Len(sections[sec].blocks)
  /\ LET block == sections[sec].blocks[turn + 1]
     IN  \/ /\ block.kind = "table"
            /\ protos' = protos \o Flushed(parts) \o Tables(block)
            /\ parts' = <<>>
         \/ /\ block.kind = "text"
            /\ parts' = parts \o split_long_text(block)
            /\ UNCHANGED protos
  /\ turn' = turn + 1
  /\ UNCHANGED <<pc, blocks, sections, last_idx, sec, merged, chunks>>

LastFlush ==
  /\ pc = "pack"
  /\ turn = Len(sections[sec].blocks)
  /\ protos' = protos \o Flushed(parts)
  /\ parts' = <<>>
  /\ pc' = "merge"
  /\ turn' = 0
  /\ UNCHANGED <<blocks, sections, last_idx, sec, merged, chunks>>

MergeProto ==
  /\ pc = "merge"
  /\ turn < Len(protos)
  /\ LET proto == protos[turn + 1]
         top   == Len(merged)
     IN  merged' = IF merged # <<>> /\ Mergeable(merged[top], proto)
                     THEN [merged EXCEPT ![top].body = Glue(@, proto.body, 2)]
                     ELSE Append(merged, proto)
  /\ turn' = turn + 1
  /\ UNCHANGED <<pc, blocks, sections, last_idx, sec, parts, protos, chunks>>

\* The context line, which a chunk has in front, has the same length all over a
\* section, and is left out.
Draft(item, proto) == [item |-> item, is_table |-> proto.is_table, body |-> proto.body]

EndSection ==
  /\ pc = "merge"
  /\ turn = Len(protos)
  /\ chunks' = chunks \o [m \in DOMAIN merged |-> Draft(sections[sec].item, merged[m])]
  /\ protos' = <<>>
  /\ merged' = <<>>
  /\ turn' = 0
  /\ \/ sec < Len(sections) /\ sec' = sec + 1 /\ pc' = "pack"
     \/ sec = Len(sections) /\ pc' = "embed" /\ UNCHANGED sec
  /\ UNCHANGED <<blocks, sections, last_idx, parts>>

Next ==
  \/ TakeBlock
  \/ Parsed
  \/ PackBlock
  \/ LastFlush
  \/ MergeProto
  \/ EndSection

Spec == Init /\ [][Next]_vars

-----------------------------------------------------------------------------
(***************************************************************************)
(* Properties.                                                             *)
(***************************************************************************)

\* The headings among the first n blocks: those whose Item is beyond that of every
\* heading-like block before them, accepted or not.
Records(n) ==
  { p \in 1 .. n :
      /\ match_item_heading(blocks[p]) > 0
      /\ \A q \in 1 .. p - 1 : match_item_heading(blocks[p]) > match_item_heading(blocks[q]) }

\* The sections are what the first n blocks are cut into at these headings.
CutAtRecords(n) ==
  \E start \in [DOMAIN sections -> {0} \cup Records(n)] :
    LET stop(s) == IF s = Len(sections) THEN n + 1 ELSE start[s + 1] IN
    /\ start[1] = 0
    /\ \A p \in Records(n) : \E s \in DOMAIN sections : start[s] = p
    /\ \A s \in DOMAIN sections :
         /\ start[s] < stop(s)
         /\ sections[s].blocks = SubSeq(blocks, start[s] + 1, stop(s) - 1)
         /\ s > 1 => sections[s].item = match_item_heading(blocks[start[s]])

\* "Item ids must appear in ascending 10-K order - out-of-order matches are
\* treated as body text": each section of parse_10k has what stands between its
\* heading and the next, and the headings are the records.
SectionsByRecords == pc # "parse" => CutAtRecords(Len(blocks))

\* A piece of text, or a row of a table, in its Item and under its header.
Tag(item, header, units) == [u \in DOMAIN units |-> <<item, header, units[u]>>]

BlockUnits(item, block) ==
  IF block.kind = "text"
    THEN [l \in DOMAIN block.lines |-> <<item, <<>>, block.lines[l].texts>>]
    ELSE [l \in 1 .. Len(block.lines) - 2 |->
            <<item, block.lines[1].texts, block.lines[l + 2].texts>>]

SectionUnits(section) ==
  FlattenSeq([b \in DOMAIN section.blocks |-> BlockUnits(section.item, section.blocks[b])])

ChunkUnits(chunk) == Tag(chunk.item, chunk.body.header, chunk.body.units)

\* "pack paragraphs, isolate tables, never cross Items": the chunks, one after the
\* other, are the sentences and rows of the sections, each once, in order, in its own
\* Item, each row below the header of its table, and no chunk has both sentences and
\* rows.
ChunksKeepText ==
  pc = "embed" =>
    /\ FlattenSeq([c \in DOMAIN chunks |-> ChunkUnits(chunks[c])])
         = FlattenSeq([s \in DOMAIN sections |-> SectionUnits(sections[s])])
    /\ \A c \in DOMAIN chunks : chunks[c].is_table <=> chunks[c].body.header # <<>>

\* A text smaller than MIN_MERGE_TOKENS stands first in its section, after a table,
\* or after a text that has no room for it; and a text of several sentences, though
\* its tokens are estimated sentence by sentence and each estimate is rounded down,
\* is never longer than nine characters per token of the target, or than merging
\* allows.
SizesHaveCause ==
  pc = "embed" =>
    \A c \in DOMAIN chunks : ~chunks[c].is_table =>
      /\ \/ approx_tokens(chunks[c].body) >= MinMergeTokens
         \/ c = 1
         \/ chunks[c - 1].item # chunks[c].item
         \/ chunks[c - 1].is_table
         \/ approx_tokens(chunks[c - 1].body) + approx_tokens(chunks[c].body)
              > MaxTokens + MergeSlack
      /\ \/ Len(chunks[c].body.units) = 1
         \/ chunks[c].body.len < 9 * TargetTokens
         \/ approx_tokens(chunks[c].body) <= MaxTokens + MergeSlack + 2

=============================================================================
