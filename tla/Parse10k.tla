------------------------------ MODULE Parse10k ------------------------------
(***************************************************************************)
(* ingestion/parse10k.py: from the tree of an HTML page to the blocks of   *)
(* its text.  A node is a record [tag, hidden, kids, item, len].  A text   *)
(* node has the tag "#text" and a length; its item is the place in         *)
(* ITEM_ORDER of the "Item N" its text begins with, 0 if there is none.    *)
(* Tags that the code treats alike are one: "p" stands for BLOCK_TAGS,     *)
(* "span" for the tags in none of its sets, "script" for SKIP_TAGS.        *)
(*                                                                         *)
(* The text of an element is the sequence of the text nodes in it.         *)
(***************************************************************************)
EXTENDS Naturals, Sequences

LOCAL INSTANCE SequencesExt
LOCAL INSTANCE FiniteSetsExt

Node(tag, kids)   == [tag |-> tag, hidden |-> FALSE, kids |-> kids, item |-> 0, len |-> 0]
TextNode(item, n) == [tag |-> "#text", hidden |-> FALSE, kids |-> <<>>, item |-> item, len |-> n]

-----------------------------------------------------------------------------
(***************************************************************************)
(* What selectolax does.                                                   *)
(***************************************************************************)

RECURSIVE Descendants(_)

\* In document order.
Descendants(node) ==
  FlattenSeq([i \in DOMAIN node.kids |-> <<node.kids[i]>> \o Descendants(node.kids[i])])

Css(node, tag) == SelectSeq(Descendants(node), LAMBDA n : n.tag = tag)

\* node.text(separator=" "), hidden or not; nothing but spaces is no text.
Texts(node) == Css(node, "#text")

-----------------------------------------------------------------------------
(***************************************************************************)
(* Blocks: records [kind, item, lines].  A text is made of sentences, each *)
(* a text node, on one line; a table of lines of markdown.  A row is a     *)
(* sequence of cells, a cell a sequence of text nodes.                     *)
(***************************************************************************)

TextBlock(texts) ==
  [kind  |-> "text",
   item  |-> texts[1].item,
   lines |-> [t \in DOMAIN texts |-> [len |-> texts[t].len, texts |-> <<texts[t]>>]]]

\* Text nodes joined by one space.
TextLen(texts) == FoldLeft(LAMBDA n, t : n + t.len, 0, texts) + Len(texts) - 1

\* "| a | b |"
RowLine(row) ==
  [len   |-> FoldLeft(LAMBDA n, c : n + (IF c = <<>> THEN 0 ELSE TextLen(c)), 0, row)
               + 3 * Len(row) + 1,
   texts |-> FlattenSeq(row)]

\* "| --- | --- |"
RuleLine(columns) == [len |-> 6 * columns + 1, texts |-> <<>>]

TableBlock(rows) ==
  [kind  |-> "table",
   item  |-> 0,
   lines |-> << RowLine(rows[1]), RuleLine(Len(rows[1])) >>
               \o [r \in 1 .. Len(rows) - 1 |-> RowLine(rows[r + 1])]]

NonEmpty(s) == SelectSeq(s, LAMBDA x : x # <<>>)

\* Mutant: the columns in which the first row has something.
KeptColumns_OfHeader(rows) ==
  { c \in UNION { DOMAIN rows[r] : r \in DOMAIN rows } :
      c \in DOMAIN rows[1] /\ rows[1][c] # <<>> }

\* Shorter rows are padded with empty cells.
KeptColumns(rows) ==
  { c \in UNION { DOMAIN rows[r] : r \in DOMAIN rows } :
      \E r \in DOMAIN rows : c \in DOMAIN rows[r] /\ rows[r][c] # <<>> }

\* A table of one column or one row is layout: each row is a text.
table_blocks(table) ==
  LET trs     == Css(table, "tr")
      cells   == [r \in DOMAIN trs |->
                    LET tds == Css(trs[r], "td") IN [c \in DOMAIN tds |-> Texts(tds[c])]]
      keep    == KeptColumns(cells)
      columns == SetToSortSeq(keep, LAMBDA a, b : a < b)
      Cell(row, c) == IF c \in DOMAIN row THEN row[c] ELSE <<>>
      rows    == SelectSeq([r \in DOMAIN cells |->
                              [c \in DOMAIN columns |-> Cell(cells[r], columns[c])]],
                           LAMBDA row : NonEmpty(row) # <<>>)
  IN  IF Len(columns) <= 1 \/ Len(rows) < 2
        THEN [r \in DOMAIN rows |-> TextBlock(FlattenSeq(rows[r]))]
        ELSE << TableBlock(rows) >>

Skipped(node) == node.tag = "script" \/ node.hidden

\* Text nodes are no children here; hidden elements are.
HasBlockChildren(node) ==
  \/ \E i \in DOMAIN node.kids : node.kids[i].tag \in {"p", "table"}
  \/ Css(node, "table") # <<>>

RECURSIVE walk_blocks(_)

walk_blocks(node) ==
  LET BlocksOf(child) ==
        CASE child.tag = "#text" \/ Skipped(child) -> <<>>
          [] child.tag = "table" /\ ~Skipped(child) -> table_blocks(child)
          [] OTHER ->
               IF HasBlockChildren(child) THEN walk_blocks(child)
               ELSE IF Texts(child) = <<>> THEN <<>>
               ELSE << TextBlock(Texts(child)) >>
  IN  FlattenSeq([i \in DOMAIN node.kids |-> BlocksOf(node.kids[i])])

=============================================================================
