---------------------------- MODULE MCFilingText ----------------------------
(***************************************************************************)
(* Pages for FilingPage: every short sequence of paragraphs and headings,  *)
(* every small nesting of elements, every small table, every short         *)
(* sequence of blocks of the sizes the chunker tells apart.                *)
(***************************************************************************)
EXTENDS FilingPage

UpTo(S, n) == UNION { [1 .. k -> S] : k \in 0 .. n }

Hide(node) == [node EXCEPT !.hidden = TRUE]

Para(texts) == Node("p", texts)

Body(kids) == Node("body", kids)

\* A table of cells, each a sequence of text nodes.
Table(rows) ==
  Node("table", [r \in DOMAIN rows |->
    Node("tr", [c \in DOMAIN rows[r] |-> Node("td", rows[r][c])])])

t1 == TextNode(0, 3)
t2 == TextNode(0, 5)

\* Headings of three items, one too long to be a heading.
Lines == { t1, TextNode(1, 5), TextNode(2, 5), TextNode(3, 5), TextNode(2, MaxHeadingLen + 1) }

Headed == { Body([i \in DOMAIN s |-> Para(<<s[i]>>)]) : s \in UpTo(Lines, 5) }

Grid == << << <<t1>>, <<t2>> >>, << <<t2>>, <<t1>> >> >>

Leaves ==
  LET plain == { Node(tag, kids) : tag \in {"p", "span"}, kids \in UpTo({t1, t2}, 2) }
                 \cup { Node("script", <<t1>>), Table(Grid), Table(<< << <<t2>> >> >>) }
  IN  plain \cup { Hide(n) : n \in plain }

Nested == { Body(<<Node(tag, kids)>>) :
              tag \in {"p", "span"}, kids \in UpTo(Leaves \cup {t1, t2}, 2) }

Tabled == { Body(<<Table(rows)>>) : rows \in UpTo(UpTo({<<>>, <<t1>>, <<t2>>}, 2), 3) }
            \cup { Body(<<Table(<< << <<Table(Grid)>>, <<t1>> >>, << <<t2>>, <<t1>> >> >>)>>) }

Sizes == { Para(<<TextNode(0, 7)>>),                           \* to be merged
           Para(<<TextNode(0, 12), TextNode(0, 14)>>),         \* a paragraph
           Para([i \in 1 .. 5 |-> TextNode(0, 12)]),           \* to be split
           Para(<<TextNode(0, 90)>>),                          \* a sentence that cannot be
           Table(Grid),
           Table([i \in 1 .. 6 |-> << <<t1>>, <<t2>> >>]) }    \* to be split

Sized == { Body(<<Para(<<TextNode(1, 5)>>)>> \o s) : s \in UpTo(Sizes, 4) }

\* Many short lines: what rounding down adds up to.
Short == { Body([i \in 1 .. n |-> Para(<<TextNode(0, k)>>)]) : n \in 5 .. 20, k \in {3, 6, 7, 8} }

MCPages == Headed \cup Nested \cup Tabled \cup Sized \cup Short

MCText == [tag : {"#text"}, hidden : {FALSE}, kids : {<<>>}, item : Nat, len : Nat]

\* What the walk yields is what Init allows: PageSpec is Spec on these pages.
PagesAssumption == \A p \in MCPages : walk_blocks(p) \in Seq(Block)

ASSUME PagesAssumption

=============================================================================
