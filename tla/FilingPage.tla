----------------------------- MODULE FilingPage -----------------------------
(***************************************************************************)
(* FilingText on the blocks of a page: parse10k.py from the tree on.       *)
(***************************************************************************)
EXTENDS FilingText, Parse10k

CONSTANT Pages  \* the pages considered

VARIABLE page  \* the body of the page

PageInit ==
  /\ page \in Pages
  /\ blocks = walk_blocks(page)
  /\ Start

PageNext == Next /\ UNCHANGED page

PageSpec == PageInit /\ [][PageNext]_<<vars, page>>

-----------------------------------------------------------------------------
(***************************************************************************)
(* Properties.                                                             *)
(***************************************************************************)

RECURSIVE VisibleTexts(_)

\* What a reader of the page sees, from top to bottom.
VisibleTexts(node) ==
  LET Of(kid) == IF kid.tag = "#text" THEN <<kid>>
                 ELSE IF Skipped(kid) THEN <<>> ELSE VisibleTexts(kid)
  IN  FlattenSeq([i \in DOMAIN node.kids |-> Of(node.kids[i])])

HasText(node) == \E i \in DOMAIN node.kids : node.kids[i].tag = "#text"

\* The three ways of writing a page that the walk does not cope with: text directly
\* beside blocks, which it drops; hidden elements below a leaf or in a table, which
\* it shows; a table in a table, whose rows it shows twice.
Tidy(body) ==
  LET nodes == ToSet(Descendants(body)) IN
  /\ ~HasText(body)
  /\ \A n \in nodes : n.tag \notin {"table", "tr", "td"} /\ HasBlockChildren(n) => ~HasText(n)
  /\ \A n \in nodes : n.tag = "table" \/ ~HasBlockChildren(n) =>
                        \A m \in ToSet(Descendants(n)) : ~Skipped(m)
  /\ \A n \in nodes : n.tag = "table" => Css(n, "table") = <<>>

BlockTexts(block) == FlattenSeq([l \in DOMAIN block.lines |-> block.lines[l].texts])

SectionTexts(s) ==
  LET all == s.heading \o s.blocks IN FlattenSeq([b \in DOMAIN all |-> BlockTexts(all[b])])

\* Nothing a reader sees is lost, doubled or moved by parse_10k, and nothing hidden
\* is shown: layout, empty rows and columns of tables, and nesting change nothing.
TextKept ==
  pc # "parse" /\ Tidy(page) =>
    FlattenSeq([s \in DOMAIN sections |-> SectionTexts(sections[s])]) = VisibleTexts(page)

=============================================================================
