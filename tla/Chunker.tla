------------------------------- MODULE Chunker -------------------------------
(***************************************************************************)
(* ingestion/chunker.py, the functions that cut text into pieces.  A block *)
(* is what parse10k.py yields; of its content the model keeps the lines it *)
(* is cut at: the sentences of a text, the lines of a table, of which the  *)
(* first is the header row and the second "| --- | --- |".  Of a piece of  *)
(* text it keeps the length in characters, the header row it begins with   *)
(* if it comes from a table, and its units: the sentences, or the rows     *)
(* below the header, that it is made of.                                   *)
(***************************************************************************)
EXTENDS Naturals, Sequences

CONSTANTS
  Text,            \* the text nodes that a page may have
  TargetTokens,    \* TARGET_TOKENS
  MaxTokens,       \* MAX_TOKENS
  MinMergeTokens,  \* MIN_MERGE_TOKENS
  MergeSlack       \* what merging may add to MAX_TOKENS

TextLine == [len : Nat, texts : Seq(Text)]

\* The item is the place in ITEM_ORDER of the "Item N" the block begins with, 0 if
\* there is none.  A table has rows below its header.
Block ==
  { b \in [kind : {"text", "table"}, item : Nat, lines : Seq(TextLine)] :
      /\ b.lines # <<>>
      /\ b.kind = "table" => Len(b.lines) > 2 /\ b.lines[1].texts # <<>> }

Piece == [len : Nat, header : Seq(Text), units : Seq(Seq(Text))]

approx_tokens(piece) == IF piece.len < 4 THEN 1 ELSE piece.len \div 4

\* One string after another, the separator being n characters long.
Glue(p, q, n) ==
  [len    |-> p.len + n + q.len,
   header |-> p.header \o q.header,
   units  |-> p.units \o q.units]

\* sep.join(pieces)
Join(pieces, n) ==
  LET joined[i \in 1 .. Len(pieces)] ==
        IF i = 1 THEN pieces[1] ELSE Glue(joined[i - 1], pieces[i], n)
  IN  joined[Len(pieces)]

\* What lines m to n of a block are, each by itself.
Cut(block, m, n) ==
  [l \in 1 .. n - m + 1 |->
     LET line == block.lines[m + l - 1]
     IN  [len |-> line.len, header |-> <<>>, units |-> <<line.texts>>]]

\* Mutant: the tokens of a new part are not counted.
Packed_FirstUncounted(pieces, start, limit, n) ==
  LET packed[i \in 0 .. Len(pieces)] ==
        IF i = 0 THEN [parts |-> <<>>, tokens |-> start]
        ELSE LET acc == packed[i - 1]
                 p   == pieces[i]
                 top == Len(acc.parts)
             IN  IF acc.parts = <<>> \/ acc.tokens + approx_tokens(p) > limit
                   THEN [parts |-> Append(acc.parts, p), tokens |-> start]
                   ELSE [parts  |-> [acc.parts EXCEPT ![top] = Glue(@, p, n)],
                         tokens |-> acc.tokens + approx_tokens(p)]
  IN  packed[Len(pieces)].parts

\* Pieces in a row are joined as long as their tokens, and start, add up to no more
\* than the limit: the loop that three functions have.  The last part is what the
\* code has in buf, of buf_tokens.
Packed(pieces, start, limit, n) ==
  LET packed[i \in 0 .. Len(pieces)] ==
        IF i = 0 THEN [parts |-> <<>>, tokens |-> start]
        ELSE LET acc == packed[i - 1]
                 p   == pieces[i]
                 top == Len(acc.parts)
             IN  IF acc.parts = <<>> \/ acc.tokens + approx_tokens(p) > limit
                   THEN [parts  |-> Append(acc.parts, p),
                         tokens |-> start + approx_tokens(p)]
                   ELSE [parts  |-> [acc.parts EXCEPT ![top] = Glue(@, p, n)],
                         tokens |-> acc.tokens + approx_tokens(p)]
  IN  packed[Len(pieces)].parts

\* The content of a text block.
Content(block) == Join(Cut(block, 1, Len(block.lines)), 1)

split_long_text(block) ==
  IF approx_tokens(Content(block)) <= MaxTokens
    THEN <<Content(block)>>
    ELSE Packed(Cut(block, 1, Len(block.lines)), 0, TargetTokens, 1)

Header(block) ==
  [len    |-> block.lines[1].len + 1 + block.lines[2].len,
   header |-> block.lines[1].texts,
   units  |-> <<>>]

\* Mutant: only the first part gets the header.
split_table_HeaderOnce(block) ==
  LET header == Header(block)
      body   == Cut(block, 3, Len(block.lines))
      whole  == Glue(header, Join(body, 1), 1)
      parts  == Packed(body, approx_tokens(header), MaxTokens, 1)
  IN  IF approx_tokens(whole) <= MaxTokens
        THEN <<whole>>
        ELSE [p \in DOMAIN parts |-> IF p = 1 THEN Glue(header, parts[p], 1) ELSE parts[p]]

split_table(block) ==
  LET header == Header(block)
      body   == Cut(block, 3, Len(block.lines))
      whole  == Glue(header, Join(body, 1), 1)
      parts  == Packed(body, approx_tokens(header), MaxTokens, 1)
  IN  IF approx_tokens(whole) <= MaxTokens
        THEN <<whole>>
        ELSE [p \in DOMAIN parts |-> Glue(header, parts[p], 1)]

\* flush, after all the parts of the text between two tables: (False, body) for each.
Flushed(parts) ==
  LET packed == Packed(parts, 0, TargetTokens, 2)
  IN  [p \in DOMAIN packed |-> [is_table |-> FALSE, body |-> packed[p]]]

Tables(block) ==
  LET parts == split_table(block)
  IN  [p \in DOMAIN parts |-> [is_table |-> TRUE, body |-> parts[p]]]

Mergeable(previous, proto) ==
  /\ ~proto.is_table
  /\ ~previous.is_table
  /\ approx_tokens(proto.body) < MinMergeTokens
  /\ approx_tokens(previous.body) + approx_tokens(proto.body) <= MaxTokens + MergeSlack

=============================================================================
