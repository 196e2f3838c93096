----------------------------- MODULE PatchBlock -----------------------------
(***************************************************************************)
(* How `nros ws sync` and `nros ws clean` (cmd/ws.rs) rewrite a Cargo.toml *)
(* around the block they manage: splice_patch_block, strip_managed_block,  *)
(* extract_patch_table, and run_clean's own removal of the block.          *)
(*                                                                         *)
(* A text is a sequence of lines.  A line is a table header, a row with    *)
(* its key and value, a comment, a blank line or one of the two markers.   *)
(***************************************************************************)
EXTENDS Naturals, SequencesExt

Table(name) == [kind |-> "table", key |-> name, value |-> <<>>]
Row(key, value) == [kind |-> "row", key |-> key, value |-> value]
Comment(words) == [kind |-> "comment", key |-> words, value |-> <<>>]
Blank == [kind |-> "blank", key |-> "", value |-> <<>>]
BeginMark == [kind |-> "begin", key |-> "", value |-> <<>>]
EndMark == [kind |-> "end", key |-> "", value |-> <<>>]

\* The header [patch.crates-io].
Patch == Table("patch")

Places(text, line) == {i \in DOMAIN text : text[i] = line}
Has(text, line) == Places(text, line) # {}
First(text, line) == Min(Places(text, line))
From(text, i) == SubSeq(text, i, Len(text))
Before(text, i) == SubSeq(text, 1, i - 1)

\* One blank line that separated the text from what is taken out after it.
DropSeparator(text) ==
    IF Len(text) >= 2 /\ Last(text) = Blank THEN Front(text) ELSE text

TrimBlanks(text) ==
    SubSeq(text, 1, Max({0} \cup {i \in DOMAIN text : text[i] # Blank}))

-----------------------------------------------------------------------------
\* Whether both markers are there in order.
Marked(text) == Has(text, BeginMark) /\ Has(From(text, First(text, BeginMark)), EndMark)

\* strip_managed_block: without a marker the text stays as it is.
Strip(text) ==
    IF ~Marked(text) THEN text
    ELSE LET b == First(text, BeginMark)
         IN  DropSeparator(Before(text, b))
                \o From(text, Min({i \in Places(text, EndMark) : i > b}) + 1)

\* The patch table ends at another table's header or at a marker.
TableEnd(text, header) ==
    Min({Len(text) + 1} \cup
        {i \in DOMAIN text : /\ i > header
                             /\ \/ text[i].kind = "table" /\ text[i] # Patch
                                \/ text[i] = BeginMark})

\* A comment belongs to the line after it and the comments that follow it.
Owner(rows, i) ==
    Min({Len(rows) + 1} \cup {j \in DOMAIN rows : j >= i /\ rows[j].kind # "comment"})

IsManaged(line, names) == line.kind = "row" /\ line.key \in names

\* Mutant: the user's row for a crate that is managed now stays.
PreservedAll(rows, names) == SelectSeq(rows, LAMBDA line : line # Blank)

\* extract_patch_table: the rows for other crates, and the comments, except those
\* that belong to a row which is evicted.
Preserved(rows, names) ==
    LET evicted == {i \in DOMAIN rows : /\ Owner(rows, i) \in DOMAIN rows
                                        /\ IsManaged(rows[Owner(rows, i)], names)}
        kept == {i \in DOMAIN rows : rows[i] # Blank /\ i \notin evicted}
        order == SetToSortSeq(kept, <)
    IN  [k \in DOMAIN order |-> rows[order[k]]]

\* splice_patch_block: the text without table and block, then one header, the rows
\* the user keeps, and the block.
Splice(text, managed) ==
    LET names == {line.key : line \in ToSet(managed)}
        bare == Strip(text)
        header == First(bare, Patch)
        end == TableEnd(bare, header)
        rows == IF Has(bare, Patch)
                THEN Preserved(SubSeq(bare, header + 1, end - 1), names) ELSE <<>>
        head == TrimBlanks(IF Has(bare, Patch)
                           THEN DropSeparator(Before(bare, header)) \o From(bare, end)
                           ELSE bare)
    IN  head \o (IF head = <<>> THEN <<>> ELSE <<Blank>>)
             \o <<Patch>> \o rows \o (IF rows = <<>> THEN <<>> ELSE <<Blank>>)
             \o <<BeginMark>> \o managed \o <<EndMark>>

\* run_clean: the block goes, the header and the user's rows stay.
Unsplice(text) ==
    IF ~(Has(text, BeginMark) /\ Has(text, EndMark)) THEN text
    ELSE LET head == TrimBlanks(Before(text, First(text, BeginMark)))
         IN  (IF head = <<>> THEN <<Blank>> ELSE head) \o <<Blank>>
                \o From(text, First(text, EndMark) + 1)

-----------------------------------------------------------------------------
(* What cargo reads in a text. *)

\* The table a line belongs to.
TableOf(text, i) ==
    LET headers == {j \in 1 .. i : text[j].kind = "table"}
    IN  IF headers = {} THEN "top" ELSE text[Max(headers)].key

RowsAt(text) == {i \in DOMAIN text : text[i].kind = "row"}
RowsOf(text) == {<<TableOf(text, i), text[i]>> : i \in RowsAt(text)}

\* No table is opened twice and no key is given twice in one table.
Parses(text) ==
    /\ \A i, j \in DOMAIN text :
          text[i].kind = "table" /\ text[i] = text[j] => i = j
    /\ \A i, j \in RowsAt(text) :
          TableOf(text, i) = TableOf(text, j) /\ text[i].key = text[j].key => i = j

\* The markers are absent, or there is one of each, in order.
WellMarked(text) ==
    LET begins == Places(text, BeginMark)
        ends == Places(text, EndMark)
    IN  \/ begins = {} /\ ends = {}
        \/ \E b, e \in DOMAIN text : begins = {b} /\ ends = {e} /\ b < e

\* The places outside the block.
Outside(text) ==
    IF Marked(text) /\ WellMarked(text)
    THEN {i \in DOMAIN text : i < First(text, BeginMark) \/ i > First(text, EndMark)}
    ELSE DOMAIN text

\* What the user wrote: rows with their tables, and comments with what is below.
OwnRows(text) == {<<TableOf(text, i), text[i]>> : i \in RowsAt(text) \cap Outside(text)}
OwnNotes(text) ==
    {<<text[i], text[i + 1]>> :
        i \in {i \in Outside(text) :
                 /\ text[i].kind = "comment"
                 /\ i + 1 \in RowsAt(text) \cap Outside(text)}}
=============================================================================
