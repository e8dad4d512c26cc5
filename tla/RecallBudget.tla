----------------------------- MODULE RecallBudget -----------------------------
(***************************************************************************)
(* What of a ranked list crosses a machine surface: haunt.budget for hits and *)
(* events, the dashboard's round over namespaces, and the block of lines a    *)
(* hook prints.  A row is [id, base, snippet, text, cut]: characters of what  *)
(* is never touched, of the snippet, and of the text fields, the first to be  *)
(* sacrificed first; cut is the set of fields that were shortened.            *)
(***************************************************************************)
EXTENDS Integers, SequencesExt

CONSTANTS Frame,      \* characters of the brackets around a list
          Separator,  \* of the comma between two rows
          Marker      \* a shortened field gains in marks and sibling keys

ASSUME BudgetConstants == Frame \in Nat /\ Separator \in Nat /\ Marker \in Nat

Total(lengths) == FoldSeq(LAMBDA x, y : x + y, 0, lengths)
Size(row) == row.base + row.snippet + Total(row.text) + Marker * Cardinality(row.cut)
Framed(rows) ==
    Frame + Separator * Max({0, Len(rows) - 1}) + Total([i \in DOMAIN rows |-> Size(rows[i])])

Slim(rows) == [i \in DOMAIN rows |-> [rows[i] EXCEPT !.snippet = 0]]

Rendered(row, field, keep) == [row EXCEPT !.text[field] = keep, !.cut = @ \cup {field}]
Shrinkable(row) == {field \in DOMAIN row.text : row.text[field] > 0}
Floor(row) == [row EXCEPT !.text = [f \in DOMAIN @ |-> 0], !.cut = Shrinkable(row)]

\* The most of a field that leaves the row within the room, or nothing of it.
Kept(row, field, room) ==
    Max({0} \cup {keep \in 0 .. row.text[field] : Size(Rendered(row, field, keep)) <= room})

\* Faulty variant of Shortened: every field is cut to what fits.
ShortenedInPart(row, room) ==
    LET after[field \in 0 .. Len(row.text)] ==
            IF field = 0 THEN row
            ELSE LET out == after[field - 1] IN
                 IF out.text[field] = 0 THEN out
                 ELSE Rendered(out, field, Kept(out, field, room))
    IN after[Len(row.text)]

\* _truncate_row_text: fields are cut in their order, each only as far as the
\* row still does not fit with the later ones whole.
Shortened(row, room) ==
    LET after[field \in 0 .. Len(row.text)] ==
            IF field = 0 THEN row
            ELSE LET out == after[field - 1] IN
                 IF out.text[field] = 0 \/ Size(out) <= room THEN out
                 ELSE Rendered(out, field, Kept(out, field, room))
    IN after[Len(row.text)]

CanShorten(row, room) == room > 0 /\ Shrinkable(row) # {} /\ Size(Floor(row)) <= room

\* Faulty variant of Fitting: every row that still fits, whatever its rank.
FittingAny(rows, cap) ==
    FoldLeft(LAMBDA out, row : IF Framed(Append(out, row)) <= cap THEN Append(out, row) ELSE out, <<>>, rows)

\* The longest prefix of whole rows.
Fitting(rows, cap) ==
    SubSeq(rows, 1, Max({0} \cup {n \in DOMAIN rows : Framed(SubSeq(rows, 1, n)) <= cap}))

\* apply_recall_budget: untouched, without snippets, a prefix, or the first row
\* with its text cut.
Budgeted(rows, cap) ==
    LET slim == Slim(rows)
        kept == Fitting(slim, cap)
    IN CASE rows = <<>> \/ Framed(rows) <= cap -> rows
         [] Framed(rows) > cap /\ Framed(slim) <= cap -> slim
         [] OTHER -> IF kept = <<>> /\ CanShorten(slim[1], Max({0, cap - Frame}))
                     THEN <<Shortened(slim[1], cap - Frame)>> ELSE kept

\* What the caller is told: recall_budget.
Account(rows, kept) ==
    [available |-> Len(rows), returned |-> Len(kept), dropped |-> Len(rows) - Len(kept),
     truncated |-> {kept[i].id : i \in {j \in DOMAIN kept : kept[j].cut # {}}},
     applied |-> kept # rows]

\* Faulty variant of Interleaved: one namespace after the other.
InterleavedByName(first, second) == first \o second

\* Two namespaces' lists, by local rank.
Interleaved(first, second) ==
    LET at(list, n) == IF n <= Len(list) THEN <<list[n]>> ELSE <<>>
    IN FlattenSeq([n \in 1 .. Max({Len(first), Len(second)}) |-> at(first, n) \o at(second, n)])

\* format_recall_block: the lines that fit with the line that counts the rest.
LinesKept(lines, header, drop, cap) ==
    LET fits(n, room) == header + Total(SubSeq(lines, 1, n)) + n <= room IN
    IF fits(Len(lines), cap) THEN Len(lines)
    ELSE Max({0} \cup {n \in DOMAIN lines : fits(n, cap - drop - 1)})
=============================================================================
