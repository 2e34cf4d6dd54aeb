--------------------------- MODULE HtmlExtraction ---------------------------
(***************************************************************************)
(* Links, tables and JSON-LD documents taken from the HTML of a page       *)
(* (src/orchestrator/structured_extraction.py).                            *)
(*                                                                         *)
(* The parsers are driven by a stream of tags and data of which the page   *)
(* decides: any of them may be missing, misplaced or repeated.  A position *)
(* in the page is the number of tokens before it; a text is the number of  *)
(* its data tokens.  What the attributes of a link say of its address is   *)
(* its href: "web", "bad" (cannot be parsed, or is too long), "other" or   *)
(* "none".                                                                 *)
(***************************************************************************)
EXTENDS ContentBasics

CONSTANTS
  MaxLinks,     \* MAX_STRUCTURED_LINKS
  MaxTables,    \* MAX_STRUCTURED_TABLES
  MaxRows,      \* MAX_STRUCTURED_TABLE_ROWS
  MaxCells,     \* MAX_STRUCTURED_TABLE_CELLS
  MaxText,      \* MAX_STRUCTURED_TEXT_CHARS
  MaxDocuments  \* MAX_STRUCTURED_DOCUMENTS

ASSUME HtmlConstants ==
  {MaxLinks, MaxTables, MaxRows, MaxCells, MaxText, MaxDocuments} \subseteq Nat \ {0}

\* What the page decides: the tokens of its tags and data, and its JSON-LD blocks.  A block is
\* whether its script ended, whether it is within its bytes, and its roots, or Nil if it is not
\* JSON.  A node has the kind of a document or none, so many fields, and maybe a field that is
\* too long; a root is a node with the nodes of its graph.
Token == [event: {"start", "end", "both", "data"}, tag: STRING, hides: BOOLEAN,
          href: {"web", "bad", "other", "none"}]
Kinds == {"article", "product"}
JsonNode == [kind: Kinds \cup {Nil}, fields: Nat, cut: BOOLEAN]
JsonRoot == [kind: Kinds \cup {Nil}, fields: Nat, cut: BOOLEAN, graph: Seq(JsonNode)]
JsonBlock == [ended: BOOLEAN, small: BOOLEAN, value: Seq(JsonRoot) \cup {Nil}]

\* What the parsers make of it; an end is behind its start.
LinkDraft == [href: {"web", "bad", "other"}, start: Nat, text: Nat]
CellDraft == [start: Nat, text: Nat]
Cell == {c \in [text: Nat, start: Nat, end: Nat] : c.start < c.end}

\* None is neither a cell that is open nor a row.
ASSUME NilIsNoValue == Nil \notin CellDraft \cup Seq(Cell)

-----------------------------------------------------------------------------
(* _StructuredParser                                                       *)

NewParser ==
  [stack |-> <<>>, activeLinks |-> <<>>, activeTables |-> <<>>,
   links |-> <<>>, tables |-> <<>>, omittedLinks |-> 0, omittedTables |-> 0,
   linksTruncated |-> FALSE, tablesTruncated |-> FALSE, cells |-> 0]

\* _bounded_text
Bounded(text) == Min({text, MaxText})
IsCut(text) == text > MaxText

IsHidden(p) == p.stack # <<>> /\ Last(p.stack).hidden
CellsOf(rows) == SumOf([i \in DOMAIN rows |-> Len(rows[i])])

ActiveTable(p) == Last(p.activeTables)
WithTable(p, t) == [p EXCEPT !.activeTables = Append(Front(@), t)]

OmitLink(p) == [p EXCEPT !.omittedLinks = @ + 1, !.linksTruncated = TRUE]

\* Only an address of the web is a link.
FinishLink(p, end) ==
  LET draft == Last(p.activeLinks)
      q == [p EXCEPT !.activeLinks = Front(@)]
  IN CASE draft.href = "other" -> q
       [] draft.href = "bad" \/ (draft.href = "web" /\ Len(q.links) >= MaxLinks) -> OmitLink(q)
       [] OTHER -> [q EXCEPT
            !.links = Append(@, [text |-> Bounded(draft.text), start |-> draft.start, end |-> end]),
            !.linksTruncated = @ \/ IsCut(draft.text)]

OmitCells(p, n) == [p EXCEPT !.omittedTables = @ + n, !.tablesTruncated = TRUE]

FinishCell(p, end) ==
  LET t == ActiveTable(p)
      draft == t.cell
      row == IF t.row = Nil THEN <<>> ELSE t.row
      cell == [text |-> Bounded(draft.text), start |-> draft.start, end |-> end]
  IN CASE draft = Nil -> p
       [] draft # Nil /\ p.cells >= MaxCells ->
            OmitCells(WithTable(p, [t EXCEPT !.cell = Nil]), 1)
       [] OTHER -> [WithTable(p, [t EXCEPT !.cell = Nil, !.row = Append(row, cell)]) EXCEPT
                      !.cells = @ + 1, !.tablesTruncated = @ \/ IsCut(draft.text)]

\* Mutant of FinishRow: the cells of a row that is left out still count.
FinishRowCounting(p, end) ==
  LET q == FinishCell(p, end)
      t == ActiveTable(q)
      closed == WithTable(q, [t EXCEPT !.row = Nil])
  IN CASE t.row = Nil -> q
       [] t.row = <<>> -> closed
       [] t.row \notin {Nil, <<>>} /\ Len(t.rows) < MaxRows ->
            WithTable(q, [t EXCEPT !.row = Nil, !.rows = Append(@, t.row)])
       [] OTHER -> OmitCells(closed, Len(t.row))

\* The cells of a row that is left out make room for others.
FinishRow(p, end) ==
  LET q == FinishCell(p, end)
      t == ActiveTable(q)
      closed == WithTable(q, [t EXCEPT !.row = Nil])
  IN CASE t.row = Nil -> q
       [] t.row = <<>> -> closed
       [] t.row \notin {Nil, <<>>} /\ Len(t.rows) < MaxRows ->
            WithTable(q, [t EXCEPT !.row = Nil, !.rows = Append(@, t.row)])
       [] OTHER -> [OmitCells(closed, Len(t.row)) EXCEPT !.cells = @ - Len(t.row)]

FinishTable(p, end) ==
  LET q == FinishRow(p, end)
      t == ActiveTable(q)
      n == CellsOf(t.rows)
      r == [q EXCEPT !.activeTables = Front(@)]
      caption == IF t.caption = Nil THEN 0 ELSE t.caption
  IN CASE t.rows = <<>> -> r
       [] t.rows # <<>> /\ Len(r.tables) >= MaxTables ->
            [OmitCells(r, Max({1, n})) EXCEPT !.cells = @ - n]
       [] OTHER -> [r EXCEPT
            !.tables = Append(@, [caption |-> Bounded(caption), rows |-> t.rows,
                                  start |-> t.start, end |-> end]),
            !.tablesTruncated = @ \/ IsCut(caption)]

\* handle_starttag in a table, of the tags that are of a table
StartInTable(p, tag, at) ==
  LET q == IF tag = "tr" THEN FinishRow(p, at) ELSE FinishCell(p, at)
  IN CASE tag = "caption" -> WithTable(p, [ActiveTable(p) EXCEPT !.caption = 0, !.captionOpen = TRUE])
       [] tag = "tr" -> WithTable(q, [ActiveTable(q) EXCEPT !.row = <<>>])
       [] tag = "td" -> WithTable(q, [ActiveTable(q) EXCEPT !.row = IF @ = Nil THEN <<>> ELSE @,
                                        !.cell = [start |-> at, text |-> 0]])
       [] OTHER -> p

\* handle_starttag; br stands for the tags without an end
StartTag(p, token, at) ==
  LET hidden == IsHidden(p) \/ token.hides
      q == IF token.tag = "br" THEN p
           ELSE [p EXCEPT !.stack = Append(@, [tag |-> token.tag, hidden |-> hidden])]
  IN CASE hidden -> q
       [] ~hidden /\ token.tag = "a" /\ token.href # "none" ->
            [q EXCEPT !.activeLinks = Append(@, [href |-> token.href, start |-> at, text |-> 0])]
       [] ~hidden /\ token.tag = "table" ->
            [q EXCEPT !.activeTables = Append(@, [start |-> at, rows |-> <<>>, row |-> Nil,
                                        cell |-> Nil, caption |-> Nil, captionOpen |-> FALSE])]
       [] ~hidden /\ token.tag \notin {"a", "table"} /\ q.activeTables # <<>> ->
            StartInTable(q, token.tag, at)
       [] OTHER -> q

\* handle_endtag in a table
EndInTable(p, tag, end) ==
  CASE tag = "td" -> FinishCell(p, end)
    [] tag = "tr" -> FinishRow(p, end)
    [] tag = "caption" -> WithTable(p, [ActiveTable(p) EXCEPT !.captionOpen = FALSE])
    [] tag = "table" -> FinishTable(p, end)
    [] OTHER -> p

\* handle_endtag: an end tag that matches nothing still ends what is active.
EndTag(p, tag, end) ==
  LET open == {i \in DOMAIN p.stack : p.stack[i].tag = tag}
      hidden == open # {} /\ p.stack[Max(open)].hidden
      q == IF tag = "a" /\ p.activeLinks # <<>> THEN FinishLink(p, end) ELSE p
      r == IF q.activeTables # <<>> THEN EndInTable(q, tag, end) ELSE q
  IN [(IF hidden THEN p ELSE r) EXCEPT
        !.stack = IF open = {} THEN @ ELSE SubSeq(@, 1, Max(open) - 1)]

\* handle_data
Data(p) ==
  LET q == IF p.activeLinks = <<>> THEN p
           ELSE [p EXCEPT !.activeLinks[Len(p.activeLinks)].text = @ + 1]
      t == ActiveTable(q)
  IN CASE IsHidden(p) -> p
       [] ~IsHidden(p) /\ q.activeTables # <<>> /\ t.cell # Nil ->
            WithTable(q, [t EXCEPT !.cell.text = @ + 1])
       [] ~IsHidden(p) /\ q.activeTables # <<>> /\ t.cell = Nil /\ t.captionOpen ->
            WithTable(q, [t EXCEPT !.caption = @ + 1])
       [] OTHER -> q

\* handle_startendtag is the start and the end in one place.
Handle(p, token, at) ==
  CASE token.event = "start" -> StartTag(p, token, at)
    [] token.event = "end" -> EndTag(p, token.tag, at + 1)
    [] token.event = "both" -> EndTag(StartTag(p, token, at), token.tag, at + 1)
    [] OTHER -> Data(p)

\* finish: what is still open ends with the page.
Finished(p, end) ==
  LET q == Looped(LAMBDA r, link : FinishLink(r, end), p, p.activeLinks)
  IN Looped(LAMBDA r, table : FinishTable(r, end), q, q.activeTables)

-----------------------------------------------------------------------------
(* _JsonLdParser                                                           *)

NewLdParser == [seen |-> 0, documents |-> <<>>, omitted |-> 0, truncated |-> FALSE]

OmitLd(l) == [l EXCEPT !.omitted = @ + 1, !.truncated = TRUE]

\* _json_ld_nodes: what exceeds its limits is not looked at.
FirstOf(s, n) == SubSeq(s, 1, Min({n, Len(s)}))
Nodes(value) ==
  FirstOf(Looped(LAMBDA nodes, root : nodes \o <<root>> \o FirstOf(root.graph, MaxDocuments),
                 <<>>, FirstOf(value, MaxDocuments)),
          2 * MaxDocuments)

\* _structured_document: a node of another kind, or without a field, is no document.
IsDocument(node) == node.kind # Nil /\ node.fields > 0

\* Mutant of Node: a document above the limit is dropped without a word.
NodeSilent(l, node) ==
  LET q == IF node.kind # Nil /\ node.cut THEN OmitLd(l) ELSE l
  IN IF ~IsDocument(node) \/ Len(q.documents) >= MaxDocuments THEN q
     ELSE [q EXCEPT !.documents = Append(@, [kind |-> node.kind, fields |-> node.fields])]

Node(l, node) ==
  LET q == IF node.kind # Nil /\ node.cut THEN OmitLd(l) ELSE l
  IN CASE ~IsDocument(node) -> q
       [] IsDocument(node) /\ Len(q.documents) >= MaxDocuments -> OmitLd(q)
       [] OTHER -> [q EXCEPT !.documents = Append(@, [kind |-> node.kind, fields |-> node.fields])]

\* handle_starttag, handle_data and handle_endtag, or finish
Block(l, b) ==
  LET q == [l EXCEPT !.seen = @ + 1]
  IN IF ~b.ended \/ ~b.small \/ q.seen > MaxDocuments \/ b.value = Nil THEN OmitLd(q)
     ELSE Looped(Node, q, Nodes(b.value))

-----------------------------------------------------------------------------
(* The extraction of each format                                           *)

EmptyExtraction(format) ==
  [format |-> format, status |-> "unsupported", document |-> FALSE, links |-> <<>>,
   tables |-> <<>>, documents |-> <<>>, data |-> Nil, fields |-> {}, failures |-> 0,
   usage |-> FALSE, omitted |-> 0, omittedSource |-> FALSE]

\* _collection_status
CollectionStatus(truncated, populated) ==
  CASE truncated -> "truncated" [] ~truncated /\ populated -> "ok" [] OTHER -> "empty"

\* _structured_result of a page of which the bytes behind the limit were left out, or that
\* the parser gave up
StructuredResult(format, p, l, left, malformed) ==
  LET found == [EmptyExtraction(format) EXCEPT !.document = TRUE, !.omittedSource = left]
  IN CASE format = "links" ->
            [found EXCEPT !.links = p.links, !.omitted = p.omittedLinks,
               !.status = CollectionStatus(left \/ p.linksTruncated \/ malformed, p.links # <<>>)]
       [] format = "tables" ->
            [found EXCEPT !.tables = p.tables, !.omitted = p.omittedTables,
               !.status = CollectionStatus(left \/ p.tablesTruncated \/ malformed, p.tables # <<>>)]
       [] format = "json_ld" ->
            [found EXCEPT !.documents = l.documents, !.omitted = l.omitted,
               !.status = CollectionStatus(left \/ l.truncated, l.documents # <<>>)]
       [] OTHER -> EmptyExtraction(format)
=============================================================================
