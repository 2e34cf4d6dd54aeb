-------------------------- MODULE StructuredFetch --------------------------
(***************************************************************************)
(* The structured part of a fetched page (src/orchestrator/                *)
(* fetch_pipeline.py): the page is parsed, a model is asked for the data   *)
(* of a schema, its answer is checked against the schema and the page, and *)
(* what does not fit the response is left out again.                       *)
(*                                                                         *)
(* A text is a sequence of words.  Data maps the names of properties to    *)
(* values; a value is an array or not, and has leaves of a type and a text.*)
(***************************************************************************)
EXTENDS HtmlExtraction

CONSTANTS
  Jobs,          \* bound: pages and requests; see MCPageContent
  ModelReplies,  \* bound: [data, evidence] the model may answer
  MaxFields,     \* MAX_EXTRACTION_FIELDS
  MaxFailures,   \* MAX_EXTRACTION_VALIDATION_FAILURES
  MaxTokens,     \* bound: tokens of a page
  MaxBlocks      \* bound: JSON-LD blocks of a page

Formats == {"links", "tables", "json_ld", "json_schema"}
SchemaTypes == {"object", "array", "string", "number", "integer", "boolean"}
Value == [array: BOOLEAN, leaves: Seq([type: SchemaTypes \cup {"null"}, text: STRING \cup {Nil}])]

ASSUME StructuredConstants ==
  /\ {MaxFields, MaxFailures} \subseteq Nat \ {0}
  /\ {MaxTokens, MaxBlocks} \subseteq Nat

\* schema_contract.py:23 has no type of null.
ASSUME JobsAreRequests ==
  \A j \in Jobs :
    /\ j.formats \in Seq(Formats) /\ j.tokens \subseteq Token /\ j.blocks \subseteq JsonBlock
    /\ IsFiniteSet(j.schema.required)
    /\ \A n \in DOMAIN j.schema.properties : j.schema.properties[n].type \in SchemaTypes
    /\ j.text \in Seq(STRING) /\ j.budget \in Nat

\* What is JSON is finite, and an object is not null.
ASSUME RepliesAreObjects ==
  \A r \in ModelReplies :
    /\ r.data # Nil /\ IsFiniteSet(DOMAIN r.data)
    /\ \A n \in DOMAIN r.data : r.data[n] \in Value
    /\ \A path \in DOMAIN r.evidence : r.evidence[path] \in Seq(STRING)

VARIABLES
  structStage, \* what is done next
  job,         \* the request and the page, fixed
  parser,      \* _StructuredParser
  ld,          \* _JsonLdParser
  position,    \* tokens of the page read
  seen,        \* history: links, cells and documents of the page, crowded those of a block
               \* that exceeds the limits of _json_ld_nodes
  code,        \* outcome of the fetch
  extractions  \* FetchResult.structured

structVars == <<structStage, job, parser, ld, position, seen, code, extractions>>

Reasons == {"model_unavailable", "model_timeout", "model_error", "prompt_too_large",
            "output_too_large", "malformed_output"}

-----------------------------------------------------------------------------
(* The answer of the model                                                 *)

WordsOf(text) == {text[i] : i \in DOMAIN text}

\* scalar_fields: the JSON pointers of the leaves
Paths(data) == UNION {{<<name, i>> : i \in DOMAIN data[name].leaves} : name \in DOMAIN data}
Leaf(data, path) == data[path[1]].leaves[path[2]]

\* _ExtractedValueValidator: what of the data is not as the schema says
Mismatches(schema, data) ==
  {[path |-> name, code |-> "required_missing"] : name \in schema.required \ DOMAIN data}
  \cup {[path |-> name, code |-> "additional_property"] : name \in DOMAIN data \ DOMAIN schema.properties}
  \cup {[path |-> name, code |-> "type_mismatch"] :
          name \in {n \in DOMAIN data \cap DOMAIN schema.properties :
                      data[n].array # schema.properties[n].array}}
  \cup {[path |-> path, code |-> "type_mismatch"] :
          path \in {q \in Paths(data) :
                      /\ q[1] \in DOMAIN schema.properties
                      /\ data[q[1]].array = schema.properties[q[1]].array
                      /\ Leaf(data, q).type # schema.properties[q[1]].type}}

\* _evidence_supports_value: an empty text is in no excerpt.
Supports(excerpt, leaf) == leaf.text # Nil /\ leaf.text \in WordsOf(excerpt)

\* _schema_field: a leaf without evidence on the page; null is no field.
Ungrounded(reply, text) ==
  {path \in Paths(reply.data) :
     /\ Leaf(reply.data, path).type # "null"
     /\ \/ path \notin DOMAIN reply.evidence \/ reply.evidence[path] = <<>>
        \/ Occurrences(reply.evidence[path], text) = {}
        \/ ~Supports(reply.evidence[path], Leaf(reply.data, path))}

\* Mutant of Verdict: a leaf that is not on the page only loses its field.
VerdictLenient(schema, reply, text) ==
  Cardinality(Mismatches(schema, reply.data))
  + IF Cardinality(Paths(reply.data)) > MaxFields THEN 1 ELSE 0

\* _validated_schema_extraction: how many failures there are.  Of too many leaves only the
\* first are looked at, but being too many is a failure.
Verdict(schema, reply, text) ==
  Cardinality(Mismatches(schema, reply.data))
  + Cardinality(Ungrounded(reply, text))
  + IF Cardinality(Paths(reply.data)) > MaxFields THEN 1 ELSE 0

Validated(schema, reply, text) ==
  LET failures == Verdict(schema, reply, text)
      found == [EmptyExtraction("json_schema") EXCEPT !.document = TRUE, !.usage = TRUE,
                                            !.failures = Min({failures, MaxFailures})]
  IN IF failures > 0 THEN [found EXCEPT !.status = "validation_failed"]
     ELSE [found EXCEPT !.status = "ok", !.data = reply.data,
             !.fields = {[path |-> p, text |-> Leaf(reply.data, p).text] : p \in Paths(reply.data)}]

\* _model_failure_extraction
ModelFailure(reason) ==
  [EmptyExtraction("json_schema") EXCEPT
     !.status = IF reason = "model_unavailable" THEN "unsupported" ELSE "model_failed",
     !.document = reason # "model_unavailable", !.failures = 1, !.usage = TRUE]

-----------------------------------------------------------------------------
(* Reading the page                                                        *)

\* _content_payload up to the parsers: unsupported unless there is a page to parse.
Payload ==
  /\ structStage = "fetched"
  /\ extractions' = [k \in DOMAIN job.formats |-> EmptyExtraction(job.formats[k])]
  /\ code' = CASE job.outcome # "content" -> job.outcome
               [] job.outcome = "content" /\ job.cleaned = "fails" -> "local_processing_failure"
               [] job.outcome = "content" /\ job.cleaned = "empty" -> "extraction_empty"
               [] OTHER -> "content"
  /\ structStage' = IF code' = "content" /\ job.formats # <<>> /\ job.source THEN "read" ELSE "schema"
  /\ UNCHANGED <<job, parser, ld, position, seen>>

\* feed: the next token.  A link is one that is visible and has an address of the web; a cell
\* is one that is visible in a table.
ReadToken ==
  /\ structStage = "read" /\ position < MaxTokens
  /\ \E t \in job.tokens :
       LET visible == t.event \in {"start", "both"} /\ ~IsHidden(parser) /\ ~t.hides
       IN /\ parser' = Handle(parser, t, position)
          /\ seen' = [seen EXCEPT
               !.links = @ + IF visible /\ t.tag = "a" /\ t.href \in {"web", "bad"} THEN 1 ELSE 0,
               !.cells = @ + IF visible /\ t.tag = "td" /\ parser.activeTables # <<>> THEN 1 ELSE 0]
  /\ position' = position + 1
  /\ UNCHANGED <<structStage, job, ld, code, extractions>>

\* What the page says, whatever is read of it: every root and every node of every graph.
AllNodes(value) == Looped(LAMBDA nodes, root : nodes \o <<root>> \o root.graph, <<>>, value)
DocumentsIn(value) ==
  IF value = Nil THEN 0
  ELSE Cardinality({i \in DOMAIN AllNodes(value) : IsDocument(AllNodes(value)[i])})
IsCrowded(value) ==
  /\ value # Nil
  /\ \/ Len(value) > MaxDocuments
     \/ \E k \in DOMAIN value : Len(value[k].graph) > MaxDocuments
     \/ Len(AllNodes(value)) > 2 * MaxDocuments

\* A block that does not end is the last one.
ReadBlock ==
  /\ structStage = "read" /\ ld.seen < MaxBlocks
  /\ \E b \in job.blocks :
       /\ ld' = Block(ld, b)
       /\ seen' = IF IsCrowded(b.value)
                  THEN [seen EXCEPT !.crowded = @ + DocumentsIn(b.value)]
                  ELSE [seen EXCEPT !.documents = @ + DocumentsIn(b.value)]
       /\ structStage' = IF b.ended THEN "read" ELSE "extract"
  /\ UNCHANGED <<job, parser, position, code, extractions>>

\* finish and extract_structured: there may be more of the page behind the limit of bytes, and
\* the parser may have failed on what is next.
Extract ==
  /\ structStage \in {"read", "extract"} /\ position > 0
  /\ LET p == Finished(parser, position)
     IN /\ parser' = p
        /\ \E left, malformed \in BOOLEAN :
             extractions' = [k \in DOMAIN job.formats |->
                               StructuredResult(job.formats[k], p, ld, left, malformed)]
  /\ structStage' = "schema"
  /\ UNCHANGED <<job, ld, position, seen, code>>

\* LlmStructuredExtractor.extract and apply_schema_extraction
AskModel ==
  /\ structStage = "schema"
  /\ IF code = "content" /\ \E k \in DOMAIN job.formats : job.formats[k] = "json_schema"
     THEN \E x \in {ModelFailure(reason) : reason \in Reasons}
                   \cup {Validated(job.schema, reply, job.text) : reply \in ModelReplies} :
            extractions' = [k \in DOMAIN job.formats |->
                              IF job.formats[k] = "json_schema" THEN x ELSE extractions[k]]
     ELSE UNCHANGED extractions
  /\ structStage' = "bound"
  /\ UNCHANGED <<job, parser, ld, position, seen, code>>

-----------------------------------------------------------------------------
(* Bounding the response                                                   *)

TableCells(x) == SumOf([k \in DOMAIN x.tables |-> CellsOf(x.tables[k].rows)])

\* Sizes are counted in items.
ExtractionSize(x) == 1 + Len(x.links) + TableCells(x) + Len(x.documents) + Cardinality(x.fields)
             + IF x.data = Nil THEN 0 ELSE 1
ResultSize == 1 + SumOf([k \in DOMAIN extractions |-> ExtractionSize(extractions[k])])

HasPayload(x) ==
  x.links # <<>> \/ x.tables # <<>> \/ x.documents # <<>> \/ x.data # Nil \/ x.fields # {}

Cut(x, n) == [x EXCEPT !.omitted = @ + n, !.status = "truncated"]

\* _trim_structured_extraction: one link, row, table or document less, or no data at all.
Trimmed(x) ==
  LET t == Last(x.tables)
  IN CASE x.links # <<>> -> Cut([x EXCEPT !.links = Front(@)], 1)
       [] x.tables # <<>> /\ Len(t.rows) > 1 ->
            Cut([x EXCEPT !.tables = Append(Front(@), [t EXCEPT !.rows = Front(@)])],
                Max({1, Len(Last(t.rows))}))
       [] x.tables # <<>> /\ Len(t.rows) <= 1 ->
            Cut([x EXCEPT !.tables = Front(@)], Max({1, CellsOf(t.rows)}))
       [] x.documents # <<>> -> Cut([x EXCEPT !.documents = Front(@)], 1)
       [] OTHER -> [EmptyExtraction("json_schema") EXCEPT !.status = "validation_failed", !.document = x.document,
                      !.failures = 1, !.usage = x.usage, !.omitted = Max({1, Cardinality(x.fields)})]

\* _bound_fetch_result: the largest extraction is trimmed first.
BoundResponse ==
  LET candidates == {k \in DOMAIN extractions : HasPayload(extractions[k])}
  IN /\ structStage = "bound"
     /\ IF ResultSize <= job.budget \/ candidates = {}
        THEN structStage' = "done" /\ UNCHANGED extractions
        ELSE /\ \E k \in candidates :
                  /\ \A i \in candidates : ExtractionSize(extractions[i]) <= ExtractionSize(extractions[k])
                  /\ extractions' = [extractions EXCEPT ![k] = Trimmed(@)]
             /\ UNCHANGED structStage
     /\ UNCHANGED <<job, parser, ld, position, seen, code>>

-----------------------------------------------------------------------------
\* Nothing, or a page that was fetched
StructuredStart(stage, j) ==
  /\ structStage = stage /\ job = j
  /\ parser = NewParser /\ ld = NewLdParser /\ position = 0
  /\ seen = [links |-> 0, cells |-> 0, documents |-> 0, crowded |-> 0]
  /\ code = Nil /\ extractions = <<>>

StructuredIdle == StructuredStart("idle", Nil)
StructuredInit == \E j \in Jobs : StructuredStart("fetched", j)

StructuredNext == Payload \/ ReadToken \/ ReadBlock \/ Extract \/ AskModel \/ BoundResponse

-----------------------------------------------------------------------------
(* Properties                                                              *)

\* StructuredExtraction.validate_payload, what the contract accepts
Spans(x) ==
  Range(x.links) \cup Range(x.tables)
  \cup UNION {Range(r) : r \in UNION {Range(t.rows) : t \in Range(x.tables)}}

Acceptable(x) ==
  LET payloads == {f \in {"links", "tables", "json_ld", "json_schema"} :
        CASE f = "links" -> x.links # <<>> [] f = "tables" -> x.tables # <<>>
          [] f = "json_ld" -> x.documents # <<>> [] OTHER -> x.data # Nil \/ x.fields # {}}
  IN /\ payloads \subseteq {x.format}
     /\ x.format # "json_schema" => /\ x.failures = 0 /\ ~x.usage
                                    /\ x.status \notin {"validation_failed", "model_failed"}
     /\ x.format = "json_schema" => x.status \notin {"empty", "truncated"}
     /\ x.format = "json_schema" /\ x.status = "ok" => x.data # Nil /\ x.failures = 0
     /\ x.status \in {"validation_failed", "model_failed"} => x.failures > 0
     /\ IF x.status = "unsupported" THEN ~x.document /\ payloads = {} ELSE x.document
     /\ TableCells(x) <= MaxCells /\ x.failures <= MaxFailures /\ Cardinality(x.fields) <= MaxFields
     /\ Len(x.links) <= MaxLinks /\ Len(x.tables) <= MaxTables /\ Len(x.documents) <= MaxDocuments
     /\ \A t \in Range(x.tables) : Len(t.rows) <= MaxRows
     /\ \A s \in Spans(x) : 0 <= s.start /\ s.start < s.end

\* README.md:418 ("accepts a leaf only when its value occurs in an exact cleaned-Markdown
\* evidence span", "all-or-nothing"): whatever the page, the model and the budget, no extraction
\* is one the contract refuses, which would fail the whole request; and data that is handed out
\* is as the schema says, and every word of it is on the page.
ExtractionsAreSound ==
  \A k \in DOMAIN extractions :
    LET x == extractions[k]
    IN /\ Acceptable(x)
       /\ x.data # Nil =>
            /\ x.status = "ok" /\ Mismatches(job.schema, x.data) = {}
            /\ {f.path : f \in x.fields} = Paths(x.data)
            /\ \A f \in x.fields : f.text \in WordsOf(job.text)

\* README.md:420 ("Omission counts are profile-specific"): every link and every cell that is
\* visible on the page is in the extraction or counted as omitted, however the tags are nested,
\* the limits fall and the response is bounded.  "ok" and "empty" mean that no link and no
\* cell is missing, and of the JSON-LD documents none but those of a block that has more
\* roots or nodes than _json_ld_nodes looks at (see DocumentsAreCounted).
NothingIsLost ==
  structStage \in {"schema", "bound", "done"} =>
    /\ parser.cells = TableCells(parser)
    /\ \A k \in DOMAIN extractions :
         LET x == extractions[k]
         IN /\ x.format = "links" /\ x.document => Len(x.links) + x.omitted = seen.links
            /\ x.format = "tables" /\ x.document => TableCells(x) + x.omitted = seen.cells
            /\ x.format = "json_ld" /\ x.status \in {"ok", "empty"} =>
                 Len(x.documents) + x.omitted >= seen.documents
            /\ x.format # "json_schema" /\ x.status \in {"ok", "empty"} =>
                 x.omitted = 0 /\ ~x.omittedSource

\* test_json_ld_block_and_document_limits_are_reported (test_structured_extraction.py:260):
\* a document the limits leave out is reported, so a page whose extraction is "ok" or
\* "empty" has no document that is not in it.
DocumentsAreCounted ==
  structStage \in {"schema", "bound", "done"} =>
    \A k \in DOMAIN extractions :
      LET x == extractions[k]
      IN x.format = "json_ld" /\ x.status \in {"ok", "empty"} =>
           Len(x.documents) + x.omitted >= seen.documents + seen.crowded
=============================================================================
