--------------------------- MODULE MCPageContent ----------------------------
(* Small texts to chunk, and small pages to take structured data from. *)
EXTENDS PageContent

CONSTANTS east, north, west

-----------------------------------------------------------------------------
(* Every text of at most four characters, and some of up to eleven *)
Strings(S, n) == UNION {[1..k -> S] : k \in 0..n}
MCTexts ==
  Strings({"w", " ", "n", "t"}, 4)
  \cup {<<"w", " ", "w", ".", " ", "w", "n", "w", " ", "w">>,
        <<"w", ".", " ", "w", "n", "n", "w", " ", "w", " ", "w">>,
        <<"w", " ", "w", "n", "w", "n", "n", "w">>,
        <<"w", "t", "w", " ", "w", " ", " ", "w">>}

\* The last one is refused.
MCStrategies ==
  {[initial |-> 1, min |-> 1, max |-> 2], [initial |-> 1, min |-> 2, max |-> 3],
   [initial |-> 2, min |-> 1, max |-> 3], [initial |-> 3, min |-> 1, max |-> 2]}

MCDirections == {east, north, west}
MCCosine ==
  [p \in MCDirections \X MCDirections |->
     CASE p[1] = p[2] -> 1 [] {p[1], p[2]} = {east, west} -> -1 [] OTHER -> 0]

-----------------------------------------------------------------------------
Tag(event, tag, hides, href) == [event |-> event, tag |-> tag, hides |-> hides, href |-> href]
Start(tag) == Tag("start", tag, FALSE, "none")
End(tag) == Tag("end", tag, FALSE, "none")
Link(href) == Tag("start", "a", FALSE, href)
Hiding == Tag("start", "div", TRUE, "none")
Text == Tag("data", "", FALSE, "none")

LinkTags == {Link("web"), Link("bad"), Link("other"), Tag("both", "a", FALSE, "web"), End("a"),
             Hiding, End("div"), Tag("start", "br", TRUE, "none"), Text}
TableTags == {Start("table"), Start("tr"), Start("td"), End("tr"), End("table"), Hiding}
CellTags == {Start("table"), Start("caption"), Start("td"), End("td"), End("caption"), End("tr"),
             Hiding, End("div"), Text}

GraphNode(kind, n, cut) == [kind |-> kind, fields |-> n, cut |-> cut]
Root(kind, n, cut, graph) == [kind |-> kind, fields |-> n, cut |-> cut, graph |-> graph]
Whole(value) == [ended |-> TRUE, small |-> TRUE, value |-> value]
Article == Root("article", 1, FALSE, <<>>)
MCBlocks ==
  {Whole(<<Article>>), Whole(Nil),
   Whole(<<Root(Nil, 1, FALSE, <<GraphNode("product", 1, FALSE), GraphNode("article", 1, TRUE)>>)>>),
   Whole(<<Root("article", 1, FALSE, <<GraphNode("product", 1, FALSE)>>), Root("product", 2, FALSE, <<>>)>>),
   Whole(<<Root("article", 0, TRUE, <<>>), Root("product", 2, FALSE, <<>>), Article>>),
   Whole(<<Root(Nil, 1, FALSE, [i \in 1..3 |-> GraphNode("article", 1, FALSE)])>>),
   [Whole(<<Article>>) EXCEPT !.small = FALSE],
   [Whole(<<Article>>) EXCEPT !.ended = FALSE]}

-----------------------------------------------------------------------------
(* A schema of a text f, which is required, and of whole numbers g; the page says "one two     *)
(* three".  The model may leave f out, give it another type, add h, or say what is not there.  *)
MCSchema == [properties |-> [n \in {"f", "g"} |-> [array |-> n = "g",
                                                   type |-> IF n = "f" THEN "string" ELSE "integer"]],
             required |-> {"f"}]

LeafOf(type, text) == [type |-> type, text |-> text]
Scalar(leaf) == [array |-> FALSE, leaves |-> <<leaf>>]
Array(leaves) == [array |-> TRUE, leaves |-> leaves]
One == LeafOf("string", "one")
Numbers == {LeafOf("integer", "two"), LeafOf("integer", "four")}

MCData ==
  {[n \in {} |-> Nil], [n \in {"f", "h"} |-> Scalar(One)]}
  \cup {[n \in {"f"} |-> v] :
          v \in {Scalar(One), Array(<<One>>), Scalar(LeafOf("string", "four")),
                 Scalar(LeafOf("string", Nil)), Scalar(LeafOf("null", Nil)),
                 Scalar(LeafOf("integer", "one"))}}
  \cup {[n \in {"f", "g"} |-> IF n = "f" THEN Scalar(One) ELSE v] :
          v \in {Array(<<>>), Scalar(LeafOf("integer", "two"))}
                \cup {Array(<<x>>) : x \in Numbers} \cup {Array(<<x, y>>) : x, y \in Numbers}}

Excerpts == {<<>>, <<"one", "two">>, <<"two", "one">>, <<"two", "three">>, <<"four">>}
MCReplies ==
  UNION {{[data |-> d, evidence |-> e] : e \in UNION {[P -> Excerpts] : P \in {Paths(d), {}}}}
           : d \in MCData}

-----------------------------------------------------------------------------
Fetched ==
  [outcome |-> "content", cleaned |-> "text", source |-> TRUE, formats |-> <<"links">>,
   tokens |-> LinkTags, blocks |-> {}, schema |-> MCSchema, text |-> <<"one", "two", "three">>,
   budget |-> 99]

MCJobs ==
  {[Fetched EXCEPT !.budget = b] : b \in {2, 99}}
  \cup {[Fetched EXCEPT !.formats = <<"tables">>, !.tokens = t, !.budget = b] :
          t \in {TableTags, CellTags}, b \in {2, 99}}
  \cup {[Fetched EXCEPT !.formats = <<"json_ld">>, !.tokens = {Text}, !.blocks = MCBlocks,
                        !.budget = b] : b \in {2, 99}}
  \cup {[Fetched EXCEPT !.formats = <<"json_schema", "links">>, !.tokens = {Link("web")},
                        !.budget = b] : b \in {4, 6, 99}}
  \cup {[Fetched EXCEPT !.outcome = o, !.cleaned = c, !.source = s, !.tokens = {Text},
                        !.formats = f] :
          o \in {"content", "challenge"}, c \in {"text", "empty", "fails"}, s \in BOOLEAN,
          f \in {<<>>, <<"tables", "json_schema">>}}

\* Only pages whose JSON-LD is asked for, and no text to chunk.
MCLdJobs == {j \in MCJobs : j.formats = <<"json_ld">>}
MCNoTexts == {}
=============================================================================
