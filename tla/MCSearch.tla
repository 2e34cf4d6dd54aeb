------------------------------ MODULE MCSearch ------------------------------
(* Model-checking instance of SearchPipeline: seven addresses of three sites, *)
(* and searches that vary one part of the pipeline each.                      *)
EXTENDS SearchPipeline

\* Two pages of a, one of its subdomain b, two spellings of a page of c, one that resolves to an
\* internal address, and one without a host.
UrlsOf == 1..7
KeysOf == [u \in UrlsOf |-> IF u = 5 THEN 4 ELSE u]
HostsOf == <<"a", "a", "b", "c", "c", "inside", None>>
DomainsOfHosts == [h \in {"a", "b", "c", "inside"} |-> IF h = "b" THEN {"a", "b"} ELSE {h}]
Lexical == [u \in UrlsOf |-> IF u = 3 THEN 4 ELSE 0]
DiagBytes == [u \in UrlsOf |-> IF u = 1 THEN 4 ELSE 2]

\* x and y differ in white space only.
LengthsOf == [x |-> 4, y |-> 5, z |-> 2]
Fingerprints == [x |-> "x", y |-> "x", z |-> "z"]

Found(u, score, engines) == [url |-> u, score |-> score, engines |-> engines, positions |-> <<1>>]
Answer(items, failed) == [items |-> items, unresponsive |-> failed]
OneOfEach == Answer(<<Found(1, 9, <<"g">>), Found(3, 6, <<"g">>), Found(4, 3, <<"g">>)>>, {})

Page(final, body) ==
  [code |-> "answered", envelope |-> [status |-> 200, bytes |-> 1, json |-> TRUE],
   item |-> [shape |-> TRUE, status |-> 200, robotsDenied |-> FALSE, challenge |-> FALSE,
             success |-> TRUE, media |-> "text", bytes |-> 1, markdown |-> TRUE, shell |-> FALSE],
   final |-> final, body |-> body]
Failure(code) == [Page(1, "x") EXCEPT !.code = code]

Piece(start, end, tokens, position, lexical, noise) ==
  [start |-> start, end |-> end, words |-> end - start, tokens |-> tokens, matches |-> TRUE,
   position |-> position, lexical |-> lexical, noise |-> noise]
WholeBody(b) == <<Piece(0, LengthsOf[b], LengthsOf[b], 0, 1, "none")>>
Plain == [b \in DOMAIN LengthsOf |-> {WholeBody(b)}]

Base ==
  [plans |-> {<<"q">>}, answers |-> {OneOfEach}, filterWorks |-> {TRUE},
   fetches |-> {Page(1, "x")}, chunkings |-> Plain, ranks |-> {<< <<1, 5>>, <<2, 5>> >>},
   maxUrls |-> 3, excludes |-> {}, domains |-> None, operatorBlocks |-> {},
   operatorAllows |-> None, tokenBudget |-> 9, maxPassages |-> None, raw |-> TRUE,
   floor |-> None, quality |-> TRUE]

\* Discovery and selection
Discoveries ==
  LET Answers ==
        {None, Answer(<<>>, {}), Answer(<<>>, {"g"}), OneOfEach,
         Answer(<<Found(4, 3, <<"g">>), Found(6, 9, <<"h">>), Found(1, None, <<>>)>>, {"h"}),
         Answer(<<Found(5, 6, <<"h", "g">>), Found(7, 9, <<"g">>), Found(2, 9, <<"g">>)>>, {}),
         Answer(<<Found(2, 3, <<"h">>), Found(1, 3, <<"g">>), Found(3, 0, <<"h">>)>>, {})}
      With == [Base EXCEPT !.answers = Answers, !.filterWorks = BOOLEAN,
                           !.plans = {None, <<"q", "r">>, <<"r", "q", "q">>}]
  IN {[With EXCEPT !.maxUrls = n, !.domains = d, !.excludes = e, !.operatorAllows = o]
        : n \in {1, 2, 4}, d \in {None, {"a"}, {"b", "c"}}, e \in {{}, {"b"}},
          o \in {None, {"a", "c"}}}

\* The crawler's answers for two addresses
Crawls ==
  LET Items == {[shape |-> s, status |-> c, robotsDenied |-> r, challenge |-> h, success |-> k,
                 media |-> m, bytes |-> b, markdown |-> d, shell |-> FALSE]
                  : s \in BOOLEAN, c \in {200, 404, 429}, r \in BOOLEAN, h \in BOOLEAN, k \in BOOLEAN,
                    m \in {"text", "pdf"}, b \in {1, 9}, d \in BOOLEAN}
      Envelopes == {[status |-> c, bytes |-> b, json |-> j]
                      : c \in {200, 429, 503}, b \in {1, 9}, j \in BOOLEAN}
      Answers == {Failure("upstream_timeout")}
                 \cup {[Page(f, "x") EXCEPT !.item = i] : f \in {1, 3, 6}, i \in Items}
                 \cup {[Page(f, "x") EXCEPT !.envelope = e] : f \in {1, 6}, e \in Envelopes}
  IN {[Base EXCEPT !.maxUrls = 1, !.fetches = Answers, !.operatorBlocks = o] : o \in {{}, {"b"}}}

\* From the pages to the passages
PiecesOf ==
  [x |-> {None, <<>>, WholeBody("x"),
          <<Piece(0, 2, 2, 0, 0, "none"), Piece(2, 4, 2, 1, 0, "footer_boilerplate")>>},
   y |-> {<<Piece(0, 3, 4, 0, 2, "none"), [Piece(3, 5, 2, 1, 2, "none") EXCEPT !.matches = FALSE],
            Piece(1, 5, 4, 2, 2, "none")>>},
   z |-> {WholeBody("z"), <<Piece(0, 1, 1, 0, 3, "link_dominated"), Piece(1, 3, 2, 1, 0, "none")>>}]
Evidences ==
  LET With == [Base EXCEPT
        !.fetches = {Failure("upstream_failure"), Page(1, "x"), Page(4, "y"), Page(3, "z")},
        !.chunkings = PiecesOf,
        !.ranks = {None, << <<1, 5>> >>, << <<2, 3>>, <<1, 7>>, <<2, 9>> >>, << <<4, 1>> >>}]
  IN {[With EXCEPT !.tokenBudget = b, !.maxPassages = p, !.floor = f, !.quality = q]
        : b \in {1, 3, 20}, p \in {None, 1}, f \in {None, 4}, q \in BOOLEAN}

SearchesOf == Discoveries \cup Crawls \cup Evidences
=============================================================================
