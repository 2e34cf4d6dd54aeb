------------------------------ MODULE MCAnswers ------------------------------
(* Searches and what is made of pages, for one run.  They share no state: an  *)
(* execution is about a search, a text to chunk or a page to extract from.    *)
EXTENDS MCSearch, MCPageContent

NoSearch ==
  /\ search = Base /\ stage = "done" /\ queries = <<>> /\ merged = <<>> /\ selected = <<>>
  /\ pages = <<>> /\ chunks = <<>> /\ stats = NoStats /\ response = NoResponse
  /\ asked = {} /\ offered = {}

AnswersInit == \/ Init /\ ChunkIdle /\ StructuredIdle
               \/ NoSearch /\ ContentInit

AnswersNext == \/ Next /\ UNCHANGED <<chunkVars, structVars>>
               \/ ContentNext /\ UNCHANGED vars

AnswersSpec == AnswersInit /\ [][AnswersNext]_<<vars, chunkVars, structVars>>
=============================================================================
