---------------------------- MODULE PageContent ----------------------------
(* What is made of the text of a page: the chunks of a search, or the structured part of a *)
(* fetch.  They share no state; an execution is about one of them.                          *)
EXTENDS Chunking, StructuredFetch

ContentInit == \/ ChunkInit /\ StructuredIdle
               \/ ChunkIdle /\ StructuredInit

ContentNext == \/ ChunkNext /\ UNCHANGED structVars
               \/ StructuredNext /\ UNCHANGED chunkVars

ContentSpec == ContentInit /\ [][ContentNext]_<<chunkVars, structVars>>
=============================================================================
