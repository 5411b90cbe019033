---------------------------- MODULE RequestReading ----------------------------
(* A request's text as those who get it read it: the server, and the cache.    *)
EXTENDS RequestText, GraphQLGrammar

\* The text, which is what the server executes and what the cache files an answer
\* under and reads it back with, stands for the transformed document and for
\* nothing else.
TextReadsBack == Built => ParseDocument(request.text) = Sent
=============================================================================
