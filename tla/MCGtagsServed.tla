--------------------------- MODULE MCGtagsServed ---------------------------
(* Instance of GtagsServed for TLC. *)
EXTENDS GtagsServed
CONSTANTS a, doc

SourceA  == {{a}}           \* a has a language
=============================================================================
