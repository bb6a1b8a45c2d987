------------------------------ MODULE MCGtags ------------------------------
(* Instances of Gtags for TLC: a.c is a source file, doc is another file.  *)
EXTENDS GtagsInv
CONSTANTS a, b, doc

SourceA  == {{a}}           \* a has a language
SourceAB == {{a, b}}
Either   == {{a}, {a, b}}   \* a langmap that may gain or lose the suffix of b
EitherDoc == {{a}, {a, doc}} \* ... or that of doc
=============================================================================
