------------------------------ MODULE MCMonitor ------------------------------
(***************************************************************************)
(* A screen of 3 rows of 2, lines of at most 5 characters, at most two     *)
(* arguments.                                                              *)
(***************************************************************************)
EXTENDS Monitor

MCPrompt   == <<"a">>
MCGlyph    == {"a", " ", "del"}
MCCommands == (<<"a">> :> <<"a", "nl">>) @@ (<<"a", "del">> :> <<>>)
MCTooMany  == <<"tab", "cr", "a">>
MCUnknown  == <<>>
==============================================================================
