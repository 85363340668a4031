------------------------------- MODULE MC_Json -------------------------------
(***************************************************************************)
(* A small instance of JsonLibrary for TLC.                                *)
(***************************************************************************)
EXTENDS JsonLibrary, TLC

Escape(d1, d2) == <<92, 117, d1, d2, 48, 48>>

\* In a body: an opening brace, alone and before a colon; brackets, commas;
\* e with an acute accent before and after a quote, a quote, "a", "\n",
\* "\u0000a", "\u0100" and the halves of a surrogate pair; 10, 01 and null.
Chunks ==
  {<<123>>, <<125>>, <<91>>, <<93>>, <<32, 44>>, <<58>>, <<34>>, <<195, 169, 34>>,
   <<34, 97, 34>>, <<34, 92, 110, 34>>, <<34>> \o Escape(48, 48) \o <<97, 34>>,
   <<34>> \o Escape(48, 49) \o <<34>>, <<34>> \o Escape(100, 56), Escape(100, 99) \o <<34>>,
   <<49, 48>>, <<48, 49>>, <<110, 117, 108, 108>>}

\* Given by a caller: nothing, a, a newline, a control character, a quote.
Words == {<<>>, <<97>>, <<10>>, <<1>>, <<34>>}

\* The strings of the instance are those StringsStayUtf8 is about.
ASSUME StringsGiven == Utf8Given

Interchangeable == Permutations(Name) \cup Permutations(Node \ {Root})
=============================================================================
