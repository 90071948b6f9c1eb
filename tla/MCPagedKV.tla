----------------------------- MODULE MCPagedKV -----------------------------
(* Small instances of PagedKV for TLC.                                   *)
EXTENDS PagedKV

CONSTANTS a, b

MCPrompts == {<<b>>, <<a, a, a>>, <<a, b, b>>}
MCChunks == {<<a>>, <<a, b>>}
MCForeign == {<<a, b, b>>}

\* Fewer, longer inputs: two whole pages are shared at once.
MCLongPrompts == {<<a, b>>, <<a, a, a, a, b>>, <<a, a, b, b, b>>}
MCLongChunks == {<<a>>, <<a, a>>, <<b, b>>}
MCLongForeign == {<<a, a, a, a, b>>}

Symmetry == Permutations(Page) \cup Permutations(SeqId)
=============================================================================
