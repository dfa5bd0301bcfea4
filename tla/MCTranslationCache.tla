------------------------- MODULE MCTranslationCache -------------------------
(* Two versions of one address and one of another, on two pages.           *)
EXTENDS TranslationCache, TLC

MCKey == {<<1, 11>>, <<1, 12>>, <<2, 11>>}

MCCodeSize == [k \in Key |-> IF k = <<1, 12>> THEN 2 ELSE 1]

MCPages == {{1}, {1, 2}}
=============================================================================
