---- MODULE MCUiPages ----
EXTENDS UiPages
MCOptional == <<"Weather">>
TitleSymmetry == Permutations(Titles)
====
