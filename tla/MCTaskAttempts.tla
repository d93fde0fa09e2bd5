--------------------------- MODULE MCTaskAttempts ---------------------------
(* A task of two files, two attempts, and answers of up to two blocks.     *)
EXTENDS TaskAttempts

CONSTANTS f1, f2

MCFiles == {f1, f2}
Both == {TRUE, FALSE}
MCChain == <<"tests", "tiered">>
MCAnswers ==
  {<<Block("tools", <<f1>>)>>,
   <<Block("tools", <<f2, f1, f2>>)>>,
   <<Block("tools", <<f2>>), Block("final", <<>>)>>,
   <<Block("both", <<f1>>)>>,
   <<Block("other", <<f2>>)>>}
=============================================================================
