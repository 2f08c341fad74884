----------------------------- MODULE MCPrograms -----------------------------
(* Programs, each module on one small instance. *)
EXTENDS Programs, TLC

\* per name that is in the environment of getenv2.c: the length of its value
Lengths == "a" :> 1 @@ "b" :> 3
\* the mode strings given to fmemopen; the files asked of the server, with the size of the
\* request; printer configuration files and addresses; and what a printer may answer
StreamTypes == {<<>>, <<"r">>, <<"w">>, <<"a">>, <<"r", "+">>, <<"w", "b", "+">>,
                <<"a", "b", "+">>, <<"+">>, <<"r", "w">>}
FileRequests ==
  {[file |-> "f", size |-> 3], [file |-> Nil, size |-> 4], [file |-> "g", size |-> 6]}
ConfigFiles == {<<<<"printserver">>, <<"printer", "p">>, <<"printserver", "h">>>>,
                <<<<"printer", "p">>>>}
TwoAddresses == <<"down", "up">>
PrinterAnswers == {<<"http200", "C", "L", "len", "N", "R", "N", "ippOk", "ours">>,
                   <<"http200", "C", "C", "L", "len", "N", "R", "N", "ippOk", "others">>,
                   <<"http400", "N", "R">>}
=============================================================================
