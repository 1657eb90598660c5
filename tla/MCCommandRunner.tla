---------------------------- MODULE MCCommandRunner ----------------------------
(***************************************************************************)
(* Programs that write before they read, read before they write, read      *)
(* nothing, stop reading, fill either stream first, or leave a process     *)
(* behind; inputs shorter and longer than a pipe.                          *)
(***************************************************************************)
EXTENDS CommandRunner

MCPrograms == {
    <<>>,
    <<"read", "out">>,
    <<"out", "out", "read", "read", "err">>,
    <<"err", "err", "blank", "out", "read">>,
    <<"out", "err", "out", "err">>,
    <<"read", "close", "out", "err", "out">>,
    <<"leave", "out", "err">>,
    <<"read", "read", "read", "leave">> }

MCInputs == {NoInput, 0, 1, 3}

===============================================================================
