----------------------------- MODULE MCConsole -----------------------------
(* A screen of two lines of four cells, a prompt of one character and      *)
(* lines of up to three; the names and the argument of the commands are    *)
(* made of three characters.                                               *)
EXTENDS Console

MCTypeable == {"c", "1", "n", SPACE, TAB, CR, BS}
MCWords    == UNION {[1 .. n -> {"c", "1", "n", CR}] : n \in 1 .. 3}
MCPrompt   == <<">">>
MCFigures  == {<<"!">>, <<"!", "!", "!", "!", "!">>}
MCFiles    == {<<"1", NL>>, <<"c">>}
MCSpots    == {<<0, 3>>, <<1, 3>>, <<2, 0>>, <<0, 4>>}
MCColorNumber == [w \in MCWords |-> IF w = <<"1">> THEN 1 ELSE IF w[1] = "1" THEN 16 ELSE 4]
MCCommands ==
  <<"n", "1">> :> "cat" @@ <<"1">> :> "echo" @@ <<"c">> :> "color" @@ <<"n">> :> "draw" @@ <<"c", "c">> :> "clear"
    @@ <<"1", "1">> :> "report" @@ <<"c", "1">> :> "reboot" @@ <<"1", "c">> :> "halt"
=============================================================================
