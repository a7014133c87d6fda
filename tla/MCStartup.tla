----------------------------- MODULE MCStartup ------------------------------
(* Startup with all files of at most two of a few lines: settings, lines   *)
(* that lack words or have too many, and lines that fill the buffer.       *)
EXTENDS Startup

Settings ==
    {<< <<"listen">>, <<"*">>, <<"8", "0">> >>, << <<"listen">>, <<"a">>, <<"9">> >>,
     << <<"documentroot">>, <<"/", "w">> >>, << <<"logfile">>, <<"l">> >>,
     << <<"contenttype">>, <<"z">>, <<"t">>, <<"u">> >>,
     << <<"contenttype">>, <<"z">>, <<"s">> >>}
Faulty ==
    {<<>>, << <<"listen">>, <<"b">> >>, << <<"contenttype">> >>, << <<"root">>, <<"/">> >>,
     << <<"listen">>, <<"*">>, <<"8", "0">>, <<"1", "2", "3">> >>}
Lines == Settings \cup Faulty

MCFiles == BoundedSeq(Lines, 2)
MCDefaults == [interface |-> <<"*">>, port |-> <<"5">>, documentRoot |-> <<"/", "h">>,
               logFile |-> <<"e">>]
MCResolve == (<<"*">> :> <<"0.0.0.0", "::">>) @@ (<<"a">> :> <<"10.0.0.1">>)
MCBusy == {<<"0.0.0.0", <<"8", "0">>>>, <<"10.0.0.1", <<"9">>>>}
MCPrivileged == {<<"8", "0">>, <<"5">>}
MCDirectories == {<<"/", "h">>, <<"/", "w">>}
=============================================================================
