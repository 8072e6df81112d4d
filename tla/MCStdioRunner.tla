---------------------------- MODULE MCStdioRunner ----------------------------
(* StdioRunner on small instances. *)
EXTENDS StdioRunner

MCSetting(input, output, exits, interrupted) ==
  [input |-> input, output |-> output, exits |-> exits, interrupted |-> interrupted]

\* More messages both ways than the pipes hold, with a child that exits at any
\* time; one that is interrupted; lines that are too long, either way.
MCSettings ==
  { MCSetting(<<"request", "request", "other">>, <<"response", "other", "response">>, TRUE, FALSE),
    MCSetting(<<"request", "other">>, <<"other", "response">>, FALSE, TRUE),
    MCSetting(<<"request", "long", "other">>, <<"response">>, FALSE, FALSE),
    MCSetting(<<"request", "request">>, <<"response", "long", "response", "other">>, FALSE, FALSE) }
=============================================================================
