---------------------------- MODULE MCAssistant ----------------------------
(* Dad says one line of the help text for each command, synonyms that only *)
(* one of the two lists knows, and a few questions and greetings.          *)
EXTENDS Assistant

FromHelp == {<<"scan", "project">>, <<"scan", "codebase">>, <<"what changed", "">>,
  <<"progress report", "">>, <<"list", "files">>, <<"commits", "">>,
  <<"remember that", "workspace">>, <<"forget about", "workspace">>, <<"memory", "stats">>,
  <<"clear", "history">>, <<"open", "chrome">>, <<"close", "chrome">>, <<"volume", "50">>,
  <<"brightness", "50">>, <<"screenshot", "">>, <<"system", "info">>,
  <<"what's on my", "screen">>, <<"search", "cats">>, <<"weather", "">>, <<"news", "">>,
  <<"morning", "routine">>, <<"run routine", "coding">>, <<"list", "routines">>,
  <<"docker", "list">>, <<"start", "container web">>, <<"stop", "container web">>,
  <<"tools", "">>, <<"help", "">>, <<"exit", "">>, <<"quit", "">>}
CameraLines == {"pause", "stop", "close", "shut down", "resume", "start", "open"} \X {"camera"}
               \cup {<<"camera", "status">>, <<"is anyone in the room", "">>,
                     <<"add person", "ann">>}
OtherLines == {<<"take a", "screenshot">>, <<"go to", "github">>, <<"remember", "workspace">>,
  <<"search", "youtube for cats">>, <<"diff", "">>, <<"mute", "">>, <<"hello", "">>,
  <<"what did we say about", "birthday">>}

SomeLines == FromHelp \cup CameraLines \cup OtherLines
=============================================================================
