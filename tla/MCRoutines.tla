----------------------------- MODULE MCRoutines -----------------------------
(* Two files, a process whose PID is part of another's name, a container, and *)
(* a call for most kinds of tool.                                             *)
EXTENDS Routines

SomeProcesses == {[pid |-> 7, name |-> 70, texts |-> {70}],
                  [pid |-> 8, name |-> 80, texts |-> {80, 7}]}

Call(t, a) == [tool |-> t, arg |-> a, kw |-> FALSE]

SomeCalls == {Call("set_volume", 0), Call("set_volume", 150),
  Call("shutdown_pc", 30), Call("restart_pc", 30), Call("cancel_shutdown", 0),
  Call("kill_process", 7), Call("delete_path", 1), Call("run_command", 1),
  Call("docker_stop_container", 1), Call("extract_zip", 1),
  Call("take_screenshot", 1)}

(* Name 2 is name 1 with a capital.                                          *)
LowerCase(n) == 1

(* As in _default_routines, a tool that nobody registers, and an application.*)
TheScript   == <<Call("get_news", 0), Call("open_application", 70)>>
SomeScripts == {<<Call("set_volume", 60), Call("delete_path", 1)>>}
=============================================================================
