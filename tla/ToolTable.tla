----------------------------- MODULE ToolTable -----------------------------
(***************************************************************************)
(* Which tools the model can call, and at which security level: the        *)
(* register_all functions of tools/ and the initialize methods of          *)
(* plugins/.  The terminal's registry takes the tools of tools/ first, and *)
(* of the plugins those whose name is new (son.py); the GUI's has the      *)
(* plugins alone.                                                          *)
(***************************************************************************)
Levels == {"safe", "medium", "sensitive", "critical"}

(* SECURITY_DISPLAY: the levels ActionExecutor asks Dad about.               *)
AskedAbout == {"sensitive", "critical"}

(* A table of tools, by their levels.                                        *)
Table(safe, medium, sensitive, critical) ==
  [t \in safe \cup medium \cup sensitive \cup critical |->
     CASE t \in safe -> "safe" [] t \in medium -> "medium"
       [] t \in sensitive -> "sensitive" [] t \in critical -> "critical"]

-----------------------------------------------------------------------------
(* tools/windows_control.py, in three parts                                  *)
WindowsControl == Table(
  {"open_application", "set_volume", "get_volume", "set_brightness",
   "get_brightness", "cancel_shutdown"},
  {"close_application", "lock_pc"}, {"sleep_pc"}, {"shutdown_pc", "restart_pc"})

WindowsInfo == Table(
  {"list_processes", "get_system_info", "get_wifi_info", "get_battery_info",
   "list_installed_apps"}, {}, {"kill_process"}, {})

WindowsFiles == Table(
  {"open_folder", "search_files", "read_file", "create_directory",
   "get_clipboard", "set_clipboard", "take_screenshot"},
  {"write_file", "run_command"}, {}, {})

DockerControl == Table(
  {"docker_list_containers", "docker_logs", "docker_stats"},
  {"docker_start", "docker_stop", "docker_restart"}, {}, {})

Web == Table(
  {"web_search", "read_webpage", "summarize_url", "get_weather",
   "get_weather_detailed", "open_website", "search_website"}, {}, {}, {})

Automation == Table(
  {"list_routines"}, {"run_routine", "create_routine"}, {"delete_routine"}, {})

-----------------------------------------------------------------------------
WindowsPlugin == Table(
  {"open_application", "minimize_window", "maximize_window", "snap_window",
   "set_volume", "set_brightness", "get_system_info", "lock_pc"},
  {"close_application"}, {}, {"shutdown_pc", "restart_pc"})

(* Mutant of FilesPlugin: deleting is at the level of moving.                *)
FilesPluginDeletesFreely == Table(
  {"search_files", "open_folder"},
  {"copy_path", "move_path", "compress_folder", "extract_zip", "delete_path"},
  {}, {})

FilesPlugin == Table(
  {"search_files", "open_folder"},
  {"copy_path", "move_path", "compress_folder", "extract_zip"},
  {"delete_path"}, {})

VSCodePlugin == Table(
  {"open_vscode_project"}, {"create_venv", "install_requirements"},
  {"git_commit_changes"}, {})

DockerPlugin == Table(
  {"docker_list_containers", "docker_logs"},
  {"docker_start_container", "docker_stop_container",
   "docker_restart_container"}, {}, {})

BrowserPlugin == Table(
  {"web_search", "read_webpage", "open_website", "search_website"}, {}, {}, {})

SpotifyPlugin == Table(
  {"spotify_play_pause", "spotify_next_track", "spotify_previous_track"},
  {}, {}, {})

WeatherPlugin == Table({"get_weather", "get_weather_forecast"}, {}, {}, {})

-----------------------------------------------------------------------------
(* Of two tables the first keeps its tools: a registry's latest one, or the  *)
(* one whose names are not new.                                              *)
Over(first, second) ==
  [t \in DOMAIN first \cup DOMAIN second |->
     IF t \in DOMAIN first THEN first[t] ELSE second[t]]

PluginTools ==
  Over(WeatherPlugin, Over(SpotifyPlugin, Over(BrowserPlugin, Over(DockerPlugin,
    Over(VSCodePlugin, Over(FilesPlugin, WindowsPlugin))))))

LegacyTools ==
  Over(Automation, Over(Web, Over(DockerControl, Over(WindowsFiles,
    Over(WindowsInfo, WindowsControl)))))

TerminalTools == Over(LegacyTools, PluginTools)

(* get_security_level, and the escalation of a destructive command.          *)
Level(tool, destructive) ==
  CASE tool = "run_command" /\ destructive -> "sensitive"
    [] tool \in DOMAIN TerminalTools -> TerminalTools[tool]
    [] OTHER -> "safe"

Confirms(tool, destructive) == Level(tool, destructive) \in AskedAbout
=============================================================================
