------------------------------ MODULE MCDashboard ------------------------------
(***************************************************************************)
(* One component with a restart and a command in the project's manifest,   *)
(* and a local one that may disable it or take the command away.           *)
(***************************************************************************)
EXTENDS Dashboard, TLC

CONSTANTS c1, restart, command, reload, d1, s1, s2, ui, api

MCType == restart :> "docker_restart" @@ command :> "shell" @@ reload :> "config_reload"
MCContainer == restart :> d1 @@ command :> d1 @@ reload :> d1
MCManifests ==
  {NoManifest,
   [enabled |-> TRUE, actions |-> {restart, command, reload}],
   [enabled |-> FALSE, actions |-> {command}]}
================================================================================
