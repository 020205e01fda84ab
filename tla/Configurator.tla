---------------------------- MODULE Configurator ----------------------------
(***************************************************************************)
(* How the node is configured before anything else exists: main parses the *)
(* command line twice (src/src/executable/lean_node.cpp) and Configurator  *)
(* merges defaults, configuration file and command line, section by        *)
(* section (src/src/app/configurator.cpp).                                 *)
(*                                                                         *)
(* Abstractions.  What the user gave is a set of arguments, each from the  *)
(* file or the command line.  A value is "ok"; "bad" if it has the right   *)
(* type and is refused (a key that is none, a path that does not exist, a  *)
(* zero, a port out of range); "odd" if it has the wrong type.  A setting  *)
(* is where its value comes from.  Options that are treated alike have one *)
(* name: "name" stands for node-id as well, "node-key" for listen-addr.    *)
(***************************************************************************)
EXTENDS Naturals, FiniteSets

CONSTANT Inputs   \* sets of arguments [from, option, value]

VARIABLES phase,    \* the function main calls next, or how it ended
          given,    \* what the user gave
          config,   \* where each setting comes from
          metrics   \* metrics_.enabled: "unset", "on" or "off"

cfVars == <<phase, given, config, metrics>>

Settings == {"name", "node-key", "base-path", "bootnodes", "db_path",
             "db_cache_size", "metrics-host", "metrics-port"}

Given(from, option, value) ==
  [from |-> from, option |-> option, value |-> value] \in given

OnCli(option, value) == Given("cli", option, value)

\* config_file_ is there if --config named one that could be loaded
InFile(option, value) == OnCli("config", "ok") /\ Given("file", option, value)

-----------------------------------------------------------------------------
(* main and the two passes over the command line. *)

Goes(next) == phase' = next /\ UNCHANGED <<given, config, metrics>>

Start ==
  /\ phase = "main"
  /\ given' \in Inputs
  /\ phase' = "step1"
  /\ UNCHANGED <<config, metrics>>

\* only help, version and config are looked at
Step1 ==
  /\ phase = "step1"
  /\ Goes(IF OnCli("config", "odd") THEN "failed"
          ELSE IF OnCli("help", "ok") THEN "helped"
          ELSE IF OnCli("config", "bad") THEN "failed" ELSE "step2")

\* all options, and their types
Step2 ==
  /\ phase = "step2"
  /\ Goes(IF \E a \in given : a.from = "cli" /\ a.value = "odd"
          THEN "failed" ELSE "general")

-----------------------------------------------------------------------------
(* A section: the file first, then the command line. *)


Merged(o) ==
  IF OnCli(o, "ok") THEN "cli" ELSE IF InFile(o, "ok") THEN "file" ELSE "default"

WithSection(options) ==
  [o \in Settings |-> IF o \in options THEN Merged(o) ELSE config[o]]

\* file_has_error_
NotScalar(section, options) ==
  InFile(section, "odd") \/ \E o \in options : InFile(o, "odd")

-----------------------------------------------------------------------------
(* initGeneralConfig. *)

General == {"name", "node-key", "base-path", "bootnodes"}

FileRefused == NotScalar("general", General) \/ InFile("node-key", "bad")

CliRefused == OnCli("node-key", "bad") \/ OnCli("committee-count", "bad")

\* base_path_ is no directory, or there is no file of bootnodes: the one in
\* genesis-dir unless the command line names another.  (The one that the
\* configuration file names is overwritten.)
PathRefused ==
  \/ OnCli("base-path", "bad")
  \/ InFile("base-path", "bad") /\ ~OnCli("base-path", "ok")
  \/ OnCli("bootnodes", "bad")
  \/ OnCli("genesis-dir", "bad") /\ ~OnCli("bootnodes", "ok")

\* without genesis-dir SL_FATAL ends the process
InitGeneralConfig ==
  /\ phase = "general"
  /\ phase' = CASE FileRefused -> "failed"
                [] OTHER ->
                     IF ~(OnCli("genesis-dir", "ok") \/ OnCli("genesis-dir", "bad"))
                     THEN "aborted"
                     ELSE IF CliRefused \/ PathRefused THEN "failed" ELSE "database"
  /\ config' = [WithSection(General) EXCEPT !["bootnodes"] =
                  IF OnCli("bootnodes", "ok") THEN "cli" ELSE "genesis-dir"]
  /\ UNCHANGED <<given, metrics>>

-----------------------------------------------------------------------------
(* initDatabaseConfig and initOpenMetricsConfig. *)

Database == {"db_path", "db_cache_size"}

\* a size that is none is passed over
InitDatabaseConfig ==
  /\ phase = "database"
  /\ phase' = IF NotScalar("database", Database) THEN "failed" ELSE "metrics"
  /\ config' = WithSection(Database)
  /\ UNCHANGED <<given, metrics>>

Endpoint == {"metrics-host", "metrics-port"}

\* metrics_.enabled after the file
SwitchInFile ==
  CASE InFile("enabled", "true")  -> "on"
    [] InFile("enabled", "false") -> "off"
    [] OTHER -> IF \E o \in Endpoint : InFile(o, "ok") THEN "on" ELSE "unset"

\* and after the command line
Switch ==
  CASE OnCli("metrics-disable", "ok") -> "off"
    [] OTHER ->
         IF SwitchInFile = "unset"
         THEN IF \E o \in Endpoint : OnCli(o, "ok") THEN "on" ELSE "off"
         ELSE SwitchInFile

\* What is wrong in the section of the file is written down but nobody looks
\* at it; a port that is no number ends the process with the exception of the
\* YAML library.
InitOpenMetricsConfig ==
  /\ phase = "metrics"
  /\ phase' = CASE InFile("metrics-port", "text") -> "aborted"
                [] OTHER -> IF OnCli("metrics-host", "bad") \/ OnCli("api-host", "bad")
                            THEN "failed" ELSE "run_node"
  /\ config' = [WithSection(Endpoint) EXCEPT !["node-key"] =
                  IF @ = "default" THEN "random" ELSE @]
  /\ metrics' = Switch
  /\ UNCHANGED given

-----------------------------------------------------------------------------
cfInit ==
  /\ phase = "main"
  /\ given = {}
  /\ config = [o \in Settings |-> "default"]
  /\ metrics = "unset"

cfNext ==
  \/ Start \/ Step1 \/ Step2
  \/ InitGeneralConfig \/ InitDatabaseConfig \/ InitOpenMetricsConfig

cfSpec == cfInit /\ [][cfNext]_cfVars

-----------------------------------------------------------------------------
(* Properties. *)

\* A node that runs uses what was typed for it: what the command line names
\* comes from there, whatever the file says and in whichever section and pass
\* it was read.
CommandLineWins ==
  phase = "run_node" =>
    \A o \in Settings :
      (\E a \in given : a.from = "cli" /\ a.option = o) => config[o] = "cli"

\* A node runs only if nothing that was typed was refused or misunderstood,
\* help was not asked for, and it knows its genesis.
NothingRefused ==
  phase = "run_node" =>
    /\ \A a \in given : a.from = "cli" => a.value = "ok" \/ a.option = "genesis-dir"
    /\ ~OnCli("help", "ok")
    /\ \E a \in given : a.from = "cli" /\ a.option = "genesis-dir"

\* Metrics are served when somebody asked for them and nobody forbade them: an
\* address, a port or "enabled: true" in either place asks, "enabled: false"
\* and --metrics-disable forbid.
MetricsAsked ==
  phase = "run_node" =>
    (metrics = "on" <=>
       /\ \E o \in Endpoint \cup {"enabled"} :
            OnCli(o, "ok") \/ InFile(o, "ok") \/ InFile(o, "true")
       /\ ~InFile("enabled", "false")
       /\ ~OnCli("metrics-disable", "ok"))
=============================================================================
