------------------------------- MODULE Config -------------------------------
(***************************************************************************)
(* How the settings come about at the start of the program: conf.toml is   *)
(* decoded, flags are registered (which assigns the default of each to its *)
(* variable), the arguments are parsed, the file of -c is decoded over the *)
(* result, and the list of -clusters replaces the cluster nodes.           *)
(*                                                                         *)
(* A value is the place it comes from: conf.toml, a flag or the file.      *)
(***************************************************************************)
EXTENDS Naturals, Sequences

CONSTANTS
  Files,   \* the settings a file of -c may have
  MaxArgs  \* bound: flags on the command line

Flag(name, sets, default) == [name |-> name, sets |-> sets, default |-> default]
Plain(name, setting) == Flag(name, setting, setting)

\* The calls of Configure in their order: the flag, the variable it is bound
\* to and the one its default is taken from.
Registrations == <<
  Plain("port", "TcpPort"), Plain("host", "TcpHost"),
  Flag("tls", "TcpTls", "ClusterTls"),
  Plain("ca", "Ca"), Plain("certfile", "CertFile"), Plain("keyfile", "KeyFile"),
  Plain("cp", "ClusterPort"), Plain("ch", "ClusterHost"), Plain("cluster-tls", "ClusterTls"),
  Plain("client-certfile", "ClientCertFile"), Plain("client-keyfile", "ClientKeyFile"),
  Plain("cluster", "IsCluster"), Plain("name", "ClusterName"),
  Plain("ws", "Websocket"), Flag("ws-tls", "Websocket", "WsTls"),
  Plain("ws-path", "WsPath"), Plain("ws-port", "WsPort"), Plain("ws-host", "WsHost") >>

Bound == {Registrations[k].sets : k \in DOMAIN Registrations}
Settings == Bound \cup {"Debug", "WsTls", "Clusters"}

ASSUME FilesAssumption == Files \subseteq SUBSET Settings

VARIABLES
  stage,
  cfg,         \* setting -> where its value comes from
  registered,  \* how many registrations are done
  args,        \* the flags given so far
  clusters,    \* the local variable: the argument of -clusters as Configure has it
  flagged,     \* the variable fs.String allocated for it
  file         \* the settings of the file of -c

configureVars == <<stage, cfg, registered, args, clusters, flagged, file>>

Unset == <<"unset">>
From(place, name) == <<place, name>>

\* init: conf.toml has them all.
ConfigureInit ==
  /\ stage = "register"
  /\ cfg = [s \in Settings |-> From("conf.toml", s)]
  /\ registered = 0
  /\ args = <<>>
  /\ clusters = Unset /\ flagged = Unset
  /\ file = {}

\* fs.IntVar, StringVar, BoolVar
Register ==
  /\ stage = "register" /\ registered < Len(Registrations)
  /\ registered' = registered + 1
  /\ cfg' = [cfg EXCEPT ![Registrations[registered + 1].sets] = cfg[Registrations[registered + 1].default]]
  /\ UNCHANGED <<stage, args, clusters, flagged, file>>

\* *fs.String: what the pointer refers to is read before Parse.
RegisterClusters ==
  /\ stage = "register" /\ registered = Len(Registrations)
  /\ clusters' = flagged
  /\ stage' = "parse"
  /\ UNCHANGED <<cfg, registered, args, flagged, file>>

\* fs.Parse comes to a flag.
Parse(name) ==
  /\ stage = "parse" /\ Len(args) < MaxArgs
  /\ args' = Append(args, name)
  /\ cfg' = [s \in Settings |->
       IF \E r \in DOMAIN Registrations : Registrations[r].name = name /\ Registrations[r].sets = s
       THEN From("flag", name) ELSE cfg[s]]
  /\ flagged' = IF name = "clusters" THEN From("flag", name) ELSE flagged
  /\ UNCHANGED <<stage, registered, clusters, file>>

ParseEnds ==
  /\ stage = "parse"
  /\ stage' = IF \E a \in DOMAIN args : args[a] = "c" THEN "decode" ELSE "clusters"
  /\ UNCHANGED <<cfg, registered, args, clusters, flagged, file>>

\* Mutant: the file only fills in what no flag has set.
DecodeFile_KeepsFlags(contents) ==
  /\ stage = "decode"
  /\ file' = contents
  /\ cfg' = [s \in Settings |->
       IF s \in contents /\ cfg[s][1] # "flag" THEN From("file", s) ELSE cfg[s]]
  /\ stage' = "clusters"
  /\ UNCHANGED <<registered, args, clusters, flagged>>

DecodeFile(contents) ==
  /\ stage = "decode"
  /\ file' = contents
  /\ cfg' = [s \in Settings |-> IF s \in contents THEN From("file", s) ELSE cfg[s]]
  /\ stage' = "clusters"
  /\ UNCHANGED <<registered, args, clusters, flagged>>

\* A flag that does not exist, or a file that cannot be read.
Exit ==
  /\ stage \in {"parse", "decode"}
  /\ stage' = "exit"
  /\ UNCHANGED <<cfg, registered, args, clusters, flagged, file>>

SetClusters ==
  /\ stage = "clusters"
  /\ cfg' = [cfg EXCEPT !["Clusters"] = IF clusters = Unset THEN @ ELSE clusters]
  /\ stage' = "done"
  /\ UNCHANGED <<registered, args, clusters, flagged, file>>

Names == {Registrations[r].name : r \in DOMAIN Registrations} \cup {"c", "clusters"}

ConfigureNext ==
  \/ Register \/ RegisterClusters
  \/ \E name \in Names : Parse(name)
  \/ ParseEnds
  \/ \E contents \in Files : DecodeFile(contents)
  \/ Exit \/ SetClusters

ConfigureSpec == ConfigureInit /\ [][ConfigureNext]_configureVars

\* What the parts of the program see: TcpTls(), IsWebsocket() and so on.
Setting(s) == cfg[s]

-----------------------------------------------------------------------------
(* Properties                                                              *)

\* The setting a flag is for, by its usage text.
Meant == [name \in Names |->
  CASE name = "ws-tls"   -> "WsTls"
    [] name = "clusters" -> "Clusters"
    [] name = "c"        -> "none"
    [] OTHER -> (CHOOSE r \in {Registrations[k] : k \in DOMAIN Registrations} : r.name = name).sets]

Given(s) == {a \in DOMAIN args : Meant[args[a]] = s}

\* The file before the flags, the last flag before the others, and these
\* before conf.toml.
Expected(s) ==
  IF s \in file THEN From("file", s)
  ELSE IF Given(s) = {} THEN From("conf.toml", s)
  ELSE From("flag", args[CHOOSE a \in Given(s) : \A b \in Given(s) : b <= a])

\* Settings touched by a flag that is bound to another variable, takes its
\* default from another, or is read too early.
Miswired == {"TcpTls", "Websocket", "WsTls", "Clusters"}

(***************************************************************************)
(* Configure (config.go:54-112): whatever the arguments and the file, and  *)
(* in whatever order flags are given, a setting is the one with the        *)
(* highest precedence; for the Miswired, at least the file's if it is      *)
(* there.  Registering, parsing and decoding all assign the same variables.*)
(***************************************************************************)
SettingsPrecede ==
  stage = "done" =>
    \A s \in Settings : s \in file \/ s \notin Miswired => Setting(s) = Expected(s)

-----------------------------------------------------------------------------
(* What the source says of the program and the code does not do            *)

(***************************************************************************)
(* config.go:63, 77, 80, "whether broker tcp use tls", "other nodes of     *)
(* this cluster", "whether websocket use tls": and all the others, too.    *)
(* -ws-tls opens or closes the websocket and leaves TLS as it is; without  *)
(* any flag, tcpTls of conf.toml is replaced by clusterTls and websocket   *)
(* by wsTls; -clusters does nothing.                                       *)
(***************************************************************************)
UsageHolds == stage = "done" => \A s \in Settings : Setting(s) = Expected(s)
=============================================================================
