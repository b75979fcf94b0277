------------------------------- MODULE Startup -------------------------------
(***************************************************************************)
(* collector.py's main up to the first tick or receive: load_config,       *)
(* setup_logging, build_pipelines_from_config, and then --dry-run, --once  *)
(* or the service.  What is built is also written: log file, checkpoints   *)
(* and files of file sinks, by the user who runs the program.  The service *)
(* runs as a user of its own, who owns the directories; an operator may be *)
(* root.                                                                   *)
(***************************************************************************)
EXTENDS Settings

CONSTANTS PipelineNames, ObjectKeys,
  MaxEdits  \* bound

ASSUME ConfigsAssumption ==
  \A c \in Configs : c.parses =>
    /\ c.pipelines \in Seq([name : PipelineNames, enabled : BOOLEAN, log_type : LogTypes,
                            mapper : [format : STRING, mapping_file : BOOLEAN],
                            sink : SUBSET Sinks])
    /\ c.aws \in [profile : BOOLEAN, access_key : BOOLEAN, secret_key : BOOLEAN]
ASSUME KeysAssumption ==
  Root \in Seq(STRING) /\ Root # <<>> /\ ObjectKeys \subseteq Seq(STRING)
ASSUME MaxEditsAssumption == MaxEdits \in Nat

VARIABLES
  stage,     \* "off", "load_config", "setup_logging", "build", "decide", "running"
  args,      \* of the last run: user, dry_run, and once: a name or "no"
  at, built, \* while building: the next pipeline, and the names of those built
  exit,      \* "none", or the exit status of the last run; "traceback" is one of 1
  mapping,   \* is the CEF mapping file there?
  owner,     \* who wrote the log file and the sinks' file; "none" if they are not there
  checkpoint,\* of each pipeline: "missing", "corrupt", or who wrote it
  promise,   \* ghost: the user whose dry run was the last thing done, or "none"
  edits

disk == <<mapping, owner, checkpoint>>
startupVars == <<cfg, stage, args, at, built, exit, disk, promise, edits>>

Users == {"service", "root"}

StartupInit ==
  /\ cfg \in Configs /\ stage = "off" /\ at = 1 /\ built = <<>> /\ exit = "none"
  /\ args = [user |-> "service", dry_run |-> FALSE, once |-> "no"]
  /\ mapping \in BOOLEAN /\ owner = [log |-> "none", sink |-> "none"]
  /\ checkpoint = [n \in PipelineNames |-> "missing"]
  /\ promise = "none" /\ edits = 0

\* A file of mode 0644 is written, one of mode 0600 (mkstemp) read.
CanUse(who) == args.user = "root" \/ who # "root"

Creates(file) == owner' = [owner EXCEPT ![file] = IF @ = "none" THEN args.user ELSE @]

Exit(status) == stage' = "off" /\ exit' = status
-----------------------------------------------------------------------------
\* The configuration is changed, the mapping file comes or goes, a checkpoint is damaged.
Edit ==
  /\ stage = "off" /\ promise' = "none" /\ exit' = "none"
  /\ edits < MaxEdits /\ edits' = edits + 1
  /\ \/ cfg' \in Configs /\ UNCHANGED disk
     \/ mapping' = ~mapping /\ UNCHANGED <<cfg, owner, checkpoint>>
     \/ /\ \E n \in PipelineNames : checkpoint' = [checkpoint EXCEPT ![n] = "corrupt"]
        /\ UNCHANGED <<cfg, mapping, owner>>
  /\ UNCHANGED <<stage, args, at, built>>

Run ==
  /\ stage = "off" /\ stage' = "load_config" /\ exit' = "none"
  /\ \E user \in Users, dry \in BOOLEAN, once \in {"no"} \union PipelineNames :
       args' = [user |-> user, dry_run |-> dry, once |-> once]
  /\ at' = 1 /\ built' = <<>>
  /\ UNCHANGED <<cfg, disk, promise, edits>>

LoadConfig ==
  /\ stage = "load_config"
  /\ IF Accepts(cfg) THEN stage' = "setup_logging" /\ UNCHANGED exit ELSE Exit("2")
  /\ UNCHANGED <<cfg, args, at, built, disk, promise, edits>>

\* Mutant of SetupLogging: a dry run ends once the configuration is accepted.
SetupLoggingDryRunEnds ==
  /\ stage = "setup_logging"
  /\ IF CanUse(owner.log) THEN Creates("log") ELSE UNCHANGED owner
  /\ CASE ~CanUse(owner.log) -> Exit("traceback") /\ UNCHANGED promise
       [] CanUse(owner.log) /\ args.dry_run -> Exit("0") /\ promise' = args.user
       [] CanUse(owner.log) /\ ~args.dry_run -> stage' = "build" /\ UNCHANGED <<exit, promise>>
  /\ UNCHANGED <<cfg, args, at, built, mapping, checkpoint, edits>>

SetupLogging ==
  /\ stage = "setup_logging"
  /\ IF CanUse(owner.log) THEN Creates("log") /\ stage' = "build" /\ UNCHANGED exit
                          ELSE Exit("traceback") /\ UNCHANGED owner
  /\ UNCHANGED <<cfg, args, at, built, mapping, checkpoint, promise, edits>>

WritesFile(sink) == \E s \in sink : s.type = "file"

MapperFails(p) == p.mapper.format = "cef" /\ ~mapping
SinkFails(p)   == WritesFile(p.sink) /\ ~CanUse(owner.sink)

\* _build_polling or _build_sqs, one pipeline.  An exception ends the program; what
\* was written before it stays.
BuildPipeline ==
  /\ stage = "build" /\ at <= Len(cfg.pipelines)
  /\ LET p       == cfg.pipelines[at]
         polling == cfg.source = "s3"
         unread  == polling /\ (checkpoint[p.name] = "corrupt" \/ ~CanUse(checkpoint[p.name]))
         fails   == unread \/ MapperFails(p) \/ SinkFails(p)
     IN  IF ~p.enabled THEN at' = at + 1 /\ UNCHANGED <<stage, exit, built, owner, checkpoint>>
         ELSE /\ checkpoint' = [checkpoint EXCEPT ![p.name] =
                   IF polling /\ @ = "missing" THEN args.user ELSE @]
              /\ IF fails THEN Exit("traceback") /\ UNCHANGED <<at, built, owner>>
                 ELSE /\ at' = at + 1 /\ built' = Append(built, p.name)
                      /\ IF WritesFile(p.sink) THEN Creates("sink") ELSE UNCHANGED owner
                      /\ UNCHANGED <<stage, exit>>
  /\ UNCHANGED <<cfg, args, mapping, promise, edits>>

AllBuilt ==
  /\ stage = "build" /\ at > Len(cfg.pipelines)
  /\ stage' = "decide"
  /\ UNCHANGED <<cfg, args, at, built, exit, disk, promise, edits>>

Once == args.once # "no" /\ cfg.source = "s3"  \* ignored in SQS mode

NoneEnabled == built = <<>> /\ Exit("3") /\ UNCHANGED promise

DryRun ==
  /\ built # <<>> /\ args.dry_run
  /\ Exit("0") /\ promise' = args.user

OnceUnknown ==
  /\ built # <<>> /\ ~args.dry_run /\ Once /\ ~Contains(built, args.once)
  /\ Exit("4") /\ UNCHANGED promise

Service ==
  /\ built # <<>> /\ ~args.dry_run /\ (Once => Contains(built, args.once))
  /\ stage' = "running" /\ promise' = "none" /\ UNCHANGED exit

Decide ==
  /\ stage = "decide"
  /\ NoneEnabled \/ DryRun \/ OnceUnknown \/ Service
  /\ UNCHANGED <<cfg, args, at, built, disk, edits>>

Ticked(n) == Contains(built, n) /\ (args.once = "no" \/ args.once = n)

\* A tick saves a checkpoint (Pipeline): a new file of this user.
Tick ==
  /\ stage = "running" /\ cfg.source = "s3"
  /\ \E n \in PipelineNames :
       Ticked(n) /\ checkpoint' = [checkpoint EXCEPT ![n] = args.user]
  /\ UNCHANGED <<cfg, stage, args, at, built, exit, mapping, owner, promise, edits>>

\* The service is stopped, or the one tick is over.
End ==
  /\ stage = "running" /\ Exit("0")
  /\ UNCHANGED <<cfg, args, at, built, disk, promise, edits>>

StartupNext ==
  \/ Edit \/ Run \/ LoadConfig \/ SetupLogging \/ BuildPipeline \/ AllBuilt \/ Decide
  \/ Tick \/ End
-----------------------------------------------------------------------------
\* "Validate first, then restart" (README.md:600): after a dry run that ended well,
\* and nothing changed since, the service starts; but not if the dry run was root's
\* and the service is not, which cannot read the checkpoints that it wrote.
DryRunPredicts ==
  exit \in {"2", "3", "traceback"} =>
    promise = "none" \/ (promise = "root" /\ args.user = "service")

\* In SQS mode, an object that polling would have listed for an enabled pipeline goes
\* to an enabled pipeline of that type, which is this one or one after it; an object
\* of no type goes to none.
ObjectsReachTheirPipeline ==
  (stage = "running" /\ cfg.source = "sqs_s3") =>
    LET route == ByLogType(cfg.pipelines)
    IN  \A key \in ObjectKeys :
          LET t == PathToLogType(key)
          IN  /\ t # Unrouted => IsPrefix(BasePrefix(t), key)
              /\ \A i \in DOMAIN cfg.pipelines :
                   LET p == cfg.pipelines[i]
                   IN  (p.enabled /\ IsPrefix(BasePrefix(p.log_type), key)) =>
                         /\ t = p.log_type /\ t \in DOMAIN route /\ route[t] >= i
                         /\ cfg.pipelines[route[t]].enabled
                         /\ cfg.pipelines[route[t]].log_type = t

=============================================================================
