----------------------------- MODULE ToolsProofs -----------------------------
(* Proofs about Tools, for all configurations, command lines and keys.     *)
EXTENDS Tools, SequenceTheorems, FiniteSetTheorems, TLAPS

\* Texts of the pieces that the modules name and of any others.  (No prover here
\* knows that a string is in STRING.)
Literals == {"/", ".", "auditable", "summaries", "pd=", "0", "1", "2", "3"}
Text     == Seq(STRING \union Literals)

-----------------------------------------------------------------------------
(* Texts.                                                                  *)

\* Any texts, and those that the modules write.
LEMMA Texts ==
  /\ Seq(STRING) \subseteq Text
  /\ <<>> \in Text /\ <<"/">> \in Text /\ Len(<<"/">>) = 1
  /\ <<"auditable">> \in Text
  /\ \A d \in {"0", "1", "2", "3"} : <<"summaries", "/", "pd=", d>> \in Text
<1>1. Seq(STRING) \subseteq Text
  BY SeqMonotonic DEF Text
<1>. QED
  BY <1>1 DEF Text, Literals

\* A text begins with another one if it has its pieces.
LEMMA PrefixByPiece ==
  ASSUME NEW S, NEW s \in Seq(S), NEW t \in Seq(S)
  PROVE  IsPrefix(s, t) <=> Len(s) <= Len(t) /\ \A i \in 1 .. Len(s) : s[i] = t[i]
<1>0. Len(s) \in Nat /\ Len(t) \in Nat
  BY LenProperties
<1>1. SubSeq(s, 1, Len(s)) = s
  BY SubSeqFull
<1>2. ASSUME Len(s) <= Len(t)
      PROVE  /\ SubSeq(t, 1, Len(s)) \in Seq(S) /\ Len(SubSeq(t, 1, Len(s))) = Len(s)
             /\ \A i \in 1 .. Len(s) : SubSeq(t, 1, Len(s))[i] = t[i]
  <2>1. \A i \in 1 .. Len(s) : t[i] \in S
    BY <1>0, <1>2, ElementOfSeq
  <2>. QED
    BY <1>0, <2>1, SubSeqProperties
<1>3. ASSUME Len(s) <= Len(t), \A i \in 1 .. Len(s) : s[i] = t[i]
      PROVE  s = SubSeq(t, 1, Len(s))
  BY <1>2, <1>3, SeqEqual
<1>. QED
  BY <1>1, <1>2, <1>3 DEF IsPrefix

\* The greatest number of a set of indices.
LEMMA MaxOfIndices ==
  ASSUME NEW n \in Nat, NEW I \in SUBSET (1 .. n), I # {}
  PROVE  Max(I) \in I /\ \A i \in I : Max(I) >= i
<1>. DEFINE W == {n - i : i \in I}
<1>1. W \in SUBSET Nat /\ W # {}
  <2>1. \A i \in I : n - i \in Nat
    OBVIOUS
  <2>. QED
    BY <2>1
<1>2. PICK x \in W : \A y \in W : <<y, x>> \notin OpToRel(<, Nat)
  BY <1>1, NatLessThanWellFounded, WFMin
<1>3. \A y \in W : ~(y < x)
  BY <1>1, <1>2 DEF OpToRel
<1>4. PICK m \in I : x = n - m
  OBVIOUS
<1>5. \A i \in I : n - i \in W
  OBVIOUS
<1>6. m \in I /\ \A i \in I : m >= i
  BY <1>3, <1>4, <1>5
<1>. HIDE DEF W
<1>. QED
  BY <1>6 DEF Max

-----------------------------------------------------------------------------
(* Routing.                                                                *)

\* The table of the log types.
LEMMA Table ==
  /\ LogTypes = {"auditable", "pd0", "pd1", "pd2", "pd3"}
  /\ \A t \in LogTypes : LogTypePath[t] \in Text
  /\ LogTypePath["auditable"] = <<"auditable">>
  /\ \A t \in LogTypes \ {"auditable"} :
       Len(LogTypePath[t]) = 4 /\ LogTypePath[t][1] = "summaries"
  /\ LogTypePath["pd0"][4] = "0" /\ LogTypePath["pd1"][4] = "1"
  /\ LogTypePath["pd2"][4] = "2" /\ LogTypePath["pd3"][4] = "3"
<1>1. LogTypes = {"auditable", "pd0", "pd1", "pd2", "pd3"}
  BY DEF LogTypes, LogTypePath
<1>2. /\ LogTypePath["auditable"] = <<"auditable">>
      /\ LogTypePath["pd0"] = <<"summaries", "/", "pd=", "0">>
      /\ LogTypePath["pd1"] = <<"summaries", "/", "pd=", "1">>
      /\ LogTypePath["pd2"] = <<"summaries", "/", "pd=", "2">>
      /\ LogTypePath["pd3"] = <<"summaries", "/", "pd=", "3">>
  BY DEF LogTypePath
<1>3. \A t \in LogTypes : LogTypePath[t] \in Text
  BY <1>1, <1>2, Texts
<1>. QED
  BY <1>1, <1>2, <1>3

\* The pieces of a key below a prefix of a log type.
LEMMA Below ==
  ASSUME NEW t \in LogTypes, NEW key \in Text
  PROVE  /\ BasePrefix(t) \in Text /\ BasePrefix(t) # <<>>
         /\ IsPrefix(BasePrefix(t), key) =>
              \A i \in 1 .. Len(LogTypePath[t]) : key[Len(Root) + i] = LogTypePath[t][i]
<1>. DEFINE path == LogTypePath[t]
<1>1. Root \in Text /\ path \in Text /\ <<"/">> \in Text
  BY Table, Texts, KeysAssumption
<1>2. /\ Len(Root) \in Nat /\ Len(path) \in Nat /\ Len(<<"/">>) = 1
      /\ Root \o path \in Text /\ Len(Root \o path) = Len(Root) + Len(path)
      /\ \A i \in 1 .. Len(path) : (Root \o path)[Len(Root) + i] = path[i]
  BY <1>1, ConcatProperties, LenProperties DEF Text
<1>3. /\ BasePrefix(t) \in Text /\ Len(BasePrefix(t)) = Len(Root) + Len(path) + 1
      /\ \A i \in 1 .. Len(path) : BasePrefix(t)[Len(Root) + i] = path[i]
  <2>1. BasePrefix(t) = (Root \o path) \o <<"/">>
    BY DEF BasePrefix
  <2>. HIDE DEF path
  <2>. QED
    BY <1>1, <1>2, <2>1, ConcatProperties DEF Text
<1>4. ASSUME IsPrefix(BasePrefix(t), key), NEW i \in 1 .. Len(path)
      PROVE  key[Len(Root) + i] = path[i]
  <2>1. Len(Root) + i \in 1 .. Len(BasePrefix(t))
    BY <1>2, <1>3
  <2>2. \A j \in 1 .. Len(BasePrefix(t)) : BasePrefix(t)[j] = key[j]
    BY <1>3, <1>4, PrefixByPiece DEF Text
  <2>. QED
    BY <1>3, <2>1, <2>2
<1>. QED
  BY <1>2, <1>3, <1>4

\* A piece added to a text.
LEMMA OneMorePiece ==
  ASSUME NEW S, NEW r \in Seq(S), NEW s \in Seq(S), NEW t \in Seq(S), NEW x \in S,
         Len(t) = Len(s) + 1, t[Len(s) + 1] = x, \A i \in 1 .. Len(s) : t[i] = s[i]
  PROVE  r \o t = (r \o s) \o <<x>>
<1>1. <<x>> \in Seq(S) /\ Len(<<x>>) = 1 /\ <<x>>[1] = x /\ Len(s) \in Nat
  BY LenProperties
<1>2. /\ s \o <<x>> \in Seq(S) /\ Len(s \o <<x>>) = Len(s) + 1
      /\ \A i \in 1 .. Len(s) + 1 :
           (s \o <<x>>)[i] = IF i <= Len(s) THEN s[i] ELSE <<x>>[i - Len(s)]
  BY <1>1, ConcatProperties
<1>3. \A i \in 1 .. Len(t) : t[i] = (s \o <<x>>)[i]
  <2>. SUFFICES ASSUME NEW i \in 1 .. Len(t) PROVE t[i] = (s \o <<x>>)[i]
    OBVIOUS
  <2>1. CASE i <= Len(s)
    BY <1>1, <1>2, <2>1
  <2>2. CASE i = Len(s) + 1
    <3>1. i - Len(s) = 1
      BY <1>1, <2>2
    <3>. QED
      BY <1>1, <1>2, <2>2, <3>1
  <2>. QED
    BY <1>1, <2>1, <2>2
<1>4. t = s \o <<x>>
  BY <1>2, <1>3, SeqEqual
<1>. QED
  BY <1>1, <1>4, ConcatAssociative

\* The two tables of the code agree: s3_log_checker looks where S3Source does.
LEMMA TablesAgree ==
  /\ \A t \in LogTypes : CheckerPrefix(t) = BasePrefix(t)
  /\ CheckerPrefix("None") = Root
<1>1. ASSUME NEW t \in LogTypes PROVE Root \o LogTypeSubpath[t] = BasePrefix(t)
  <2>1. /\ LogTypeSubpath["auditable"] = <<"auditable", "/">>
        /\ LogTypeSubpath["pd0"] = <<"summaries", "/", "pd=", "0", "/">>
        /\ LogTypeSubpath["pd1"] = <<"summaries", "/", "pd=", "1", "/">>
        /\ LogTypeSubpath["pd2"] = <<"summaries", "/", "pd=", "2", "/">>
        /\ LogTypeSubpath["pd3"] = <<"summaries", "/", "pd=", "3", "/">>
    BY DEF LogTypeSubpath
  <2>2. /\ LogTypePath["auditable"] = <<"auditable">>
        /\ LogTypePath["pd0"] = <<"summaries", "/", "pd=", "0">>
        /\ LogTypePath["pd1"] = <<"summaries", "/", "pd=", "1">>
        /\ LogTypePath["pd2"] = <<"summaries", "/", "pd=", "2">>
        /\ LogTypePath["pd3"] = <<"summaries", "/", "pd=", "3">>
    BY DEF LogTypePath
  <2>. DEFINE sub == LogTypeSubpath[t]
              path == LogTypePath[t]
  <2>3. /\ Len(sub) = Len(path) + 1 /\ sub[Len(path) + 1] = "/"
        /\ \A i \in 1 .. Len(path) : sub[i] = path[i]
    <3>1. CASE t = "auditable"
      <4>1. sub = <<"auditable", "/">> /\ path = <<"auditable">>
        BY <2>1, <2>2, <3>1
      <4>. QED
        BY <4>1
    <3>2. ASSUME NEW d, t # "auditable",
                 sub = <<"summaries", "/", "pd=", d, "/">>, path = <<"summaries", "/", "pd=", d>>
          PROVE  /\ Len(sub) = Len(path) + 1 /\ sub[Len(path) + 1] = "/"
                 /\ \A i \in 1 .. Len(path) : sub[i] = path[i]
      BY <3>2
    <3>3. CASE t # "auditable"
      <4>1. \E d : /\ sub = <<"summaries", "/", "pd=", d, "/">>
                   /\ path = <<"summaries", "/", "pd=", d>>
        BY <2>1, <2>2, <3>3, Table
      <4>. QED
        BY <3>2, <3>3, <4>1
    <3>. QED
      BY <3>1, <3>3
  <2>4. sub \in Text
    <3>1. CASE t = "auditable"
      <4>1. <<"auditable", "/">> \in Text
        BY DEF Text, Literals
      <4>. QED
        BY <2>1, <3>1, <4>1
    <3>2. ASSUME NEW d \in {"0", "1", "2", "3"}
          PROVE  <<"summaries", "/", "pd=", d, "/">> \in Text
      BY <3>2 DEF Text, Literals
    <3>3. CASE t # "auditable"
      BY <2>1, <3>2, <3>3, Table
    <3>. QED
      BY <3>1, <3>3
  <2>5. path \in Text /\ Root \in Text /\ "/" \in STRING \union Literals
    BY Table, Texts, KeysAssumption DEF Literals
  <2>. HIDE DEF sub, path
  <2>6. Root \o sub = (Root \o path) \o <<"/">>
    BY <2>3, <2>4, <2>5, OneMorePiece DEF Text
  <2>. QED
    BY <2>6 DEF sub, path, BasePrefix
<1>. QED
  BY <1>1, Table DEF CheckerPrefix

\* No key is below the prefixes of two log types.
LEMMA OneType ==
  ASSUME NEW key \in Text, NEW t \in LogTypes, NEW u \in LogTypes,
         IsPrefix(BasePrefix(t), key), IsPrefix(BasePrefix(u), key)
  PROVE  t = u
<1>1. \A i \in 1 .. Len(LogTypePath[t]) : key[Len(Root) + i] = LogTypePath[t][i]
  BY Below
<1>2. \A i \in 1 .. Len(LogTypePath[u]) : key[Len(Root) + i] = LogTypePath[u][i]
  BY Below
<1>3. CASE t = "auditable" \/ u = "auditable"
  <2>1. key[Len(Root) + 1] = LogTypePath[t][1] /\ key[Len(Root) + 1] = LogTypePath[u][1]
    BY <1>1, <1>2, Table
  <2>2. \A v \in LogTypes : LogTypePath[v][1] = "auditable" => v = "auditable"
    BY Table
  <2>3. LogTypePath["auditable"][1] = "auditable"
    BY Table
  <2>. QED
    BY <1>3, <2>1, <2>2, <2>3
<1>4. CASE t # "auditable" /\ u # "auditable"
  <2>1. key[Len(Root) + 4] = LogTypePath[t][4] /\ key[Len(Root) + 4] = LogTypePath[u][4]
    BY <1>1, <1>2, <1>4, Table
  <2>. QED
    BY <1>4, <2>1, Table
<1>. QED
  BY <1>3, <1>4

\* A key has the log type whose prefix it is below, if there is one.
LEMMA TypeOfKey ==
  ASSUME NEW key \in Text
  PROVE  /\ \A t \in LogTypes : PathToLogType(key) = t <=> IsPrefix(BasePrefix(t), key)
         /\ PathToLogType(key) \in LogTypes \union {Unrouted}
         /\ Unrouted \notin LogTypes
<1>. DEFINE matching == {t \in LogTypes : IsPrefix(BasePrefix(t), key)}
<1>1. PathToLogType(key) = IF matching = {} THEN Unrouted ELSE CHOOSE t \in matching : TRUE
  BY DEF PathToLogType, BasePrefix
<1>2. Unrouted \notin LogTypes
  BY Table DEF Unrouted
<1>3. matching # {} => (CHOOSE t \in matching : TRUE) \in matching
  OBVIOUS
<1>. QED
  BY <1>1, <1>2, <1>3, OneType

-----------------------------------------------------------------------------
(* Startup.                                                                *)

Writers == {"none"} \union Users

StartupTypes ==
  /\ cfg \in Configs
  /\ stage \in {"off", "load_config", "setup_logging", "build", "decide", "running"}
  /\ args \in [user : Users, dry_run : BOOLEAN, once : {"no"} \union PipelineNames]
  /\ built \in Seq(PipelineNames) /\ mapping \in BOOLEAN
  /\ owner \in [log : Writers, sink : Writers]
  /\ checkpoint \in [PipelineNames -> {"missing", "corrupt"} \union Users]
  /\ promise \in Writers

EnabledOnes == {i \in 1 .. Len(cfg.pipelines) : cfg.pipelines[i].enabled}

\* Building the pipeline has left all that it needs.
WasBuilt(p) ==
  /\ cfg.source = "s3" => checkpoint[p.name] \in Users
  /\ ~MapperFails(p)
  /\ WritesFile(p.sink) => owner.sink \in Users

\* What is there of it can be used by the user.
OpenTo(user, p) ==
  user = "service" =>
    /\ cfg.source = "s3" => checkpoint[p.name] # "root"
    /\ WritesFile(p.sink) => owner.sink # "root"

LogOpenTo(user) == owner.log \in Users /\ (user = "service" => owner.log # "root")

BuildInv ==
  /\ stage \in {"load_config", "setup_logging"} => at = 1 /\ built = <<>>
  /\ stage \in {"setup_logging", "build", "decide", "running"} => Accepts(cfg)
  /\ stage \in {"build", "decide"} =>
       /\ at \in Nat \ {0} /\ LogOpenTo(args.user)
       /\ \A i \in EnabledOnes : i < at =>
            WasBuilt(cfg.pipelines[i]) /\ OpenTo(args.user, cfg.pipelines[i])
       /\ built = <<>> <=> \A i \in EnabledOnes : ~(i < at)
  /\ stage = "decide" => at > Len(cfg.pipelines)
  /\ stage = "running" => promise = "none"

PromiseInv ==
  promise # "none" =>
    /\ Accepts(cfg) /\ LogOpenTo(promise) /\ EnabledOnes # {}
    /\ \A i \in EnabledOnes :
         WasBuilt(cfg.pipelines[i]) /\ OpenTo(promise, cfg.pipelines[i])

StartupInv ==
  /\ StartupTypes /\ BuildInv /\ PromiseInv /\ DryRunPredicts

\* The pipelines of a file that is accepted.
LEMMA Pipelines ==
  ASSUME StartupTypes, Accepts(cfg)
  PROVE  /\ Len(cfg.pipelines) \in Nat
         /\ DOMAIN cfg.pipelines = 1 .. Len(cfg.pipelines)
         /\ \A i \in 1 .. Len(cfg.pipelines) :
              /\ cfg.pipelines[i].name \in PipelineNames
              /\ cfg.pipelines[i].log_type \in LogTypes
              /\ cfg.pipelines[i].enabled \in BOOLEAN
<1>. DEFINE P == [name : PipelineNames, enabled : BOOLEAN, log_type : LogTypes,
                   mapper : [format : STRING, mapping_file : BOOLEAN],
                   sink : SUBSET Sinks]
<1>1. cfg.pipelines \in Seq(P)
  BY ConfigsAssumption DEF StartupTypes, Accepts
<1>2. \A p \in P : /\ p.name \in PipelineNames /\ p.log_type \in LogTypes
                   /\ p.enabled \in BOOLEAN
  OBVIOUS
<1>. HIDE DEF P
<1>. QED
  BY <1>1, <1>2

\* A file that this user writes is one that was there, or this user's.
LEMMA CreatesWrites ==
  ASSUME StartupTypes, NEW file \in {"log", "sink"}, Creates(file)
  PROVE  /\ owner' \in [log : Writers, sink : Writers]
         /\ owner'[file] = IF owner[file] = "none" THEN args.user ELSE owner[file]
         /\ \A other \in {"log", "sink"} \ {file} : owner'[other] = owner[other]
BY DEF Creates, StartupTypes, Writers, Users

\* Steps of the operator and of the program keep the types.
LEMMA StartupStepTypes ==
  ASSUME StartupInv, StartupNext
  PROVE  StartupTypes'
<1>. USE DEF StartupInv
<1>1. CASE Edit
  BY <1>1 DEF Edit, StartupTypes, disk, Writers
<1>2. CASE Run
  BY <1>2 DEF Run, StartupTypes, disk
<1>3. CASE LoadConfig
  BY <1>3 DEF LoadConfig, Exit, StartupTypes, disk
<1>4. CASE SetupLogging
  BY <1>4, CreatesWrites DEF SetupLogging, Exit, StartupTypes
<1>5. CASE BuildPipeline
  <2>. DEFINE p == cfg.pipelines[at]
  <2>1. Accepts(cfg) /\ at \in 1 .. Len(cfg.pipelines) /\ p.name \in PipelineNames
    BY <1>5, Pipelines DEF BuildPipeline, BuildInv
  <2>2. checkpoint' \in [PipelineNames -> {"missing", "corrupt"} \union Users]
    BY <1>5, <2>1 DEF BuildPipeline, StartupTypes
  <2>3. owner' \in [log : Writers, sink : Writers]
    BY <1>5, CreatesWrites DEF BuildPipeline, StartupTypes
  <2>4. built' \in Seq(PipelineNames)
    BY <1>5, <2>1 DEF BuildPipeline, StartupTypes
  <2>5. stage' \in {"off", "build"}
    BY <1>5 DEF BuildPipeline, Exit
  <2>. QED
    BY <1>5, <2>2, <2>3, <2>4, <2>5 DEF BuildPipeline, StartupTypes
<1>6. CASE AllBuilt
  BY <1>6 DEF AllBuilt, StartupTypes, disk
<1>7. CASE Decide
  BY <1>7 DEF Decide, NoneEnabled, DryRun, OnceUnknown, Service, Exit, StartupTypes, disk,
              Writers
<1>8. CASE Tick
  BY <1>8 DEF Tick, StartupTypes
<1>9. CASE End
  BY <1>9 DEF End, Exit, StartupTypes, disk
<1>. QED
  BY <1>1, <1>2, <1>3, <1>4, <1>5, <1>6, <1>7, <1>8, <1>9 DEF StartupNext

\* What is written over is nothing.
OnlyNewFiles ==
  /\ \A n \in PipelineNames :
       \/ checkpoint'[n] = checkpoint[n]
       \/ checkpoint[n] = "missing" /\ checkpoint'[n] = args.user
  /\ \A file \in {"log", "sink"} :
       \/ owner'[file] = owner[file]
       \/ owner[file] = "none" /\ owner'[file] = args.user

\* What can be used can still be.
LEMMA KeptOpen ==
  ASSUME StartupInv, Accepts(cfg), OnlyNewFiles, UNCHANGED <<cfg, mapping>>,
         NEW user \in Users
  PROVE  /\ LogOpenTo(user) => LogOpenTo(user)'
         /\ \A i \in EnabledOnes :
              WasBuilt(cfg.pipelines[i]) /\ OpenTo(user, cfg.pipelines[i])
                => WasBuilt(cfg.pipelines[i])' /\ OpenTo(user, cfg.pipelines[i])'
<1>1. \A i \in EnabledOnes : cfg.pipelines[i].name \in PipelineNames
  BY Pipelines DEF EnabledOnes, StartupInv
<1>2. owner'.log = owner.log \/ owner.log = "none"
  BY DEF OnlyNewFiles
<1>3. owner'.sink = owner.sink \/ owner.sink = "none"
  BY DEF OnlyNewFiles
<1>. QED
  BY <1>1, <1>2, <1>3 DEF OnlyNewFiles, LogOpenTo, WasBuilt, OpenTo, MapperFails, Users

\* A promise that stands is kept by steps that only write new files.
LEMMA PromiseKept ==
  ASSUME StartupInv, OnlyNewFiles, UNCHANGED <<cfg, mapping, promise>>
  PROVE  PromiseInv'
<1>1. ASSUME promise # "none"
      PROVE  /\ Accepts(cfg) /\ promise \in Users /\ LogOpenTo(promise) /\ EnabledOnes # {}
             /\ \A i \in EnabledOnes :
                  WasBuilt(cfg.pipelines[i]) /\ OpenTo(promise, cfg.pipelines[i])
  BY <1>1 DEF StartupInv, StartupTypes, PromiseInv, Writers
<1>. QED
  BY <1>1, KeptOpen DEF PromiseInv, EnabledOnes

\* An attempt to use what is not open fails only where no promise stands against it.
LEMMA PromiseExcuses ==
  ASSUME StartupInv
  PROVE  /\ ~Accepts(cfg) => promise = "none"
         /\ ~CanUse(owner.log) /\ owner.log # "none" =>
              promise = "none" \/ (promise = "root" /\ args.user = "service")
BY DEF StartupInv, StartupTypes, PromiseInv, LogOpenTo, CanUse, Writers, Users

\* Building a pipeline, or failing to.
LEMMA StepBuild ==
  ASSUME StartupInv, BuildPipeline
  PROVE  BuildInv' /\ PromiseInv' /\ DryRunPredicts'
<1>. DEFINE p       == cfg.pipelines[at]
            polling == cfg.source = "s3"
            unread  == polling /\ (checkpoint[p.name] = "corrupt" \/ ~CanUse(checkpoint[p.name]))
            fails   == unread \/ MapperFails(p) \/ SinkFails(p)
<1>0. StartupTypes' /\ StartupTypes
  BY StartupStepTypes DEF StartupNext, StartupInv
<1>1. /\ Accepts(cfg) /\ at \in 1 .. Len(cfg.pipelines) /\ p.name \in PipelineNames
      /\ p.enabled \in BOOLEAN /\ Len(cfg.pipelines) \in Nat
      /\ stage = "build" /\ UNCHANGED <<cfg, args, mapping, promise>>
  BY Pipelines DEF BuildPipeline, BuildInv, StartupInv
<1>2. OnlyNewFiles
  <2>1. \A n \in PipelineNames :
          \/ checkpoint'[n] = checkpoint[n]
          \/ checkpoint[n] = "missing" /\ checkpoint'[n] = args.user
    BY <1>0, <1>1 DEF BuildPipeline, StartupTypes
  <2>2. \/ UNCHANGED owner
        \/ Creates("sink")
    BY DEF BuildPipeline
  <2>. QED
    BY <1>0, <2>1, <2>2, CreatesWrites DEF OnlyNewFiles
<1>3. PromiseInv'
  BY <1>1, <1>2, PromiseKept
<1>4. CASE ~p.enabled
  <2>1. /\ at' = at + 1 /\ UNCHANGED <<stage, exit, built, owner, checkpoint>>
        /\ \A i \in EnabledOnes : i < at + 1 <=> i < at
    BY <1>1, <1>4 DEF BuildPipeline, EnabledOnes
  <2>. QED
    BY <1>1, <1>3, <2>1
       DEF BuildInv, StartupInv, DryRunPredicts, LogOpenTo, WasBuilt, OpenTo, MapperFails,
           EnabledOnes
<1>5. CASE p.enabled /\ fails
  <2>1. Exit("traceback") /\ UNCHANGED <<at, built, owner>>
    BY <1>5 DEF BuildPipeline
  <2>2. ASSUME promise # "none" PROVE promise = "root" /\ args.user = "service"
    <3>1. WasBuilt(p) /\ OpenTo(promise, p) /\ promise \in Users /\ args.user \in Users
      BY <1>0, <1>1, <1>5, <2>2
         DEF StartupInv, PromiseInv, EnabledOnes, StartupTypes, Writers
    <3>. HIDE DEF p
    <3>. QED
      BY <1>5, <3>1 DEF WasBuilt, OpenTo, CanUse, SinkFails, Users
  <2>. QED
    BY <1>1, <1>3, <2>1, <2>2 DEF Exit, BuildInv, DryRunPredicts
<1>6. CASE p.enabled /\ ~fails
  <2>1. /\ at' = at + 1 /\ built' = Append(built, p.name) /\ UNCHANGED <<stage, exit>>
        /\ checkpoint' = [checkpoint EXCEPT ![p.name] =
             IF polling /\ @ = "missing" THEN args.user ELSE @]
        /\ IF WritesFile(p.sink) THEN Creates("sink") ELSE UNCHANGED owner
    BY <1>6 DEF BuildPipeline
  <2>2. PICK u \in Users : u = args.user
    BY <1>0 DEF StartupTypes
  <2>3. u = args.user'
    BY <1>1, <2>2
  <2>4. ASSUME NEW i \in EnabledOnes, i < at + 1
        PROVE  WasBuilt(cfg.pipelines[i])' /\ OpenTo(u, cfg.pipelines[i])'
    <3>1. CASE i < at
      BY <1>1, <1>2, <2>2, <3>1, KeptOpen DEF StartupInv, BuildInv
    <3>2. CASE i = at
      <4>. DEFINE q == cfg.pipelines[i]
      <4>1. /\ q.name \in PipelineNames /\ ~MapperFails(q)
            /\ polling => checkpoint[q.name] # "corrupt" /\ CanUse(checkpoint[q.name])
            /\ checkpoint' = [checkpoint EXCEPT ![q.name] =
                 IF polling /\ @ = "missing" THEN args.user ELSE @]
            /\ IF WritesFile(q.sink) THEN CanUse(owner.sink) /\ Creates("sink")
                                     ELSE UNCHANGED owner
        BY <1>1, <1>6, <2>1, <3>2 DEF SinkFails
      <4>. HIDE DEF q
      <4>2. polling => checkpoint'[q.name] \in Users
                         /\ (u = "service" => checkpoint'[q.name] # "root")
        BY <1>0, <2>2, <4>1 DEF CanUse, StartupTypes, Users
      <4>3. WritesFile(q.sink) => owner'.sink \in Users
                                    /\ (u = "service" => owner'.sink # "root")
        BY <1>0, <2>2, <4>1, CreatesWrites DEF CanUse, StartupTypes, Writers, Users
      <4>4. q' = q
        BY <1>1 DEF q
      <4>5. WasBuilt(q)' /\ OpenTo(u, q)'
        BY <1>1, <4>1, <4>2, <4>3, <4>4 DEF WasBuilt, OpenTo, MapperFails
      <4>. QED
        BY <4>5 DEF q
    <3>. QED
      BY <1>1, <2>4, <3>1, <3>2 DEF EnabledOnes
  <2>5. LogOpenTo(u)'
    BY <1>1, <1>2, <2>2, KeptOpen DEF StartupInv, BuildInv
  <2>6. built' # <<>>
    BY <1>0, <1>1, <2>1 DEF StartupTypes
  <2>7. at \in EnabledOnes /\ UNCHANGED EnabledOnes
    BY <1>1, <1>6 DEF EnabledOnes
  <2>8. BuildInv'
    BY <1>1, <2>1, <2>3, <2>4, <2>5, <2>6, <2>7 DEF BuildInv
  <2>. QED
    BY <1>1, <1>3, <2>1, <2>8 DEF DryRunPredicts, StartupInv
<1>. QED
  BY <1>4, <1>5, <1>6

\* Every step of the collector or the operator keeps the invariant.
LEMMA StartupStep ==
  ASSUME StartupInv, StartupNext
  PROVE  StartupInv'
<1>0. StartupTypes' /\ StartupTypes
  BY StartupStepTypes DEF StartupInv
<1>. SUFFICES BuildInv' /\ PromiseInv' /\ DryRunPredicts'
  BY <1>0 DEF StartupInv
<1>. USE DEF disk
<1>1. CASE Edit
  BY <1>1 DEF Edit, BuildInv, PromiseInv, DryRunPredicts
<1>2. ASSUME UNCHANGED <<disk, cfg, promise>> PROVE PromiseInv'
  BY <1>2, PromiseKept DEF OnlyNewFiles
<1>3. CASE Run
  BY <1>2, <1>3 DEF Run, BuildInv, DryRunPredicts
<1>4. CASE LoadConfig
  BY <1>2, <1>4, PromiseExcuses
     DEF LoadConfig, Exit, StartupInv, BuildInv, DryRunPredicts
<1>5. CASE SetupLogging
  <2>1. OnlyNewFiles
    BY <1>0, <1>5, CreatesWrites DEF SetupLogging, OnlyNewFiles
  <2>2. PromiseInv'
    BY <1>5, <2>1, PromiseKept DEF SetupLogging
  <2>3. CASE CanUse(owner.log)
    <3>1. LogOpenTo(args.user)'
      BY <1>0, <1>5, <2>3, CreatesWrites
         DEF SetupLogging, CanUse, LogOpenTo, StartupTypes, Writers, Users
    <3>2. Accepts(cfg) /\ Len(cfg.pipelines) \in Nat /\ at = 1 /\ built = <<>>
      BY <1>0, <1>5, Pipelines DEF SetupLogging, StartupInv, BuildInv
    <3>3. \A i \in EnabledOnes : ~(i < 1)
      BY <3>2 DEF EnabledOnes
    <3>. QED
      BY <1>5, <2>2, <2>3, <3>1, <3>2, <3>3
         DEF SetupLogging, StartupInv, BuildInv, DryRunPredicts, EnabledOnes
  <2>4. CASE ~CanUse(owner.log)
    BY <1>0, <1>5, <2>2, <2>4, PromiseExcuses
       DEF SetupLogging, Exit, CanUse, BuildInv, DryRunPredicts
  <2>. QED
    BY <2>3, <2>4
<1>6. CASE BuildPipeline
  BY <1>6, StepBuild
<1>7. CASE AllBuilt
  BY <1>2, <1>7
     DEF AllBuilt, StartupInv, BuildInv, DryRunPredicts, LogOpenTo, WasBuilt, OpenTo,
         MapperFails, EnabledOnes
<1>8. CASE Decide
  <2>1. /\ stage = "decide" /\ Accepts(cfg) /\ LogOpenTo(args.user)
        /\ at > Len(cfg.pipelines) /\ at \in Nat
        /\ \A i \in EnabledOnes :
             WasBuilt(cfg.pipelines[i]) /\ OpenTo(args.user, cfg.pipelines[i])
        /\ built = <<>> <=> EnabledOnes = {}
    <3>1. /\ stage = "decide" /\ Accepts(cfg) /\ LogOpenTo(args.user)
          /\ at > Len(cfg.pipelines) /\ at \in Nat
      BY <1>8 DEF Decide, StartupInv, BuildInv
    <3>2. \A i \in EnabledOnes : i < at
      BY <1>0, <3>1, Pipelines DEF EnabledOnes
    <3>. QED
      BY <3>1, <3>2 DEF StartupInv, BuildInv
  <2>2. CASE NoneEnabled
    BY <1>2, <1>8, <2>1, <2>2
       DEF Decide, NoneEnabled, Exit, StartupInv, BuildInv, PromiseInv, DryRunPredicts
  <2>3. CASE DryRun
    BY <1>8, <2>1, <2>3
       DEF Decide, DryRun, Exit, BuildInv, PromiseInv, DryRunPredicts, EnabledOnes,
           LogOpenTo, WasBuilt, OpenTo, MapperFails
  <2>4. CASE OnceUnknown
    BY <1>2, <1>8, <2>1, <2>4 DEF Decide, OnceUnknown, Exit, BuildInv, DryRunPredicts
  <2>5. CASE Service
    BY <1>8, <2>1, <2>5 DEF Decide, Service, BuildInv, PromiseInv, DryRunPredicts
  <2>. QED
    BY <1>8, <2>2, <2>3, <2>4, <2>5 DEF Decide
<1>9. CASE Tick
  BY <1>9 DEF Tick, StartupInv, BuildInv, PromiseInv, DryRunPredicts
<1>10. CASE End
  BY <1>2, <1>10 DEF End, Exit, StartupInv, BuildInv, DryRunPredicts
<1>. QED
  BY <1>1, <1>3, <1>4, <1>5, <1>6, <1>7, <1>8, <1>9, <1>10 DEF StartupNext

\* The state before the first run.
LEMMA StartupInitial == StartupInit => StartupInv
<1>. SUFFICES ASSUME StartupInit PROVE StartupInv
  OBVIOUS
<1>1. FALSE \in BOOLEAN /\ mapping \in BOOLEAN
  BY DEF StartupInit
<1>. QED
  BY <1>1
     DEF StartupInit, StartupInv, StartupTypes, BuildInv, PromiseInv, DryRunPredicts,
         Writers, Users

\* A step of the checker, or none, changes nothing of the collector.
LEMMA StartupKept ==
  ASSUME StartupInv, [Next]_vars
  PROVE  StartupInv'
<1>1. CASE StartupNext
  BY <1>1, StartupStep
<1>2. CASE UNCHANGED startupVars
  BY <1>2
     DEF startupVars, disk, StartupInv, StartupTypes, BuildInv, PromiseInv,
         DryRunPredicts, LogOpenTo, WasBuilt, OpenTo, MapperFails, EnabledOnes
<1>. QED
  BY <1>1, <1>2 DEF Next, vars

\* A dry run that ended well predicts the start.
THEOREM DryRuns == Spec => []DryRunPredicts
<1>1. Init => StartupInv
  BY StartupInitial DEF Init
<1>2. StartupInv => DryRunPredicts
  BY DEF StartupInv
<1>. QED
  BY <1>1, <1>2, StartupKept, PTL DEF Spec

-----------------------------------------------------------------------------
(* Routing, of the pipelines that are built.                               *)

\* The pipeline that a log type is routed to is the last enabled one of that type.
LEMMA LastOfType ==
  ASSUME StartupTypes, Accepts(cfg), NEW i \in EnabledOnes
  PROVE  LET t     == cfg.pipelines[i].log_type
             route == ByLogType(cfg.pipelines)
         IN  /\ t \in DOMAIN route /\ route[t] \in EnabledOnes /\ route[t] >= i
             /\ cfg.pipelines[route[t]].log_type = t
<1>. DEFINE ps == cfg.pipelines
            t  == ps[i].log_type
            I  == {j \in 1 .. Len(ps) : ps[j].log_type = t /\ ps[j].enabled}
<1>1. Len(ps) \in Nat /\ DOMAIN ps = 1 .. Len(ps)
  BY Pipelines
<1>2. i \in I /\ I \in SUBSET (1 .. Len(ps))
  BY DEF EnabledOnes
<1>3. Max(I) \in I /\ Max(I) >= i
  BY <1>1, <1>2, MaxOfIndices
<1>4. t \in DOMAIN ByLogType(ps) /\ ByLogType(ps)[t] = Max(I)
  BY <1>1, <1>2 DEF ByLogType, SelectLastInSeq, EnabledOnes
<1>. QED
  BY <1>3, <1>4 DEF EnabledOnes

\* In SQS mode an object goes to an enabled pipeline of its type, or to none.
THEOREM Routed == Spec => []ObjectsReachTheirPipeline
<1>1. Init => StartupInv
  BY StartupInitial DEF Init
<1>2. ASSUME StartupInv PROVE ObjectsReachTheirPipeline
  <2>. SUFFICES ASSUME stage = "running", NEW key \in ObjectKeys
       PROVE  LET route == ByLogType(cfg.pipelines)
                  t     == PathToLogType(key)
              IN  /\ t # Unrouted => IsPrefix(BasePrefix(t), key)
                  /\ \A i \in DOMAIN cfg.pipelines :
                       LET p == cfg.pipelines[i]
                       IN  (p.enabled /\ IsPrefix(BasePrefix(p.log_type), key)) =>
                             /\ t = p.log_type /\ t \in DOMAIN route /\ route[t] >= i
                             /\ cfg.pipelines[route[t]].enabled
                             /\ cfg.pipelines[route[t]].log_type = t
    BY DEF ObjectsReachTheirPipeline
  <2>1. StartupTypes /\ Accepts(cfg) /\ key \in Text
    BY <1>2, KeysAssumption, Texts DEF StartupInv, BuildInv
  <2>2. PathToLogType(key) # Unrouted => IsPrefix(BasePrefix(PathToLogType(key)), key)
    BY <2>1, TypeOfKey
  <2>3. ASSUME NEW i \in DOMAIN cfg.pipelines, cfg.pipelines[i].enabled,
               IsPrefix(BasePrefix(cfg.pipelines[i].log_type), key)
        PROVE  LET route == ByLogType(cfg.pipelines)
                   t     == PathToLogType(key)
               IN  /\ t = cfg.pipelines[i].log_type /\ t \in DOMAIN route /\ route[t] >= i
                   /\ cfg.pipelines[route[t]].enabled
                   /\ cfg.pipelines[route[t]].log_type = t
    <3>1. i \in EnabledOnes /\ cfg.pipelines[i].log_type \in LogTypes
      BY <2>1, <2>3, Pipelines DEF EnabledOnes
    <3>2. PathToLogType(key) = cfg.pipelines[i].log_type
      BY <2>1, <2>3, <3>1, TypeOfKey
    <3>. QED
      BY <2>1, <3>1, <3>2, LastOfType DEF EnabledOnes
  <2>. QED
    BY <2>2, <2>3
<1>. QED
  BY <1>1, <1>2, StartupKept, PTL DEF Spec

-----------------------------------------------------------------------------
(* Credentials.                                                            *)

Fields == {"profile", "access_key", "secret_key"}

\* Functions on the fields are equal if they agree on each of them.
LEMMA SameFields ==
  ASSUME NEW f, NEW g, f = [x \in Fields |-> f[x]], g = [x \in Fields |-> g[x]],
         f["profile"] = g["profile"], f["access_key"] = g["access_key"],
         f["secret_key"] = g["secret_key"]
  PROVE  f = g
BY DEF Fields

\* The credentials a command line and a file give.
LEMMA Resolved ==
  ASSUME NEW given, NEW aws,
         given.profile \in BOOLEAN, given.access_key \in BOOLEAN, given.secret_key \in BOOLEAN,
         aws \in [profile : BOOLEAN, access_key : BOOLEAN, secret_key : BOOLEAN]
  PROVE  LET auth == ResolveAwsAuth(given, aws)
             keys == given.access_key \/ given.secret_key
             from == IF keys \/ given.profile THEN "cli" ELSE "config"
             on(x) == IF keys THEN given[x]
                      ELSE IF given.profile THEN x = "profile" ELSE aws[x]
         IN  /\ auth = [x \in Fields |-> auth[x]]
             /\ \A x \in Fields : auth[x] = From(from, on(x))
<1>0. DOMAIN None = Fields
  BY DEF None, Fields
<1>1. CASE given.access_key \/ given.secret_key
  BY <1>0, <1>1 DEF ResolveAwsAuth, Fields, From
<1>2. CASE given.profile /\ ~given.access_key /\ ~given.secret_key
  BY <1>0, <1>2 DEF ResolveAwsAuth, Fields, From, None
<1>3. CASE ~given.profile /\ ~given.access_key /\ ~given.secret_key
  BY <1>0, <1>3 DEF ResolveAwsAuth, Fields, From
<1>. QED
  BY <1>1, <1>2, <1>3

\* The session that they make, when keys come in pairs.
LEMMA FromOnePlace ==
  ASSUME NEW given, NEW aws, NEW s,
         given.profile \in BOOLEAN, given.access_key \in BOOLEAN, given.secret_key \in BOOLEAN,
         aws \in [profile : BOOLEAN, access_key : BOOLEAN, secret_key : BOOLEAN],
         LET auth == ResolveAwsAuth(given, aws)
         IN  s = GetAwsSession(auth)
             /\ (auth.access_key = "none") = (auth.secret_key = "none")
  PROVE  LET cli == given.profile \/ given.access_key \/ given.secret_key
         IN  /\ Cardinality({s[x] : x \in DOMAIN s} \ {"none"}) <= 1
             /\ cli => "cli" \in {s[x] : x \in DOMAIN s}
             /\ ~cli => s = BuildSession(aws) \/ (aws.profile /\ aws.access_key)
<1>. DEFINE auth == ResolveAwsAuth(given, aws)
            keys == given.access_key \/ given.secret_key
            from == IF keys \/ given.profile THEN "cli" ELSE "config"
            on(x) == IF keys THEN given[x] ELSE IF given.profile THEN x = "profile" ELSE aws[x]
<1>1. auth = [x \in Fields |-> auth[x]] /\ \A x \in Fields : auth[x] = From(from, on(x))
  BY Resolved
<1>2. s = GetAwsSession(auth) /\ (auth.access_key = "none") = (auth.secret_key = "none")
  OBVIOUS
<1>. HIDE DEF auth
<1>3. /\ auth.access_key \in {"none", from} /\ auth.secret_key \in {"none", from}
      /\ auth.profile \in {"none", from}
  BY <1>1 DEF Fields, From
<1>4. /\ s = [x \in Fields |-> s[x]]
      /\ s.profile = IF auth.access_key # "none" THEN "none" ELSE auth.profile
      /\ s.access_key = auth.access_key /\ s.secret_key = auth.secret_key
  BY <1>1, <1>2, <1>3 DEF GetAwsSession, None, Fields
<1>5. DOMAIN s = Fields /\ \A x \in Fields : s[x] \in {"none", from}
  BY <1>3, <1>4 DEF Fields
<1>6. Cardinality({s[x] : x \in DOMAIN s} \ {"none"}) <= 1
  <2>. DEFINE W == {s[x] : x \in DOMAIN s} \ {"none"}
  <2>1. W \in SUBSET {from}
    BY <1>5
  <2>2. IsFiniteSet({from}) /\ Cardinality({from}) = 1
    BY FS_Singleton
  <2>. HIDE DEF W, from
  <2>3. Cardinality(W) <= Cardinality({from})
    BY <2>1, <2>2, FS_Subset
  <2>4. Cardinality(W) <= 1
    BY <2>2, <2>3
  <2>. QED
    BY <2>4 DEF W
<1>7. ASSUME keys \/ given.profile PROVE "cli" \in {s[x] : x \in DOMAIN s}
  <2>1. s.profile = "cli" \/ s.access_key = "cli"
    BY <1>1, <1>2, <1>4, <1>7 DEF Fields, From
  <2>. QED
    BY <1>5, <2>1 DEF Fields
<1>8. ASSUME ~keys, ~given.profile, ~(aws.profile /\ aws.access_key)
      PROVE  s = BuildSession(aws)
  <2>1. /\ auth.access_key = From("config", aws.access_key)
        /\ auth.secret_key = From("config", aws.secret_key)
        /\ auth.profile = From("config", aws.profile)
    BY <1>1, <1>8 DEF Fields
  <2>2. aws.access_key = aws.secret_key
    BY <1>2, <2>1 DEF From
  <2>. DEFINE b == BuildSession(aws)
  <2>3. /\ b = [x \in Fields |-> b[x]]
        /\ b["profile"] = s["profile"] /\ b["access_key"] = s["access_key"]
        /\ b["secret_key"] = s["secret_key"]
    BY <1>4, <1>8, <2>1, <2>2 DEF BuildSession, From, None, Fields
  <2>. HIDE DEF b
  <2>4. b = s
    BY <1>4, <2>3, SameFields
  <2>. QED
    BY <2>4 DEF b
<1>. QED
  BY <1>6, <1>7, <1>8

-----------------------------------------------------------------------------
(* Paths.                                                                  *)

Cut(text, i) == i = 0 \/ i = Len(text) + 1 \/ text[i] = "/"

\* A name between two cuts of a plain text is not empty.
LEMMA PlainNames ==
  ASSUME NEW text \in Text, Plain(text),
         NEW i \in 0 .. Len(text) + 1, NEW j \in 0 .. Len(text) + 1, i < j,
         Cut(text, i), Cut(text, j)
  PROVE  SubSeq(text, i + 1, j - 1) \notin Dropped /\ j # i + 1
<1>1. SubSeq(text, i + 1, j - 1) \notin Dropped
  BY DEF Plain, Cut
<1>2. j = i + 1 => SubSeq(text, i + 1, j - 1) = <<>>
  BY SubSeqEmpty, LenProperties DEF Text
<1>. QED
  BY <1>1, <1>2 DEF Dropped

\* What is left of a plain text behind a directory is plain.
LEMMA RestIsPlain ==
  ASSUME NEW key \in Text, Plain(key), NEW n \in 1 .. Len(key), key[n] = "/"
  PROVE  LET rest == SubSeq(key, n + 1, Len(key))
         IN  /\ rest \in Text /\ Len(rest) = Len(key) - n /\ Len(rest) > 0
             /\ \A i \in 1 .. Len(rest) : rest[i] = key[n + i]
             /\ Plain(rest)
<1>. DEFINE rest == SubSeq(key, n + 1, Len(key))
<1>0. Len(key) \in Nat /\ \A i \in 1 .. Len(key) : key[i] \in STRING \union Literals
  BY LenProperties, ElementOfSeq DEF Text
<1>1. n < Len(key)
  <2>1. Cut(key, n) /\ Cut(key, Len(key) + 1)
    BY DEF Cut
  <2>. QED
    BY <1>0, <2>1, PlainNames
<1>2. /\ rest \in Text /\ Len(rest) = Len(key) - n
      /\ \A i \in 1 .. Len(rest) : rest[i] = key[n + i]
  BY <1>0, <1>1, SubSeqProperties DEF Text
<1>3. ASSUME NEW i \in 0 .. Len(rest) + 1, NEW j \in 0 .. Len(rest) + 1,
             i < j, Cut(rest, i), Cut(rest, j)
      PROVE  SubSeq(rest, i + 1, j - 1) \notin Dropped
  <2>. HIDE DEF rest
  <2>1. Cut(key, n + i) /\ Cut(key, n + j)
    <3>1. ASSUME NEW c \in 0 .. Len(rest) + 1, Cut(rest, c) PROVE Cut(key, n + c)
      <4>1. CASE c = 0
        BY <1>0, <4>1 DEF Cut
      <4>2. CASE c = Len(rest) + 1
        BY <1>0, <1>2, <4>2 DEF Cut
      <4>3. CASE c \in 1 .. Len(rest)
        <5>1. c # 0 /\ c # Len(rest) + 1 /\ rest[c] = key[n + c]
          BY <1>0, <1>2, <4>3
        <5>. QED
          BY <3>1, <5>1 DEF Cut
      <4>4. Len(rest) \in Nat
        BY <1>2, LenProperties DEF Text
      <4>5. c = 0 \/ c = Len(rest) + 1 \/ c \in 1 .. Len(rest)
        BY <4>4
      <4>. QED
        BY <4>1, <4>2, <4>3, <4>5, Zenon
    <3>. QED
      BY <1>3, <3>1
  <2>2. SubSeq(key, n + i + 1, n + j - 1) \notin Dropped /\ n + j # n + i + 1
    BY <1>0, <1>1, <1>2, <1>3, <2>1, PlainNames
  <2>3. SubSeq(rest, i + 1, j - 1) = SubSeq(key, n + i + 1, n + j - 1)
    <3>1. i + 1 \in 1 .. Len(rest) /\ j - 1 \in 1 .. Len(rest) /\ i + 1 <= j - 1
      BY <1>0, <1>1, <1>2, <1>3, <2>2
    <3>2. SubSeq(SubSeq(key, n + 1, Len(key)), i + 1, j - 1)
            = SubSeq(key, n + 1 + (i + 1) - 1, n + 1 + (j - 1) - 1)
      BY <1>0, <1>1, <1>2, <3>1, SubSeqOfSubSeq DEF Text
    <3>3. n + 1 + (i + 1) - 1 = n + i + 1 /\ n + 1 + (j - 1) - 1 = n + j - 1
      BY <1>0, <1>2
    <3>. QED
      BY <3>2, <3>3 DEF rest
  <2>. QED
    BY <2>2, <2>3
<1>4. Plain(rest)
  <2>. HIDE DEF rest
  <2>. QED
    BY <1>3 DEF Plain, Cut
<1>. QED
  BY <1>1, <1>2, <1>4

\* A plain key below a directory is written below it where the key says.
LEMMA Destination ==
  ASSUME NEW prefix \in Text, NEW key \in Text, prefix # <<>>, Last(prefix) = "/",
         IsPrefix(prefix, key), Plain(key)
  PROVE  LET rest == SubSeq(key, Len(prefix) + 1, Len(key))
         IN  /\ DownloadDestination(key, prefix, TRUE) = rest
             /\ Len(rest) = Len(key) - Len(prefix)
             /\ \A i \in 1 .. Len(rest) : rest[i] = key[Len(prefix) + i]
<1>. DEFINE n    == Len(prefix)
            rest == SubSeq(key, n + 1, Len(key))
            I    == {i \in 1 .. n : prefix[i] # "/"}
<1>0. n \in Nat /\ n # 0 /\ Len(key) \in Nat
  BY LenProperties, EmptySeq DEF Text
<1>1. n <= Len(key) /\ \A i \in 1 .. n : prefix[i] = key[i]
  BY PrefixByPiece DEF Text
<1>2. n \in 1 .. Len(key) /\ key[n] = "/"
  BY <1>0, <1>1 DEF Last
<1>. HIDE DEF n, rest, I
<1>3. n # 1
  <2>1. Cut(key, 0) /\ Cut(key, n)
    BY <1>2 DEF Cut
  <2>. QED
    BY <1>0, <1>2, <2>1, PlainNames
<1>4. prefix[n - 1] # "/"
  <2>1. SUFFICES ASSUME prefix[n - 1] = "/" PROVE FALSE
    OBVIOUS
  <2>2. Cut(key, n - 1) /\ Cut(key, n)
    BY <1>0, <1>1, <1>2, <1>3, <2>1 DEF Cut
  <2>. QED
    BY <1>0, <1>2, <1>3, <2>2, PlainNames
<1>5. Max(I) = n - 1
  <2>0. prefix[n] = "/"
    BY DEF Last, n
  <2>1. n - 1 \in I /\ I \in SUBSET (1 .. n) /\ n \notin I
    BY <1>0, <1>3, <1>4, <2>0 DEF I
  <2>2. Max(I) \in I /\ Max(I) >= n - 1
    BY <1>0, <2>1, MaxOfIndices
  <2>3. Max(I) \in 1 .. n /\ Max(I) # n
    BY <2>1, <2>2
  <2>. QED
    BY <1>0, <2>2, <2>3
<1>6. WithoutSlashes(prefix) = SubSeq(prefix, 1, n - 1)
  <2>1. I # {}
    BY <1>0, <1>3, <1>4 DEF I
  <2>. QED
    BY <1>5, <2>1 DEF WithoutSlashes, SelectLastInSeq, I, n
<1>7. WithoutSlashes(prefix) \o <<"/">> = prefix
  <2>. DEFINE w == SubSeq(prefix, 1, n - 1)
  <2>1. \A i \in 1 .. n : prefix[i] \in STRING \union Literals
    BY ElementOfSeq DEF Text, n
  <2>2. w \in Text /\ Len(w) = n - 1 /\ \A i \in 1 .. n - 1 : w[i] = prefix[i]
    BY <1>0, <1>3, <2>1, SubSeqProperties DEF Text
  <2>. HIDE DEF w
  <2>3. w \o <<"/">> \in Text /\ Len(w \o <<"/">>) = n
    BY <1>0, <2>2, Texts, ConcatProperties DEF Text
  <2>4. \A i \in 1 .. n : (w \o <<"/">>)[i] = prefix[i]
    BY <1>0, <2>2, Texts, ConcatProperties DEF Text, Last, n
  <2>5. w \o <<"/">> = prefix
    BY <2>3, <2>4, SeqEqual DEF Text, n
  <2>. QED
    BY <1>6, <2>5 DEF w
<1>8. /\ Len(rest) = Len(key) - n /\ Len(rest) > 0 /\ Plain(rest)
      /\ \A i \in 1 .. Len(rest) : rest[i] = key[n + i]
  BY <1>2, RestIsPlain DEF rest
<1>9. Path(rest) = rest /\ rest # <<>>
  BY <1>8 DEF Path
<1>10. DownloadDestination(key, prefix, TRUE) = rest
  <2>1. SubSeq(key, Len(prefix) + 1, Len(key)) = rest
    BY DEF n, rest
  <2>. QED
    BY <1>7, <1>9, <2>1 DEF DownloadDestination
<1>. QED
  BY <1>8, <1>10 DEF n, rest

-----------------------------------------------------------------------------
(* Downloads.                                                              *)

\* Where the objects that are wanted have a place of their own each.
Distinct == \A k, l \in Wanted : DestinationOf(k) = DestinationOf(l) => k = l

\* The command line of a check, and what it wants.
LEMMA Wants ==
  ASSUME cargs \in CheckerArgs
  PROVE  /\ Prefix \in Text /\ (cargs.key = <<>> => Wanted \subseteq BucketKeys)
         /\ BucketKeys \subseteq Text
         /\ IsFiniteSet(Wanted) /\ Cardinality(Wanted) \in Nat
<1>1. /\ cargs.prefix \in Text /\ cargs.log_type \in LogTypes \union {"None"}
      /\ BucketKeys \subseteq Text /\ Root \in Text
  BY Texts, ArgsAssumption, BucketAssumption, KeysAssumption
<1>2. \A t \in LogTypes : BasePrefix(t) \in Text
  BY <1>1, Below
<1>3. CheckerPrefix(cargs.log_type) \in Text
  BY <1>1, <1>2, TablesAgree
<1>4. IsFiniteSet(Wanted)
  <2>1. IsFiniteSet({cargs.key}) /\ IsFiniteSet(BucketKeys)
    BY FS_Singleton, BucketAssumption
  <2>2. ListUnder(Prefix) \subseteq BucketKeys
    BY DEF ListUnder
  <2>. QED
    BY <2>1, <2>2, FS_Subset DEF Wanted
<1>. QED
  BY <1>1, <1>3, <1>4, FS_CardinalityType DEF Prefix, Wanted, ListUnder

\* Plain objects of a directory have a place of their own each.
LEMMA PlacesOfTheirOwn ==
  ASSUME cargs \in CheckerArgs, Last(Prefix) = "/", \A k \in Wanted : Plain(k)
  PROVE  Distinct
<1>1. CASE cargs.key # <<>>
  BY <1>1 DEF Distinct, Wanted
<1>2. CASE cargs.key = <<>>
  <2>. SUFFICES ASSUME NEW k \in Wanted, NEW l \in Wanted, DestinationOf(k) = DestinationOf(l)
       PROVE  k = l
    BY DEF Distinct
  <2>1. /\ Prefix \in Text /\ k \in Text /\ l \in Text
        /\ IsPrefix(Prefix, k) /\ IsPrefix(Prefix, l)
    BY <1>2, Wants DEF Wanted, ListUnder
  <2>2. Prefix # <<>>
    <3>1. Root # <<>> /\ \A t \in LogTypes : BasePrefix(t) # <<>>
      BY <2>1, KeysAssumption, Below
    <3>2. CheckerPrefix(cargs.log_type) # <<>>
      BY <3>1, ArgsAssumption, TablesAgree
    <3>. QED
      BY <3>2 DEF Prefix
  <2>. DEFINE n == Len(Prefix)
              r == SubSeq(k, n + 1, Len(k))
              q == SubSeq(l, n + 1, Len(l))
  <2>3. r = q
    BY <1>2, <2>1, <2>2, Destination DEF DestinationOf
  <2>4. /\ Len(r) = Len(k) - n /\ \A i \in 1 .. Len(r) : r[i] = k[n + i]
        /\ Len(q) = Len(l) - n /\ \A i \in 1 .. Len(q) : q[i] = l[n + i]
    BY <2>1, <2>2, Destination
  <2>5. n \in Nat /\ Len(k) \in Nat /\ Len(l) \in Nat
    BY <2>1, LenProperties DEF Text
  <2>6. /\ n <= Len(k) /\ \A i \in 1 .. n : Prefix[i] = k[i]
        /\ n <= Len(l) /\ \A i \in 1 .. n : Prefix[i] = l[i]
    BY <2>1, PrefixByPiece DEF Text
  <2>. HIDE DEF n, r, q
  <2>7. Len(k) = Len(l) /\ \A i \in 1 .. Len(k) : k[i] = l[i]
    <3>1. Len(k) = Len(l)
      BY <2>3, <2>4, <2>5
    <3>2. ASSUME NEW i \in 1 .. Len(k), i > n PROVE k[i] = l[i]
      <4>1. i - n \in 1 .. Len(r) /\ i - n \in 1 .. Len(q) /\ n + (i - n) = i
        BY <2>3, <2>4, <2>5, <3>2
      <4>. QED
        BY <2>3, <2>4, <4>1
    <3>. QED
      BY <2>5, <2>6, <3>1, <3>2
  <2>. QED
    BY <2>1, <2>7, SeqEqual DEF Text
<1>. QED
  BY <1>1, <1>2

\* The session is the one of this command line and file.
SessionInv ==
  step \in {"mode", "download"} =>
    LET auth == ResolveAwsAuth(cargs, FileAws)
    IN  /\ cargs.config => cfg.parses
        /\ session = GetAwsSession(auth)
        /\ (auth.access_key = "none") = (auth.secret_key = "none")

\* Every object that is wanted is counted, or still to come; where no two of them
\* have one place, each file is at the place of one that was dealt with.
Tally ==
  /\ ok \in Nat /\ fail \in Nat /\ todo \subseteq Wanted
  /\ ok + fail + Cardinality(todo) = Cardinality(Wanted)
  /\ IsFiniteSet(DOMAIN files)
  /\ Distinct => /\ ok = Cardinality(DOMAIN files)
                 /\ \A f \in DOMAIN files : \E k \in Wanted \ todo : f = DestinationOf(k)

DownloadInv ==
  /\ step \in {"resolve", "mode"} =>
       todo = {} /\ DOMAIN files = {} /\ ok = 0 /\ fail = 0 /\ code = "none"
  /\ step = "download" => ~OnlyPrints /\ code = "none" /\ Tally
  /\ code = "0" => step = "off"
  /\ (code = "0" /\ ~OnlyPrints) => Tally /\ todo = {}

CheckerInv ==
  /\ cargs \in CheckerArgs /\ step \in {"off", "resolve", "mode", "download"}
  /\ program \in {"collector", "checker"} /\ (program = "collector" => step = "off")
  /\ SessionInv /\ DownloadInv

\* What is wanted, and where it goes, is up to the command line.
LEMMA SameLine ==
  ASSUME UNCHANGED cargs
  PROVE  /\ Wanted' = Wanted /\ OnlyPrints' = OnlyPrints
         /\ \A k : DestinationOf(k)' = DestinationOf(k)
         /\ Distinct' = Distinct
<1>1. Prefix' = Prefix
  BY DEF Prefix
<1>2. Wanted' = Wanted /\ OnlyPrints' = OnlyPrints /\ \A k : DestinationOf(k)' = DestinationOf(k)
  BY <1>1 DEF Wanted, OnlyPrints, DestinationOf
<1>. QED
  BY <1>2 DEF Distinct

\* A tally whose numbers, keys and files stay is one.
LEMMA SameTally ==
  ASSUME UNCHANGED <<cargs, ok, fail, todo, files>>
  PROVE  Tally' = Tally
BY SameLine DEF Tally

\* A key that is dealt with is no longer to come.
LEMMA OneLess ==
  ASSUME cargs \in CheckerArgs, Tally, NEW k \in todo
  PROVE  /\ IsFiniteSet(todo) /\ Cardinality(todo) \in Nat
         /\ Cardinality(todo \ {k}) = Cardinality(todo) - 1
         /\ Cardinality(todo \ {k}) \in Nat
<1>1. IsFiniteSet(todo)
  BY Wants, FS_Subset DEF Tally
<1>. QED
  BY <1>1, FS_RemoveElement, FS_CardinalityType

\* An object that is written is one more file.
LEMMA TallyWritten ==
  ASSUME cargs \in CheckerArgs, Tally, NEW k \in todo, DownloadOne(k)
  PROVE  Tally'
<1>. DEFINE dest == DestinationOf(k)
<1>1. /\ todo' = todo \ {k} /\ ok' = ok + 1 /\ UNCHANGED <<cargs, fail>>
      /\ DOMAIN files' = DOMAIN files \union {dest}
  BY DEF DownloadOne
<1>2. /\ Wanted' = Wanted /\ Distinct' = Distinct
      /\ \A l : DestinationOf(l)' = DestinationOf(l)
  BY <1>1, SameLine
<1>3. /\ ok' \in Nat /\ fail' \in Nat /\ todo' \subseteq Wanted'
      /\ ok' + fail' + Cardinality(todo') = Cardinality(Wanted')
  BY <1>1, <1>2, OneLess, Wants DEF Tally
<1>4. /\ IsFiniteSet(DOMAIN files') /\ IsFiniteSet(DOMAIN files)
      /\ dest \notin DOMAIN files => Cardinality(DOMAIN files') = Cardinality(DOMAIN files) + 1
  BY <1>1, FS_AddElement DEF Tally
<1>5. ASSUME Distinct
      PROVE  /\ ok' = Cardinality(DOMAIN files')
             /\ \A f \in DOMAIN files' : \E l \in Wanted \ todo' : f = DestinationOf(l)
  <2>1. k \in Wanted /\ \A f \in DOMAIN files : \E l \in Wanted \ todo : f = DestinationOf(l)
    BY <1>5 DEF Tally
  <2>2. dest \notin DOMAIN files
    BY <1>5, <2>1 DEF Distinct
  <2>3. ok' = Cardinality(DOMAIN files')
    BY <1>1, <1>4, <1>5, <2>2 DEF Tally
  <2>. HIDE DEF dest
  <2>4. k \in Wanted \ todo' /\ Wanted \ todo \subseteq Wanted \ todo'
    BY <1>1, <2>1
  <2>5. ASSUME NEW f \in DOMAIN files' PROVE \E l \in Wanted \ todo' : f = DestinationOf(l)
    BY <1>1, <2>1, <2>4, <2>5 DEF dest
  <2>. QED
    BY <2>3, <2>5
<1>. QED
  BY <1>2, <1>3, <1>4, <1>5 DEF Tally

\* An object that could not be fetched is one more failure.
LEMMA TallyFailed ==
  ASSUME cargs \in CheckerArgs, Tally, NEW k \in todo, DownloadFails(k)
  PROVE  Tally'
<1>1. todo' = todo \ {k} /\ fail' = fail + 1 /\ UNCHANGED <<cargs, ok, files>>
  BY DEF DownloadFails
<1>2. /\ Wanted' = Wanted /\ Distinct' = Distinct
      /\ \A l : DestinationOf(l)' = DestinationOf(l)
  BY <1>1, SameLine
<1>3. /\ ok' \in Nat /\ fail' \in Nat /\ todo' \subseteq Wanted'
      /\ ok' + fail' + Cardinality(todo') = Cardinality(Wanted')
  BY <1>1, <1>2, OneLess, Wants DEF Tally
<1>. QED
  BY <1>1, <1>2, <1>3 DEF Tally

\* Each step of the checker.
LEMMA CheckerStep ==
  ASSUME CheckerInv, CheckerNext, UNCHANGED <<program, cfg>>, program = "checker"
  PROVE  CheckerInv'
<1>. USE DEF CheckerInv
<1>1. CASE RunChecker
  BY <1>1 DEF RunChecker, SessionInv, DownloadInv
<1>2. CASE Resolve
  <2>1. UNCHANGED <<cargs, todo, files, ok, fail>> /\ FileAws' = FileAws /\ step = "resolve"
    BY <1>2 DEF Resolve, FileAws
  <2>2. code = "none" /\ (step' = "mode" => UNCHANGED code)
        /\ ((step' = "off" /\ code' = "1") \/ step' = "mode")
    BY <1>2 DEF Resolve, Return, DownloadInv
  <2>3. SessionInv'
    BY <1>2, <2>1, <2>2 DEF Resolve, Return, SessionInv
  <2>4. DownloadInv'
    BY <2>1, <2>2 DEF DownloadInv
  <2>. QED
    BY <2>1, <2>2, <2>3, <2>4
<1>3. CASE ChooseMode
  <2>1. UNCHANGED <<cargs, session, files, ok, fail>> /\ FileAws' = FileAws /\ step = "mode"
    BY <1>3 DEF ChooseMode, FileAws
  <2>2. \/ step' = "off" /\ code' = "1"
        \/ step' = "off" /\ code' = "0" /\ OnlyPrints
        \/ step' = "download" /\ UNCHANGED code /\ ~OnlyPrints /\ todo' = Wanted
    BY <1>3 DEF ChooseMode, Return, Wanted
  <2>3. SessionInv'
    BY <2>1, <2>2 DEF SessionInv
  <2>4. ASSUME todo' = Wanted PROVE Tally'
    <3>1. ok = 0 /\ fail = 0 /\ DOMAIN files = {}
      BY <2>1 DEF DownloadInv
    <3>2. Wanted' = Wanted /\ Cardinality(Wanted) \in Nat
      BY <2>1, SameLine, Wants
    <3>. QED
      BY <2>1, <2>4, <3>1, <3>2, FS_EmptySet DEF Tally
  <2>5. DownloadInv'
    BY <2>1, <2>2, <2>4, SameLine DEF DownloadInv
  <2>. QED
    BY <2>1, <2>2, <2>3, <2>5
<1>4. CASE ListFails
  BY <1>4 DEF ListFails, Return, SessionInv, DownloadInv
<1>5. CASE DownloadEnds
  <2>1. /\ step = "download" /\ todo = {} /\ step' = "off" /\ code' = "0"
        /\ UNCHANGED <<cargs, session, todo, files, ok, fail>>
    BY <1>5 DEF DownloadEnds, Return
  <2>2. Tally'
    BY <2>1, SameTally DEF DownloadInv
  <2>. QED
    BY <2>1, <2>2 DEF SessionInv, DownloadInv
<1>6. ASSUME NEW k \in todo, DownloadOne(k) \/ DownloadFails(k) PROVE CheckerInv'
  <2>1. step = "download" /\ UNCHANGED <<step, cargs, session, code>> /\ FileAws' = FileAws
    BY <1>6 DEF DownloadOne, DownloadFails, Downloading, FileAws
  <2>2. Tally'
    BY <1>6, <2>1, TallyWritten, TallyFailed DEF DownloadInv
  <2>3. SessionInv'
    BY <2>1 DEF SessionInv
  <2>4. DownloadInv'
    BY <2>1, <2>2, SameLine DEF DownloadInv
  <2>. QED
    BY <2>1, <2>3, <2>4
<1>7. ASSUME NEW k \in todo, DownloadBlocked(k) PROVE CheckerInv'
  BY <1>7 DEF DownloadBlocked, Return, SessionInv, DownloadInv
<1>. QED
  BY <1>1, <1>2, <1>3, <1>4, <1>5, <1>6, <1>7 DEF CheckerNext

LEMMA CheckerInitial == Init => CheckerInv
BY ArgsAssumption DEF Init, CheckerInit, CheckerInv, SessionInv, DownloadInv

\* A step of the collector, or none, changes nothing of the checker.
LEMMA CheckerKept ==
  ASSUME CheckerInv, [Next]_vars
  PROVE  CheckerInv'
<1>1. CASE program = "checker" /\ CheckerNext /\ UNCHANGED <<program, startupVars>>
  BY <1>1, CheckerStep DEF startupVars
<1>2. CASE UNCHANGED <<program, checkerVars>> /\ (program = "checker" => UNCHANGED cfg)
  <2>1. UNCHANGED <<program, step, cargs, session, todo, files, ok, fail, code>>
    BY <1>2 DEF checkerVars
  <2>2. SessionInv'
    <3>1. CASE program = "checker"
      BY <1>2, <2>1, <3>1 DEF CheckerInv, SessionInv, FileAws
    <3>2. CASE step = "off"
      BY <2>1, <3>2 DEF SessionInv
    <3>. QED
      BY <3>1, <3>2 DEF CheckerInv
  <2>3. DownloadInv'
    BY <2>1, SameTally, SameLine DEF CheckerInv, DownloadInv
  <2>. QED
    BY <2>1, <2>2, <2>3 DEF CheckerInv
<1>. QED
  BY <1>1, <1>2 DEF Next, vars, startupVars

\* Both programs' invariants.
LEMMA ToolsKept == Spec => [](StartupInv /\ CheckerInv)
<1>1. Init => StartupInv /\ CheckerInv
  BY StartupInitial, CheckerInitial DEF Init
<1>2. StartupInv /\ CheckerInv /\ [Next]_vars => (StartupInv /\ CheckerInv)'
  BY StartupKept, CheckerKept
<1>. QED
  BY <1>1, <1>2, PTL DEF Spec

\* A download that ends well has accounted for every object that was wanted, each in
\* a file of its own or a failure; those of a log type are the ones the collector takes.
THEOREM Downloads == Spec => []DownloadsAccounted
<1>1. ASSUME CheckerInv PROVE DownloadsAccounted
  <2>. SUFFICES ASSUME code = "0", ~OnlyPrints
       PROVE  /\ ok + fail = Cardinality(Wanted)
              /\ (Last(Prefix) = "/" /\ \A k \in Wanted : Plain(k)) =>
                   ok = Cardinality(DOMAIN files)
              /\ (cargs.key = <<>> /\ cargs.prefix = <<>> /\ cargs.log_type # "None") =>
                   Wanted = {k \in BucketKeys : PathToLogType(k) = cargs.log_type}
    BY DEF DownloadsAccounted
  <2>1. cargs \in CheckerArgs /\ Tally /\ todo = {}
    BY <1>1 DEF CheckerInv, DownloadInv
  <2>2. ok + fail = Cardinality(Wanted)
    BY <2>1, FS_EmptySet DEF Tally
  <2>3. ASSUME Last(Prefix) = "/", \A k \in Wanted : Plain(k)
        PROVE  ok = Cardinality(DOMAIN files)
    BY <2>1, <2>3, PlacesOfTheirOwn DEF Tally
  <2>4. ASSUME cargs.key = <<>>, cargs.prefix = <<>>, cargs.log_type # "None"
        PROVE  Wanted = {k \in BucketKeys : PathToLogType(k) = cargs.log_type}
    <3>1. cargs.log_type \in LogTypes
      BY <2>1, <2>4, ArgsAssumption
    <3>2. Wanted = {k \in BucketKeys : IsPrefix(BasePrefix(cargs.log_type), k)}
      BY <2>4, <3>1, TablesAgree DEF Wanted, ListUnder, Prefix
    <3>3. \A k \in BucketKeys :
            PathToLogType(k) = cargs.log_type <=> IsPrefix(BasePrefix(cargs.log_type), k)
      BY <2>1, <3>1, Wants, TypeOfKey
    <3>. QED
      BY <3>2, <3>3
  <2>. QED
    BY <2>2, <2>3, <2>4
<1>. QED
  BY <1>1, ToolsKept, PTL

\* The session of a check has credentials of one place: those of the command line if it
\* has any, or what the collector would use.
THEOREM Credentials == Spec => []CredentialsFromOnePlace
<1>1. ASSUME StartupInv, CheckerInv PROVE CredentialsFromOnePlace
  <2>. SUFFICES ASSUME step \in {"mode", "download"}
       PROVE  /\ Cardinality({session[x] : x \in DOMAIN session} \ {"none"}) <= 1
              /\ cargs.profile \/ cargs.access_key \/ cargs.secret_key =>
                   "cli" \in {session[x] : x \in DOMAIN session}
              /\ (~cargs.profile /\ ~cargs.access_key /\ ~cargs.secret_key) =>
                   session = BuildSession(FileAws) \/ (FileAws.profile /\ FileAws.access_key)
    BY DEF CredentialsFromOnePlace
  <2>1. /\ cargs.profile \in BOOLEAN /\ cargs.access_key \in BOOLEAN
        /\ cargs.secret_key \in BOOLEAN
    BY <1>1, ArgsAssumption DEF CheckerInv
  <2>2. SessionInv /\ cfg \in Configs
    BY <1>1 DEF CheckerInv, StartupInv, StartupTypes
  <2>3. FileAws \in [profile : BOOLEAN, access_key : BOOLEAN, secret_key : BOOLEAN]
    BY <2>2, ConfigsAssumption DEF FileAws, SessionInv
  <2>. QED
    BY <2>1, <2>2, <2>3, FromOnePlace DEF SessionInv
<1>. QED
  BY <1>1, ToolsKept, PTL
=============================================================================
