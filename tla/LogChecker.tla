----------------------------- MODULE LogChecker -----------------------------
(***************************************************************************)
(* s3_log_checker.py, the tool operators run by hand: main with its        *)
(* checks, the choice of what to do, and the download of one key or of all *)
(* under a prefix.  Paths are texts like keys, sequences of pieces with    *)
(* "/" and "." as pieces of their own, below the directory given unless    *)
(* they begin with a "/".  The probes of endpoints and DNS and the test    *)
(* mode only print, and are one step.                                      *)
(***************************************************************************)
EXTENDS Settings

CONSTANTS
  CheckerArgs,    \* command lines: profile, access_key, secret_key, bucket, sqs_url,
                  \* list, download, config, org: is it given; key, prefix: a text, or <<>>
  BucketKeys,     \* the objects that are no directory markers
  MaxFailures     \* bound

ASSUME ArgsAssumption ==
  /\ CheckerArgs # {}
  /\ \A a \in CheckerArgs :
       /\ {a.profile, a.access_key, a.secret_key, a.bucket, a.sqs_url, a.list,
           a.download, a.config, a.org} \subseteq BOOLEAN
       /\ {a.key, a.prefix} \subseteq Seq(STRING) /\ a.log_type \in LogTypes \union {"None"}
ASSUME BucketAssumption ==
  BucketKeys \subseteq Seq(STRING) /\ IsFiniteSet(BucketKeys) /\ MaxFailures \in Nat

VARIABLES step,     \* "off", "resolve", "mode", "download"
          cargs,    \* the command line
          session,  \* credentials
          todo,     \* keys still to be downloaded
          files,    \* of each path written: the object whose contents it has
          tried,    \* the paths whose directory was made
          ok, fail, code

checkerVars == <<step, cargs, session, todo, files, tried, ok, fail, code>>

CheckerInit ==
  /\ step = "off" /\ cargs = (CHOOSE a \in CheckerArgs : TRUE) /\ session = None
  /\ todo = {} /\ files = <<>> /\ tried = {} /\ ok = 0 /\ fail = 0 /\ code = "none"

Return(status) == step' = "off" /\ code' = status
-----------------------------------------------------------------------------
(* Paths *)

\* The names that pathlib or _download_destination leaves out.
Dropped == {<<>>, <<".">>, <<".", ".">>}

\* No name of the text is left out.
Plain(text) ==
  LET cut(i) == i = 0 \/ i = Len(text) + 1 \/ text[i] = "/"
  IN  \A i, j \in 0 .. Len(text) + 1 :
        i < j /\ cut(i) /\ cut(j) => SubSeq(text, i + 1, j - 1) \notin Dropped

Slashes(text) == SelectSeq([i \in DOMAIN text |-> i], LAMBDA i : text[i] = "/")

\* PurePosixPath(text).parts, but for the slash that a text begins with.
Parts(text) ==
  LET cuts  == <<0>> \o Slashes(text) \o <<Len(text) + 1>>
      names == [i \in 1 .. Len(cuts) - 1 |-> SubSeq(text, cuts[i] + 1, cuts[i+1] - 1)]
  IN  SelectSeq(names, LAMBDA n : n \notin {<<>>, <<".">>})

\* Without the names left out, which a plain text does not have.
Path(text) ==
  LET kept  == SelectSeq(Parts(text), LAMBDA n : n \notin Dropped)
      below == FlattenSeq([i \in DOMAIN kept |-> IF i = 1 THEN kept[i] ELSE <<"/">> \o kept[i]])
  IN  IF Plain(text) THEN text
                     ELSE (IF IsPrefix(<<"/">>, text) THEN <<"/">> ELSE <<>>) \o below

BaseName(key) ==
  IF Parts(key) = <<>> THEN <<"downloaded-object">> ELSE Last(Parts(key))

WithoutSlashes(prefix) == SubSeq(prefix, 1, SelectLastInSeq(prefix, LAMBDA c : c # "/"))

\* Mutant of DownloadDestination: the file gets the last name of the key.
DownloadDestinationFlat(key, prefix, hierarchy) == BaseName(key)

\* _download_destination
DownloadDestination(key, prefix, hierarchy) ==
  LET root     == WithoutSlashes(prefix) \o <<"/">>
      relative == IF IsPrefix(root, key) THEN SubSeq(key, Len(root) + 1, Len(key)) ELSE key
  IN  IF ~hierarchy \/ prefix = <<>> \/ Path(relative) = <<>> THEN BaseName(key)
                                                             ELSE Path(relative)
-----------------------------------------------------------------------------
RunChecker ==
  /\ step = "off"
  /\ cargs' \in CheckerArgs /\ step' = "resolve" /\ code' = "none"
  /\ session' = None /\ todo' = {} /\ files' = <<>> /\ tried' = {} /\ ok' = 0 /\ fail' = 0

\* The file is read as YAML only: it need not be a valid configuration.
FileAws == IF cargs.config THEN cfg.aws
           ELSE [profile |-> FALSE, access_key |-> FALSE, secret_key |-> FALSE]

HasBucket == cargs.bucket \/ cargs.config
HasOrg    == cargs.org \/ cargs.config

Resolve ==
  /\ step = "resolve"
  /\ IF cargs.config /\ ~cfg.parses THEN Return("1") /\ UNCHANGED session
     ELSE LET auth == ResolveAwsAuth(cargs, FileAws)
          IN  IF \/ ~HasBucket /\ ~cargs.sqs_url
                 \/ (auth.access_key = "none") # (auth.secret_key = "none")
                THEN Return("1") /\ UNCHANGED session
                ELSE /\ session' = GetAwsSession(auth)
                     /\ \/ step' = "mode" /\ UNCHANGED code
                        \/ session'.profile # "none" /\ Return("1")  \* there is no such profile
  /\ UNCHANGED <<cargs, todo, files, tried, ok, fail>>

\* The prefix to list: of --prefix, or of the organisation and --log-type.
Prefix == IF cargs.prefix # <<>> THEN cargs.prefix ELSE CheckerPrefix(cargs.log_type)

OnlyPrints == cargs.sqs_url \/ ~cargs.download

Incomplete == /\ cargs.prefix = <<>> \/ ~(cargs.list \/ cargs.download)
              /\ ~(cargs.download /\ cargs.key # <<>>)
              /\ ~HasOrg /\ ~cargs.sqs_url

ListUnder(prefix) == {k \in BucketKeys : IsPrefix(prefix, k)}

\* --sqs-url, --list, --download or, without any of them, the tests.  A prefix that
\* lists nothing ends a download with a warning.
ChooseMode ==
  /\ step = "mode"
  /\ IF Incomplete THEN Return("1") /\ UNCHANGED todo
     ELSE IF OnlyPrints THEN Return("0") /\ UNCHANGED todo
     ELSE /\ todo' = IF cargs.key # <<>> THEN {cargs.key} ELSE ListUnder(Prefix)
          /\ step' = "download" /\ UNCHANGED code
  /\ UNCHANGED <<cargs, session, files, tried, ok, fail>>

\* A call that lists fails, before the first key or between two pages.
ListFails ==
  /\ step \in {"mode", "download"} /\ ~Incomplete /\ ~cargs.sqs_url
  /\ cargs.list \/ (cargs.download /\ cargs.key = <<>>)
  /\ Return("1")
  /\ UNCHANGED <<cargs, session, todo, files, tried, ok, fail>>

DestinationOf(k) ==
  DownloadDestination(k, IF cargs.key # <<>> THEN <<>> ELSE Prefix, cargs.key = <<>>)

\* A file is where makedirs needs a directory; a directory where the file should be.
NoDirectory(dest) == \E f \in DOMAIN files : IsPrefix(f \o <<"/">>, dest)
IsDirectory(dest) == \E d \in tried : IsPrefix(dest \o <<"/">>, d)

\* Keys come in the order of the listing; any order here.
Downloading(k) == step = "download" /\ k \in todo

DownloadOne(k) ==
  LET dest == DestinationOf(k)
  IN  /\ Downloading(k) /\ k \in BucketKeys /\ ~NoDirectory(dest) /\ ~IsDirectory(dest)
      /\ todo' = todo \ {k} /\ tried' = tried \union {dest} /\ ok' = ok + 1
      /\ files' = [f \in DOMAIN files \union {dest} |-> IF f = dest THEN k ELSE files[f]]
      /\ UNCHANGED <<step, cargs, session, fail, code>>

\* ClientError: the object is not there, or S3 refuses.
DownloadFails(k) ==
  /\ Downloading(k) /\ ~NoDirectory(DestinationOf(k))
  /\ k \in BucketKeys => fail < MaxFailures
  /\ fail' = fail + 1 /\ todo' = todo \ {k} /\ tried' = tried \union {DestinationOf(k)}
  /\ UNCHANGED <<step, cargs, session, files, ok, code>>

\* makedirs or the rename of the download raises OSError, which nothing catches.
DownloadBlocked(k) ==
  /\ Downloading(k)
  /\ NoDirectory(DestinationOf(k)) \/ (k \in BucketKeys /\ IsDirectory(DestinationOf(k)))
  /\ Return("traceback")
  /\ UNCHANGED <<cargs, session, todo, files, tried, ok, fail>>

DownloadEnds ==
  /\ step = "download" /\ todo = {}
  /\ Return("0")
  /\ UNCHANGED <<cargs, session, todo, files, tried, ok, fail>>

CheckerNext ==
  \/ RunChecker \/ Resolve \/ ChooseMode \/ ListFails \/ DownloadEnds
  \/ \E k \in todo : DownloadOne(k) \/ DownloadFails(k) \/ DownloadBlocked(k)
-----------------------------------------------------------------------------
\* What a download has to fetch.
Wanted == IF cargs.key # <<>> THEN {cargs.key} ELSE ListUnder(Prefix)

\* A download that ends well has dealt with every object, whichever of them failed:
\* each is in a file of its own, as "objects of one name do not overwrite each other"
\* (s3_log_checker.py:45), or was counted as a failure; and those of a log type are the
\* ones the collector takes for that type.  A prefix that does not end with a slash may
\* list two objects of the same place below it, and names that are left out make two keys
\* one path: then one file replaces the other.
DownloadsAccounted ==
  (code = "0" /\ ~OnlyPrints) =>
    /\ ok + fail = Cardinality(Wanted)
    /\ (Last(Prefix) = "/" /\ \A k \in Wanted : Plain(k)) => ok = Cardinality(DOMAIN files)
    /\ (cargs.key = <<>> /\ cargs.prefix = <<>> /\ cargs.log_type # "None") =>
         Wanted = {k \in BucketKeys : PathToLogType(k) = cargs.log_type}

\* Credentials of the command line and of the file are not mixed, and those of the
\* command line win; without any the tool uses what the collector would, unless the
\* file has a profile and keys.
CredentialsFromOnePlace ==
  step \in {"mode", "download"} =>
    /\ Cardinality({session[x] : x \in DOMAIN session} \ {"none"}) <= 1
    /\ cargs.profile \/ cargs.access_key \/ cargs.secret_key =>
         "cli" \in {session[x] : x \in DOMAIN session}
    /\ (~cargs.profile /\ ~cargs.access_key /\ ~cargs.secret_key) =>
         session = BuildSession(FileAws) \/ (FileAws.profile /\ FileAws.access_key)
=============================================================================
