------------------------------ MODULE Settings ------------------------------
(***************************************************************************)
(* config.yaml: what core/config.py accepts, and the AWS credentials that  *)
(* the collector (_build_session) and s3_log_checker take from it.  A text *)
(* is there or not; of a credential, where it comes from is what matters:  *)
(* "cli", "config" or "none".  The sink of a pipeline is the set of the    *)
(* sinks that its events go to: one, or the children of a multi sink and   *)
(* of the multi sinks among them.                                          *)
(***************************************************************************)
EXTENDS Routing, FiniteSets, Naturals

CONSTANTS Configs

VARIABLES cfg  \* the file: [parses |-> FALSE], or its contents

\* What of a sink is given.
Sinks == [type : {"udp", "tcp", "tls", "https", "file"},
          host : BOOLEAN, port : BOOLEAN, url : BOOLEAN]

\* NetworkSinkConfig._type_requirements, FileSinkConfig, MultiSinkConfig: a multi sink
\* may have no sinks.
SinkValid(sink) ==
  \A s \in sink : /\ s.type \in {"udp", "tcp", "tls"} => s.host /\ s.port
                 /\ s.type = "https" => s.url

MapperValid(m) == m.format = "cef" => m.mapping_file

KeyPair(aws) == aws.access_key = aws.secret_key

Names(pipelines) == {pipelines[i].name : i \in DOMAIN pipelines}

UniqueNames(pipelines) ==
  Cardinality(Names(pipelines)) = Len(pipelines) /\ pipelines # <<>>

\* load_config: anything else is a ConfigError.
Accepts(c) ==
  /\ c.parses
  /\ KeyPair(c.aws) /\ UniqueNames(c.pipelines)
  /\ \A i \in DOMAIN c.pipelines : /\ MapperValid(c.pipelines[i].mapper)
                                   /\ SinkValid(c.pipelines[i].sink)
-----------------------------------------------------------------------------
None == [profile |-> "none", access_key |-> "none", secret_key |-> "none"]

From(where, given) == IF given THEN where ELSE "none"

\* Pipeline's _build_session: a profile goes before keys.
BuildSession(aws) ==
  IF ~aws.profile /\ aws.access_key
    THEN [None EXCEPT !.access_key = "config", !.secret_key = From("config", aws.secret_key)]
    ELSE [None EXCEPT !.profile = From("config", aws.profile)]

\* Mutant of ResolveAwsAuth: each value by itself, as for the bucket.
ResolveAwsAuthEach(args, aws) ==
  LET of(x) == IF args[x] THEN "cli" ELSE From("config", aws[x])
  IN  [x \in DOMAIN None |-> of(x)]

\* s3_log_checker._resolve_aws_auth
ResolveAwsAuth(args, aws) ==
  LET all(where, from) == [x \in DOMAIN None |-> From(where, from[x])]
  IN  CASE args.access_key \/ args.secret_key -> all("cli", args)
        [] args.profile /\ ~args.access_key /\ ~args.secret_key ->
             [None EXCEPT !.profile = "cli"]
        [] OTHER -> all("config", aws)

\* s3_log_checker.get_aws_session: keys go before a profile.
GetAwsSession(auth) ==
  IF auth.access_key # "none" /\ auth.secret_key # "none" THEN [auth EXCEPT !.profile = "none"]
  ELSE [None EXCEPT !.profile = auth.profile]
=============================================================================
