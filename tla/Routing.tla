------------------------------- MODULE Routing -------------------------------
(***************************************************************************)
(* Where the objects of a log type are in the bucket.  The code has this   *)
(* three times: the prefixes that S3Source lists, path_to_log_type for     *)
(* the keys of SQS messages, and the prefixes of s3_log_checker.  A key is *)
(* a sequence of pieces of text; a piece has no "/" unless it is one.      *)
(***************************************************************************)
EXTENDS SequencesExt

CONSTANTS Root  \* "{fqdn}/org_id={org_id}/"

Unrouted == "None"

LogTypePath ==
  [auditable |-> <<"auditable">>,
   pd0 |-> <<"summaries", "/", "pd=", "0">>, pd1 |-> <<"summaries", "/", "pd=", "1">>,
   pd2 |-> <<"summaries", "/", "pd=", "2">>, pd3 |-> <<"summaries", "/", "pd=", "3">>]

LogTypes == DOMAIN LogTypePath

\* S3Source._base_prefix
BasePrefix(logType) == Root \o LogTypePath[logType] \o <<"/">>

\* s3_log_checker's table
LogTypeSubpath ==
  [auditable |-> <<"auditable", "/">>,
   pd0 |-> <<"summaries", "/", "pd=", "0", "/">>, pd1 |-> <<"summaries", "/", "pd=", "1", "/">>,
   pd2 |-> <<"summaries", "/", "pd=", "2", "/">>, pd3 |-> <<"summaries", "/", "pd=", "3", "/">>]

\* s3_log_checker._build_prefix; no log type means all of them.
CheckerPrefix(logType) ==
  IF logType = "None" THEN Root ELSE Root \o LogTypeSubpath[logType]

\* The first match in the order of the table, of which there is one at most.
PathToLogType(key) ==
  LET matching == {t \in LogTypes : IsPrefix(Root \o LogTypePath[t] \o <<"/">>, key)}
  IN  IF matching = {} THEN Unrouted ELSE CHOOSE t \in matching : TRUE

\* Mutant of ByLogType: a pipeline that is not enabled takes a type as well.
ByLogTypeOfAll(pipelines) ==
  [t \in {pipelines[i].log_type : i \in DOMAIN pipelines} |->
     SelectLastInSeq(pipelines, LAMBDA p : p.log_type = t)]

\* SqsS3Dispatcher._by_log_type of the pipelines that _build_sqs makes, as indices:
\* of two pipelines of one type the later one stays.
ByLogType(pipelines) ==
  [t \in {pipelines[i].log_type : i \in {j \in DOMAIN pipelines : pipelines[j].enabled}} |->
     SelectLastInSeq(pipelines, LAMBDA p : p.log_type = t /\ p.enabled)]
=============================================================================
