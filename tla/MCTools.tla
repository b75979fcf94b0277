------------------------------- MODULE MCTools -------------------------------
(* Configurations, command lines and buckets for TLC.                       *)
EXTENDS Tools

RootText == <<"F", "/", "org_id=1", "/">>

Bare     == [type |-> "file", host |-> FALSE, port |-> FALSE, url |-> FALSE]
HttpsUrl == [Bare EXCEPT !.type = "https", !.url = TRUE]

Tcp   == {[Bare EXCEPT !.type = "tcp", !.host = TRUE, !.port = TRUE]}
Https == {HttpsUrl}
File  == {Bare}
Multi == {HttpsUrl, Bare}

Json == [format |-> "json", mapping_file |-> FALSE]
CefM == [format |-> "cef", mapping_file |-> TRUE]

P(name, enabled, logType, mapper, sink) ==
  [name |-> name, enabled |-> enabled, log_type |-> logType, mapper |-> mapper, sink |-> sink]

NoAws == [profile |-> FALSE, access_key |-> FALSE, secret_key |-> FALSE]
Aws   == [profile : BOOLEAN, access_key : BOOLEAN, secret_key : BOOLEAN]

File1(aws, source, pipelines) ==
  [parses |-> TRUE, aws |-> aws, source |-> source, pipelines |-> pipelines]

AllConfigs ==
  {File1(a, "s3", <<P("p", TRUE, "pd1", Json, Tcp)>>) : a \in Aws}
    \union {File1(NoAws, s, ps) : s \in {"s3", "sqs_s3"}, ps \in {
        <<P("p", TRUE, "pd1", CefM, Multi), P("q", TRUE, "auditable", Json, File)>>,
        <<P("p", TRUE, "pd1", Json, Tcp), P("q", TRUE, "pd1", CefM, Https)>>,
        <<P("p", FALSE, "pd2", Json, File), P("q", TRUE, "pd1", Json, File)>>,
        <<P("p", TRUE, "pd1", Json, Tcp), P("q", FALSE, "pd1", Json, File)>>,
        <<P("p", TRUE, "auditable", Json, Tcp), P("p", TRUE, "pd1", Json, Tcp)>>,
        <<P("p", FALSE, "pd1", Json, Tcp)>>,
        <<P("p", TRUE, "pd1", [CefM EXCEPT !.mapping_file = FALSE], Tcp)>>,
        <<P("p", TRUE, "pd1", Json, {[HttpsUrl EXCEPT !.url = FALSE], Bare})>>,
        <<>>}}
    \union {[parses |-> FALSE]}

NamesTwo == {"p", "q"}

\* Keys of two types; of a directory whose name begins like another's, which is of no
\* type; of another organisation; and of one name in two directories.
Pd1Key      == RootText \o <<"summaries", "/", "pd=", "1", "/", "d", "/", "f">>
Pd1Other    == RootText \o <<"summaries", "/", "pd=", "1", "/", "e", "/", "f">>
AuditKey    == RootText \o <<"auditable", "/", "f">>
Lookalike   == RootText \o <<"summaries", "/", "pd=", "1", "0", "/", "f">>
AuditedLike == RootText \o <<"auditable", "X", "/", "f">>
OtherOrg    == <<"F", "/", "org_id=2", "/", "auditable", "/", "f">>
\* An object whose name is that of a directory.
Nested      == AuditKey \o <<"/", "g">>
\* An object whose path is that of another one.
Doubled     == RootText \o <<"auditable", "/", "/", "f">>

AllKeys == {Pd1Key, Pd1Other, AuditKey, Lookalike, AuditedLike, OtherOrg}
Bucket  == {Pd1Key, Pd1Other, AuditKey, Nested, Lookalike, Doubled}

NoArgs ==
  [profile |-> FALSE, access_key |-> FALSE, secret_key |-> FALSE, bucket |-> TRUE, sqs_url |-> FALSE,
   list |-> FALSE, download |-> FALSE, config |-> FALSE, org |-> TRUE,
   key |-> <<>>, prefix |-> <<>>, log_type |-> "None"]

Download == [NoArgs EXCEPT !.download = TRUE]

AllArgs ==
  {[NoArgs EXCEPT !.profile = a.profile, !.access_key = a.access_key, !.secret_key = a.secret_key,
                  !.config = c] : a \in Aws, c \in BOOLEAN}
    \union {[NoArgs EXCEPT !.bucket = FALSE], [NoArgs EXCEPT !.bucket = FALSE, !.sqs_url = TRUE],
            [NoArgs EXCEPT !.org = FALSE], [NoArgs EXCEPT !.list = TRUE], Download,
            [Download EXCEPT !.org = FALSE], [Download EXCEPT !.key = AuditKey],
            [Download EXCEPT !.key = OtherOrg], [Download EXCEPT !.prefix = RootText],
            [Download EXCEPT !.prefix = Front(RootText)],
            [Download EXCEPT !.prefix = <<"none", "/">>]}
    \union {[Download EXCEPT !.log_type = t] : t \in {"pd1", "auditable", "pd3"}}
=============================================================================
