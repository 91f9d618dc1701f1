------------------------------ MODULE MCStartup ------------------------------
EXTENDS Startup

MCModules == <<"jira", "confluence", "bitbucket">>

\* Of Bitbucket's variables one that is needed and one that only asks for it.
MCNeeded == [m \in Names |-> IF m = "bitbucket" THEN {"url", "token"} ELSE {"url"}]
MCOptional == [m \in Names |-> IF m = "bitbucket" THEN {"slug"} ELSE {}]
MCLoginSteps == [jira |-> 2, confluence |-> 1, bitbucket |-> 0]

MCEnvironments ==
    [jira |-> [given: SUBSET {"url", "ca"}, urlOk: BOOLEAN, login: {TRUE}],
     confluence |-> [given: {{"url"}}, urlOk: {TRUE}, login: BOOLEAN],
     bitbucket |-> [given: SUBSET {"url", "token", "slug", "ca"}, urlOk: {TRUE}, login: {FALSE}]]
=============================================================================
