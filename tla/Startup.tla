------------------------------ MODULE Startup -------------------------------
(***************************************************************************)
(* cmd/atlassian-mcp/main.go with internal/app, internal/config, the three *)
(* module.go and config.go and internal/transport: from the environment to *)
(* a server that answers tool calls, and the startup logins beside it.     *)
(*                                                                         *)
(* An environment variable is set or not; a base URL is well formed or     *)
(* not; a CA file can appear, vanish or lose its certificates at any time. *)
(* What a login does to the session is JiraSession's and                   *)
(* ConfluenceSession's; here it is a few requests that somebody has to     *)
(* end.  Wording, TLS itself and the version flag are left out.            *)
(***************************************************************************)
EXTENDS Integers, Sequences

CONSTANTS
    Modules,     \* in the order of NewServer's arguments
    Needed,      \* the variables each module cannot do without
    Optional,    \* the other variables that ask for a module
    LoginSteps,  \* requests of its startup login, 0 when it has none
    Environments \* the environments considered, per module

Names == {Modules[i] : i \in DOMAIN Modules}

ASSUME ModulesAssumption ==
    /\ Modules \in Seq(Names)
    /\ \A i, j \in DOMAIN Modules : Modules[i] = Modules[j] => i = j
    /\ LoginSteps \in [Names -> Nat]
    /\ \A m \in Names : Needed[m] # {}    \* a base URL at least
    /\ \A m \in Names : \A e \in Environments[m] :
         /\ e.given \subseteq Needed[m] \cup Optional[m] \cup {"ca"}
         /\ e.urlOk \in BOOLEAN /\ e.login \in BOOLEAN

VARIABLES
    env,       \* each module's variables
    timeout,   \* ATLASSIAN_REQUEST_TIMEOUT: "unset", "positive", "zero" or "garbage"
    verify,    \* ATLASSIAN_TLS_VERIFY
    caFile,    \* what each CA file holds now
    phase,        \* where main is
    next,      \* the module main is at
    loaded,    \* that module's LoadConfig has passed
    status,    \* ModuleStatus of each module
    tools,     \* the modules whose tools are registered
    login,     \* requests each startup login has left; -1 before it starts
    seenCA,    \* history: what NewHTTPClient read, or "unread"
    exitCode

serverVars == <<env, timeout, verify, caFile, phase, next, loaded, status, tools, login, seenCA, exitCode>>
fixed == <<env, timeout, verify>>

Files == {"pem", "other", "missing"}

ServerTypeOK ==
    /\ \A m \in Names : env[m] \in Environments[m]
    /\ timeout \in {"unset", "positive", "zero", "garbage"} /\ verify \in BOOLEAN
    /\ caFile \in [Names -> Files]
    /\ phase \in {"load", "configure", "register", "start", "serving", "exited"}
    /\ next \in 1..(Len(Modules) + 1) /\ loaded \in BOOLEAN
    /\ status \in [Names -> {"unknown", "enabled", "notRequested", "disabled"}]
    /\ tools \subseteq Names
    /\ \A m \in Names : login[m] \in -1..LoginSteps[m]
    /\ seenCA \in [Names -> Files \cup {"unread"}]
    /\ exitCode \in {"none", "0", "1", "2"}

ServerInit ==
    /\ env \in {e \in [Names -> UNION {Environments[m] : m \in Names}] :
                  \A m \in Names : e[m] \in Environments[m]}
    /\ timeout \in {"unset", "positive", "zero", "garbage"} /\ verify \in BOOLEAN
    /\ caFile \in [Names -> Files]
    /\ phase = "load" /\ next = 1 /\ loaded = FALSE
    /\ status = [m \in Names |-> "unknown"]
    /\ tools = {}
    /\ login = [m \in Names |-> -1]
    /\ seenCA = [m \in Names |-> "unread"]
    /\ exitCode = "none"

FileChanges(m, content) ==
    /\ phase \in {"load", "configure"}
    /\ caFile' = [caFile EXCEPT ![m] = content]
    /\ UNCHANGED <<fixed, phase, next, loaded, status, tools, login, seenCA, exitCode>>

-----------------------------------------------------------------------------
\* main, one module at a time.
-----------------------------------------------------------------------------
Exit(code) ==
    /\ phase' = "exited"
    /\ exitCode' = code
    /\ UNCHANGED <<fixed, caFile, next, loaded, status, tools, login, seenCA>>

LoadSharedTakingZero ==
    /\ phase = "load"
    /\ \/ timeout = "garbage" /\ Exit("2")
       \/ /\ timeout \in {"unset", "positive", "zero"}
          /\ phase' = "configure"
          /\ UNCHANGED <<fixed, caFile, next, loaded, status, tools, login, seenCA, exitCode>>

\* The other shared settings are checked the same way.
LoadShared ==
    /\ phase = "load"
    /\ \/ timeout \in {"zero", "garbage"} /\ Exit("2")
       \/ /\ timeout \in {"unset", "positive"}
          /\ phase' = "configure"
          /\ UNCHANGED <<fixed, caFile, next, loaded, status, tools, login, seenCA, exitCode>>

Requested(m) ==
    env[m].given \cap (IF Optional[m] = {} THEN Needed[m] ELSE Needed[m] \cup Optional[m] \cup {"ca"}) # {}

UsesCA(m) == verify /\ "ca" \in env[m].given

LoadConfig(m) ==
    IF ~Requested(m) THEN "notRequested"
    ELSE IF ~(Needed[m] \subseteq env[m].given) \/ ~env[m].urlOk THEN "disabled"
    ELSE IF UsesCA(m) /\ caFile[m] = "missing" THEN "disabled"
    ELSE "enabled"

StatusStopsAtFirstError(m, s) ==
    /\ status' = [status EXCEPT ![m] = s]
    /\ next' = IF s = "disabled" THEN Len(Modules) + 1 ELSE next + 1
    /\ loaded' = FALSE

Status(m, s) ==
    /\ status' = [status EXCEPT ![m] = s]
    /\ next' = next + 1
    /\ loaded' = FALSE

\* ValidateStaticConfig looks at the CA file twice: os.Stat, then os.ReadFile.
ValidateStaticConfig(m) ==
    \/ /\ ~loaded
       /\ \/ LoadConfig(m) # "enabled" /\ Status(m, LoadConfig(m))
          \/ LoadConfig(m) = "enabled" /\ loaded' = TRUE /\ UNCHANGED <<status, next>>
       /\ UNCHANGED seenCA
    \/ /\ loaded
       /\ seenCA' = [seenCA EXCEPT ![m] = IF UsesCA(m) THEN caFile[m] ELSE @]
       /\ Status(m, IF UsesCA(m) /\ caFile[m] # "pem" THEN "disabled" ELSE "enabled")

Configure ==
    /\ phase = "configure"
    /\ \/ /\ next <= Len(Modules)
          /\ ValidateStaticConfig(Modules[next])
          /\ UNCHANGED phase
       \/ /\ next > Len(Modules)
          /\ phase' = "register"
          /\ UNCHANGED <<next, loaded, status, seenCA>>
    /\ UNCHANGED <<fixed, caFile, tools, login, exitCode>>

RegisterEnabled ==
    /\ phase = "register"
    /\ tools' = {m \in Names : status[m] = "enabled"}
    /\ phase' = "start"
    /\ UNCHANGED <<fixed, caFile, next, loaded, status, login, seenCA, exitCode>>

StartsLogin(m) == status[m] = "enabled" /\ env[m].login

AutoAuthenticateTwice ==
    login' = [m \in Names |-> IF StartsLogin(m) THEN 2 * LoginSteps[m] ELSE 0]

\* The goroutines of main; one without both variables returns at once.
AutoAuthenticate ==
    login' = [m \in Names |-> IF StartsLogin(m) THEN LoginSteps[m] ELSE 0]

\* server.Run begins whatever became of the logins, and with no module at all.
Start ==
    /\ phase = "start"
    /\ AutoAuthenticate
    /\ phase' = "serving"
    /\ UNCHANGED <<fixed, caFile, next, loaded, status, tools, seenCA, exitCode>>

\* The MCP client closes stdin, or the transport fails; logins die with the process.
RunReturns == phase = "serving" /\ \E code \in {"0", "1"} : Exit(code)

-----------------------------------------------------------------------------
\* The startup logins, beside server.Run.
-----------------------------------------------------------------------------
LoginStep(m, left) ==
    /\ phase = "serving" /\ login[m] > 0
    /\ login' = [login EXCEPT ![m] = left]
    /\ UNCHANGED <<fixed, caFile, phase, next, loaded, status, tools, seenCA, exitCode>>

\* The upstream answers: the next request follows, or the login is over.
LoginAnswered(m) == \E left \in {0, login[m] - 1} : LoginStep(m, left)

\* http.Client.Timeout, for which net/http takes 0 as no timeout.
LoginTimesOut(m) == timeout # "zero" /\ LoginStep(m, 0)

Main == LoadShared \/ Configure \/ RegisterEnabled \/ Start

ServerNext ==
    \/ Main
    \/ RunReturns
    \/ \E m \in Names :
        \/ \E content \in Files : FileChanges(m, content)
        \/ LoginAnswered(m) \/ LoginTimesOut(m)

ServerSpec == ServerInit /\ [][ServerNext]_serverVars

(***************************************************************************)
(* main runs, and timeouts fire.  Nobody makes an upstream answer, a file  *)
(* change or the client go away.                                           *)
(***************************************************************************)
ServerFairness == WF_serverVars(Main) /\ \A m \in Names : WF_serverVars(LoginTimesOut(m))

ServerFairSpec == ServerSpec /\ ServerFairness

-----------------------------------------------------------------------------
(* One module's missing or broken configuration never takes the tools of   *)
(* another with it, and never leaves its own half registered: the tools    *)
(* served are those of exactly the modules whose own settings are complete *)
(* and whose own CA file, if it was needed, held a certificate when it was *)
(* read (module_registry.go:27-49).                                        *)
OwnSettingsGood(m) ==
    /\ Needed[m] \subseteq env[m].given /\ env[m].urlOk
    /\ ~UsesCA(m) \/ seenCA[m] = "pem"

ModulesAreIsolated ==
    phase = "serving" => tools = {m \in Names : OwnSettingsGood(m)}

(* A startup login ends although its upstream may accept the request and   *)
(* never answer: no setting that is accepted switches the timeout off      *)
(* (shared.go:40-45).                                                      *)
EveryLoginEnds == \A m \in Names : login[m] > 0 ~> login[m] = 0 \/ phase = "exited"
=============================================================================
