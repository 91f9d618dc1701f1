----------------------------- MODULE JiraTools ------------------------------
(***************************************************************************)
(* The thirty Jira tools of internal/jira/tools: what register.go promises *)
(* of each by its annotations, and what the handler bound to it in         *)
(* service.go does with an input once there is a credential: refuse it, or *)
(* send one request.  A handler is a function from inputs to requests.     *)
(*                                                                         *)
(* An input is reduced to the fields a handler looks at: an identifier, a  *)
(* second identifier, what the call is about (a body, fields, a query, a   *)
(* name, a number) and an option; each is absent, blank, good or bad.      *)
(***************************************************************************)

Field == {"absent", "blank", "good", "bad"}

Inputs == [id: Field, id2: Field, what: Field, option: Field,
           returnIssue: BOOLEAN, returnOptions: BOOLEAN]

Given(f) == f \in {"good", "bad"}    \* not blank after TrimSpace

Clean(f) == f = "good"               \* cleanPathSegment, cleanIssueID

\* returnFields and returnExpand require returnIssue.
ReturnOK(in) == in.returnOptions => in.returnIssue

\* The issue, component or attachment a request names goes into its path
\* ("path"); "decodes": its answer is wanted; "refresh": refreshAfterMutation
\* follows; "by": how a transition is named.
Request(method, path, decodes, refresh) ==
    [method |-> method, path |-> path, decodes |-> decodes, refresh |-> refresh, by |-> "none"]

Refused == Request("none", {}, FALSE, FALSE)

Checked(ok, request) == IF ok THEN request ELSE Refused

Read(in) == Checked(Clean(in.id), Request("GET", {in.id}, TRUE, FALSE))

-----------------------------------------------------------------------------
\* Reads.
Authenticate(in) == Request("GET", {}, TRUE, FALSE)
GetIssue(in) == Read(in)
SearchIssues(in) == Checked(Given(in.what), Request("search", {}, TRUE, FALSE))
ListIssueComments(in) == Read(in)
ListIssueTransitions(in) == Read(in)
ListIssueWorklogs(in) == Read(in)
GetIssueWatchers(in) == Read(in)
GetComponent(in) == Read(in)
GetComponentIssueCount(in) == Read(in)
ListProjectComponents(in) == Read(in)

-----------------------------------------------------------------------------
\* Writes without a read-back.
AddIssueComment(in) ==
    Checked(Clean(in.id) /\ Given(in.what) /\ in.option # "bad",
            Request("POST", {in.id}, TRUE, FALSE))

CreateIssue(in) == Checked(in.what = "good", Request("POST", {}, TRUE, FALSE))

BulkCreateIssues(in) == Checked(in.what = "good", Request("POST", {}, TRUE, FALSE))

DeleteIssue(in) == Checked(Clean(in.id), Request("DELETE", {in.id}, FALSE, FALSE))

DeleteIssueAttachment(in) == Checked(Clean(in.id), Request("DELETE", {in.id}, FALSE, FALSE))

CreateIssueLink(in) ==
    Checked(in.what = "good" /\ in.id = "good" /\ in.id2 = "good",
            Request("POST", {}, FALSE, FALSE))

CreateComponent(in) ==
    Checked(Given(in.id) /\ Given(in.what), Request("POST", {}, TRUE, FALSE))

\* A field may be set to the empty string here, to clear it.
UpdateComponent(in) ==
    Checked(Clean(in.id) /\ in.what # "absent", Request("PUT", {in.id}, TRUE, FALSE))

DeleteComponent(in) ==
    Checked(Clean(in.id) /\ (in.id2 = "absent" \/ Clean(in.id2)),
            Request("DELETE", {in.id}, FALSE, FALSE))

-----------------------------------------------------------------------------
\* Writes to an issue that can be read back.
Change(in, ok, method, path, decodes) ==
    Checked(Clean(in.id) /\ ok /\ ReturnOK(in),
            Request(method, {in.id} \cup path, decodes, in.returnIssue))

UpdateIssueFields(in) == Change(in, in.what = "good", "PUT", {}, FALSE)

\* transitionId and transitionName: one of them, and neither goes into a path.
TransitionIssue(in) ==
    LET request == Change(in, Given(in.id2) # Given(in.what), "POST", {}, FALSE) IN
    IF request = Refused THEN Refused
    ELSE [request EXCEPT !.by = IF Given(in.what) THEN "name" ELSE "id"]

AssignIssue(in) == Change(in, TRUE, "PUT", {}, FALSE)

UpdateIssueComment(in) ==
    Change(in, Clean(in.id2) /\ Given(in.what) /\ in.option # "bad", "PUT", {in.id2}, TRUE)

DeleteIssueComment(in) == Change(in, Clean(in.id2), "DELETE", {in.id2}, FALSE)

AddIssueAttachment(in) == Change(in, Given(in.what) /\ in.option # "bad", "POST", {}, TRUE)

AddIssueWorklog(in) == Change(in, in.what = "good" /\ in.option # "bad", "POST", {}, TRUE)

AddIssueWatcher(in) == Change(in, Given(in.what), "POST", {}, FALSE)

RemoveIssueWatcher(in) == Change(in, Given(in.what), "DELETE", {}, FALSE)

VoteIssue(in) == Change(in, TRUE, "POST", {}, FALSE)

UnvoteIssue(in) == Change(in, TRUE, "DELETE", {}, FALSE)

-----------------------------------------------------------------------------
\* What the MCP client is told of tool i; "unset" where no annotation is.
Definitions ==
    <<"unset", "readOnly", "additive", "destructive", "destructive", "additive",
      "additive", "destructive", "destructive", "readOnly", "readOnly", "destructive",
      "destructive", "readOnly", "additive", "destructive", "readOnly", "additive",
      "readOnly", "additive", "destructive", "additive", "destructive", "additive",
      "additive", "readOnly", "destructive", "destructive", "readOnly", "readOnly">>

RegisterOneOff(in) ==
    <<Authenticate(in), GetIssue(in), AddIssueComment(in), UpdateIssueFields(in),
      TransitionIssue(in), CreateIssue(in), BulkCreateIssues(in), DeleteIssue(in),
      AssignIssue(in), ListIssueComments(in), UpdateIssueComment(in), SearchIssues(in),
      DeleteIssueComment(in), ListIssueTransitions(in), AddIssueAttachment(in),
      DeleteIssueAttachment(in), ListIssueWorklogs(in), AddIssueWorklog(in),
      GetIssueWatchers(in), AddIssueWatcher(in), RemoveIssueWatcher(in), VoteIssue(in),
      UnvoteIssue(in), CreateIssueLink(in), CreateComponent(in), GetComponent(in),
      UpdateComponent(in), DeleteComponent(in), GetComponentIssueCount(in),
      ListProjectComponents(in)>>

\* Register binds handlers to definitions by position and by nothing else.
Register(in) ==
    <<Authenticate(in), GetIssue(in), AddIssueComment(in), UpdateIssueFields(in),
      TransitionIssue(in), CreateIssue(in), BulkCreateIssues(in), DeleteIssue(in),
      AssignIssue(in), SearchIssues(in), ListIssueComments(in), UpdateIssueComment(in),
      DeleteIssueComment(in), ListIssueTransitions(in), AddIssueAttachment(in),
      DeleteIssueAttachment(in), ListIssueWorklogs(in), AddIssueWorklog(in),
      GetIssueWatchers(in), AddIssueWatcher(in), RemoveIssueWatcher(in), VoteIssue(in),
      UnvoteIssue(in), CreateIssueLink(in), CreateComponent(in), GetComponent(in),
      UpdateComponent(in), DeleteComponent(in), GetComponentIssueCount(in),
      ListProjectComponents(in)>>

Writes(request) == request.method \in {"POST", "PUT", "DELETE"}

\* Everything a tool call can set out to write, with the hint of its tool.
WriteCalls ==
    UNION {{[hint |-> Definitions[i], request |-> Register(in)[i]] :
              i \in {j \in DOMAIN Definitions : Writes(Register(in)[j])}} : in \in Inputs}
=============================================================================
