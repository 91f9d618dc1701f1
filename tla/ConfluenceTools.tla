--------------------------- MODULE ConfluenceTools ---------------------------
(***************************************************************************)
(* The nine Confluence tools of internal/confluence/tools: what            *)
(* register.go promises of each, and what the handler bound to it in       *)
(* service.go, content.go and spaces.go sets out to do with its arguments  *)
(* when there is a session: refuse them, send one GET, or authenticate.    *)
(*                                                                         *)
(* Arguments are reduced to the fields a handler looks at: an identifier,  *)
(* a key, a query, the enumerated options, and the two numbers of a page.  *)
(***************************************************************************)

Field == {"absent", "blank", "good", "bad"}
Number == {"absent", "good", "bad"}

Arguments == [id: Field, key: Field, cql: Field, option: Number, start: Number, limit: Number]

Given(f) == f \in {"good", "bad"}    \* not blank after TrimSpace

cleanPathSegment(f) == f = "good"    \* given, and one segment

validatedPage(in) == in.start # "bad" /\ in.limit # "bad"

Get(ok) == IF ok THEN "get" ELSE "refused"

Authenticate(in) == "authenticate"

SearchContent(in) == Get(Given(in.cql) /\ validatedPage(in))
GetContent(in) == Get(cleanPathSegment(in.id) /\ in.option # "bad")
ListContent(in) == Get(in.option # "bad" /\ validatedPage(in))
ListContentProperties(in) == Get(cleanPathSegment(in.id) /\ validatedPage(in))
GetContentProperty(in) == Get(cleanPathSegment(in.id) /\ cleanPathSegment(in.key))

ListSpaces(in) == Get(in.option # "bad" /\ validatedPage(in))
GetSpace(in) == Get(cleanPathSegment(in.key))
ListSpaceContent(in) == Get(cleanPathSegment(in.key) /\ in.option # "bad" /\ validatedPage(in))

\* What the MCP client is told of tool i.
Definitions ==
    <<"unset", "readOnly", "readOnly", "readOnly", "readOnly", "readOnly", "readOnly",
      "readOnly", "readOnly">>

RegisterAuthenticateLast(in) ==
    <<SearchContent(in), GetContent(in), ListContent(in), ListContentProperties(in),
      GetContentProperty(in), ListSpaces(in), GetSpace(in), ListSpaceContent(in),
      Authenticate(in)>>

\* Register binds handlers to definitions by position and by nothing else.
Register(in) ==
    <<Authenticate(in), SearchContent(in), GetContent(in), ListContent(in),
      ListContentProperties(in), GetContentProperty(in), ListSpaces(in), GetSpace(in),
      ListSpaceContent(in)>>

Does(i) == {Register(in)[i] : in \in Arguments}

\* What a tool call can set out to do, with the hint of its tool.
ToolCalls ==
    UNION {{[hint |-> Definitions[i], does |-> d] : d \in Does(i)} : i \in DOMAIN Definitions}
=============================================================================
