------------------------------ MODULE MCPipeline ------------------------------
(* The DTOs for the run of Pipeline: a plain one, those that the edge admits *)
(* and that differ from it in one field, and clicks.                         *)
EXTENDS Pipeline

CONSTANTS r1

Plain == [f \in Fields |->
    CASE f = "visitorId" -> Text(36, "id")
      [] f = "eventType" -> Text(9, "enum")
      [] f = "landingPage" -> Text(36, "url")
      [] OTHER -> Absent]

\* Values at and around every limit, and values with a NUL.
Odd == {Absent, Json("object", 1), WithNul(Json("object", 1), TRUE), WithNul(Text(8, "other"), TRUE)} \cup
       {Json("number", n) : n \in {0, 1, 10, 11}} \cup {Json("boolean", n) : n \in 0..1} \cup
       {Text(n, form) : n \in {0, 7, 8, 256, 257, 512, 513}, form \in {"id", "url", "enum", "other"}}

\* A DTO as a record.
MakeDto(f, occurredAt, via) ==
    [visitorId |-> f["visitorId"], eventId |-> f["eventId"],
     eventType |-> f["eventType"], utm |-> f["utm"], clickId |-> f["clickId"],
     sourceUrl |-> f["sourceUrl"], value |-> f["value"],
     landingPage |-> f["landingPage"], browser |-> f["browser"],
     deviceType |-> f["deviceType"], metadata |-> f["metadata"],
     occurredAt |-> occurredAt, via |-> via]

PlainDtos == {MakeDto(Plain, occurredAt, "events") : occurredAt \in {"fine", "stale"}}

Parameters == {v \in Odd : Parameter(v)} \cup {Text(801, "id")}

Slug == Text(8, "other")

Clicks ==
    {Click(Slug, [vid |-> vid, utm |-> utm, clickId |-> Absent]) :
        vid \in Parameters, utm \in Parameters} \cup
    {Click(slug, [vid |-> Absent, utm |-> Absent, clickId |-> clickId]) :
        slug \in {WithNul(Slug, nul) : nul \in BOOLEAN}, clickId \in Parameters}

SomeDtos ==
    PlainDtos \cup {MakeDto(Plain, "unparsable", "events")}
    \cup {dto \in {MakeDto([Plain EXCEPT ![f] = v], "fine", "events") :
                     f \in Fields, v \in Odd \cup {Null}} :
            dto \in Dto /\ Admitted(dto)}
    \cup {MakeDto(click, "fine", "redirect") : click \in Clicks}

\* The plain DTOs meet every middleware; the others meet the registry as it is
\* by default, empty.
MCInit ==
    /\ Init
    /\ \A r \in Runs :
          \/ run[r].dto \in PlainDtos /\ ~run[r].inherits
          \/ middlewares = 0 /\ changes = MaxChanges

MCSpec == MCInit /\ [][Next]_vars
================================================================================
