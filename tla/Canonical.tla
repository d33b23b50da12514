------------------------------- MODULE Canonical -------------------------------
(***************************************************************************)
(* What the pipeline makes of a DTO before it does anything with it: the   *)
(* edge's class-validator (CreateEventDto), or RedirectService, which      *)
(* makes a DTO of a click; toCanonical, the rules of the ValidationEngine  *)
(* and the built-in normalizers.  All are pure.                            *)
(*                                                                         *)
(* A value is abstracted to what these and Postgres tell apart: its type,  *)
(* a string's length and form, the digits of a number, whether a boolean   *)
(* is falsy, and whether it holds a NUL, which Postgres cannot store.  utm *)
(* stands for the campaign's parameters, clickId for gclid and fbclid (the *)
(* other nine fare alike, but are not stored with the event), sourceUrl    *)
(* for the texts no rule looks at as well (referrerUrl, eventName,         *)
(* externalId, currency); landingPage, browser and deviceType come out of  *)
(* the free object context.  A DTO is what ValidationPipe has transformed; *)
(* it also says where it came in (via), and whether its occurredAt is too  *)
(* old or too far ahead (stale), or an ISO 8601 date that Date cannot      *)
(* parse.                                                                  *)
(***************************************************************************)
EXTENDS Integers

\* A string is id-like (/^[\w-]+$/), a URL, a member of EventType, or neither.
\* len is a string's length, the digits of a number before its point once it is
\* rounded to cents (one at least, but none of 0), and 0 of false.  What is null
\* is as good as absent, but for metadata.
Absent == [type |-> "absent", len |-> 0, form |-> "none", nul |-> FALSE]
Text(n, form) == [type |-> "string", len |-> n, form |-> form, nul |-> FALSE]
Empty == Text(0, "other")
Json(type, n) == [type |-> type, len |-> n, form |-> "none", nul |-> FALSE]
Null == Json("null", 0)
WithNul(v, nul) == [v EXCEPT !.nul = nul]

Value ==
    {v \in [type : {"absent", "string", "number", "boolean", "object"},
            len  : Nat,
            form : {"none", "id", "url", "enum", "other"},
            nul  : BOOLEAN] :
        /\ v.type = "absent" => v = Absent
        /\ v.nul => v.type = "object" \/ (v.type = "string" /\ v.form \in {"url", "other"})}

Given(v) == v.type # "absent"
Truthy(v) == v.len > 0

Fields == {"visitorId", "eventId", "eventType", "utm", "clickId", "sourceUrl",
           "value", "landingPage", "browser", "deviceType", "metadata"}

Dto ==
    [visitorId : Value, eventId : Value, eventType : Value, utm : Value,
     clickId : Value, sourceUrl : Value, value : Value, landingPage : Value,
     browser : Value, deviceType : Value, metadata : Value \cup {Null},
     occurredAt : {"fine", "stale", "unparsable"}, via : {"events", "redirect"}]

-------------------------------------------------------------------------------
(* The edge                                                                 *)

StringUpTo(v, limit) == v.type = "string" /\ v.len <= limit
Optional(v, ok) == ~Given(v) \/ ok

\* class-validator lets the DTO in.  It does not look into context or metadata,
\* nor for a NUL, and takes any string for an eventType and any number for a value.
Admitted(dto) ==
    /\ StringUpTo(dto.visitorId, 200) /\ dto.visitorId.len >= 1
    /\ dto.eventType.type = "string"
    /\ Optional(dto.eventId, StringUpTo(dto.eventId, 200))
    /\ Optional(dto.sourceUrl, StringUpTo(dto.sourceUrl, 2048))
    /\ Optional(dto.utm, StringUpTo(dto.utm, 256))
    /\ Optional(dto.clickId, StringUpTo(dto.clickId, 512))
    /\ Optional(dto.value, dto.value.type = "number")
    /\ Optional(dto.metadata, dto.metadata.type \in {"object", "null"})

\* A parameter of a URL that is repeated arrives as an array, which nobody
\* expects of it.
Repeated == Json("object", 1)
Parameter(v) == ~Given(v) \/ v.type = "string" \/ v = Repeated

\* RedirectService makes its DTO of a click on /r/wa/:projectId/:campaignSlug
\* from the query's vid, utm_* and click ids: no class-validator looks at it.  The
\* slug is in its metadata.
Click(slug, query) ==
    [f \in Fields |->
        CASE f = "visitorId" -> IF Given(query.vid) THEN query.vid ELSE Text(36, "id")
          [] f = "eventType" -> Text(14, "enum")
          [] f = "utm"       -> IF Given(query.utm) THEN query.utm ELSE slug
          [] f = "clickId"   -> query.clickId
          [] f = "metadata"  -> WithNul(Json("object", 1), slug.nul)
          [] OTHER           -> Absent]

Clicked(dto) ==
    /\ dto.occurredAt = "fine"
    /\ Given(dto.visitorId) /\ Given(dto.utm)
    /\ \A f \in {"visitorId", "utm", "clickId"} : Parameter(dto[f])
    /\ \E nul \in BOOLEAN : \A f \in Fields :
          dto[f] = Click(WithNul(Text(1, "other"), nul),
                         [vid |-> dto.visitorId, utm |-> dto.utm, clickId |-> dto.clickId])[f]

-------------------------------------------------------------------------------
(* toCanonical and collectClickIds                                          *)

ToCanonical(dto) ==
    [dto EXCEPT
        !.eventId = IF Given(@) THEN @ ELSE Empty,
        !.clickId = IF Truthy(@) THEN @ ELSE Absent,
        !.landingPage = IF Given(@) THEN @ ELSE dto.sourceUrl]

-------------------------------------------------------------------------------
(* The rule factories and the rule sets.  Each says that its rule is        *)
(* violated.                                                                *)

Required(v) == ~Given(v) \/ v = Empty

NotUuidLike(v) ==
    /\ Given(v) /\ v # Empty
    /\ ~(v.type = "string" /\ v.form = "id" /\ v.len >= 8)

NotUrl(v) ==
    /\ Given(v) /\ v # Empty
    /\ ~(v.type = "string" /\ v.form = "url")

NotNumber(v) == Given(v) /\ v.type # "number"

\* Mutant of Exceeds: the limit itself is already too long.
Reaches(v, limit) == v.type = "string" /\ v.len >= limit

\* maxLen
Exceeds(v, limit) == v.type = "string" /\ v.len > limit

\* ValidationEngine.validate with the default rule sets: the fields it finds
\* fault with.
Violations(event) ==
    {f \in Fields :
        CASE f = "visitorId"   -> Required(event[f]) \/ NotUuidLike(event[f])
          [] f = "eventId"     -> NotUuidLike(event[f])
          [] f = "eventType"   -> Required(event[f])
          [] f = "utm"         -> Exceeds(event[f], 256)
          [] f = "landingPage" -> NotUrl(event[f])
          [] f = "clickId"     -> Given(event[f]) /\
                                     (event[f].type # "string" \/ Exceeds(event[f], 512))
          [] f = "value"       -> NotNumber(event[f])
          [] OTHER             -> FALSE}

-------------------------------------------------------------------------------
(* The normalizers.  Their helpers return a falsy value as it is and trim   *)
(* every other, which only a string can.                                    *)

Trims(v) == ~Truthy(v) \/ v.type = "string"

\* NormalizerPipeline.run gets through.  The geo normalizer runs too: the event
\* has no geo yet, which is Enrich's to resolve.
Normalizes(event) == \A f \in {"utm", "browser", "deviceType"} : Trims(event[f])
================================================================================
