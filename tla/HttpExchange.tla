---------------------------- MODULE HttpExchange ----------------------------
(***************************************************************************)
(* One HTTP request to a route registered with Handle, HandleRaw or        *)
(* HandleSSE: the handler wrappers of handler.go, the error matching, the  *)
(* event writer of sse.go, and at the other end of the connection the      *)
(* event stream reader of packages/shiftapi/src/sse.ts.                    *)
(*                                                                         *)
(* The response is what net/http holds: a header that can be changed until *)
(* a status is committed, and the body written so far.  Of the header we   *)
(* keep the Content-Type and which other names are set.  A body is a       *)
(* sequence of units, the pieces that the network may separate: a JSON     *)
(* document, raw bytes, and for an event its "event:" text, its "data:"    *)
(* text and each line end.                                                 *)
(***************************************************************************)
EXTENDS Naturals, Sequences, FiniteSets, FiniteSetsExt, SequencesExt

CONSTANTS
  Routes,     \* the registrations to serve: their kind, WithStatus, WithError
              \* in order, WithResponseHeader, and the response type's fields,
              \* each with a name, whether it is a header, and a pointer
  MaxCalls,   \* how many times user code may use the response
  Errors,     \* the errors user code may return, and those in them: each
              \* has a type and the errors it wraps or joins, in order
  Structs,    \* the error types that are structs, or pointers to one
  MaxDepth    \* bound: how deep errors are wrapped

ASSUME BoundsAssumption == MaxCalls \in Nat /\ MaxDepth \in Nat

VARIABLES
  route,    \* the registration of this route
  pc,       \* where the wrapper is: "parse", "user" or "done"
  header,   \* w.Header(): its Content-Type and the other names that are set
  resp,     \* what was committed: status, header and body (status 0: nothing)
  written,  \* writeTracker.written
  started,  \* SSEWriter.started
  calls,    \* how often user code used the response
  events,   \* the events that Send wrote, in order
  failure,  \* the error the handler returned, or nil
  bypassed, \* a raw handler flushed through Unwrap before it wrote anything
  up,       \* the connection is intact
  client,   \* the reader: "none", "fetching", "reading", "ended", "failed", "left"
  nread,    \* how many units of the body it has read
  buf,      \* its text buffer
  parts,    \* the parts of the last chunk it has still to yield
  yields,   \* the events it yielded
  closed    \* close() was called

writer == <<header, resp, written, started, calls, events>>
wrapper == <<pc, failure, bypassed>>
reader == <<client, nread, buf, parts, yields, closed>>
vars == <<route, up, writer, wrapper, reader>>

Piece(kind, text) == [u |-> kind, v |-> text, fields |-> {}]
NL == Piece("nl", "")
Json(schema) == Piece("json", schema)
Frame(k) == <<Piece("event", ToString(k)), NL, Piece("data", ToString(k)), NL, NL>>
Event(k) == [event |-> ToString(k), data |-> <<ToString(k)>>]

(* net/http: a write commits the header as it is, with status 200 unless   *)
(* WriteHeader came first; later statuses are ignored, later bodies added. *)
Commit(r, status, h) ==
  IF r.status = 0 THEN [r EXCEPT !.status = status, !.header = h] ELSE r
Write(r, h, units) == [Commit(r, 200, h) EXCEPT !.body = @ \o units]

----------------------------------------------------------------------------
(* Errors *)

nil == [typ |-> "nil", inner |-> <<>>]
InvalidInput == [typ |-> "ValidationError", inner |-> <<>>]
(* What the validator says of an input that it takes for a time.            *)
NotAStruct == [typ |-> "InvalidValidationError", inner |-> <<>>]

(* Errors are finite trees: none is in itself.  "Resp" is what we call the  *)
(* response of a route, and nothing else.                                   *)
ASSUME ErrorsAssumption ==
  /\ {InvalidInput, NotAStruct} \subseteq Errors
  /\ \A e \in Errors : e.inner \in Seq(Errors) /\ e.typ \notin {nil.typ, "Resp"}
  /\ \E depth \in [Errors -> 0..MaxDepth] :
       \A e \in Errors : \A i \in DOMAIN e.inner : depth[e.inner[i]] < depth[e]

(* Only a route of Handle has a response type; net/http panics on statuses *)
(* that are no numbers of three digits, and 1xx begin no response.         *)
ASSUME RoutesAssumption ==
  \A r \in Routes :
    /\ r.kind \in {"json", "raw", "sse"} /\ (r.kind # "json" => r.out = {})
    /\ r.status \in 200..999
    /\ r.errors \in Seq(Range(r.errors))
    /\ \A e \in Range(r.errors) : e.status \in 200..999 /\ e.typ \notin {nil.typ, "Resp"}

(* The fields of the response that are tagged as headers. *)
HeaderFields(r) == {f \in r.out : f.header}

(* 204 and 304 forbid a body. *)
isNoBodyStatus(status) == status \in {204, 304}

(* The status of each registered type: a later entry replaces an earlier. *)
buildErrorLookup(entries) ==
  [t \in {entries[i].typ : i \in DOMAIN entries} |->
     entries[Max({i \in DOMAIN entries : entries[i].typ = t})].status]

(* The first error in err, outermost first, whose type is among types; a    *)
(* wrapped error is one inner error, a joined one several.                  *)
matchError_Chain(err, types) ==
  LET match[e \in Errors] ==
        IF e.typ \in types THEN e.typ
        ELSE IF Len(e.inner) = 1 THEN match[e.inner[1]] ELSE nil.typ
  IN  match[err]

matchError(err, types) ==
  LET match[e \in Errors] ==
        LET found == {i \in DOMAIN e.inner : match[e.inner[i]] # nil.typ}
        IN  IF e.typ \in types THEN e.typ
            ELSE IF found # {} THEN match[e.inner[Min(found)]] ELSE nil.typ
  IN  match[err]

(* The status and the body for an error: a validation error anywhere in it, *)
(* else the first registered type, else the default.                        *)
resolveError(err, lookup) ==
  LET typ == matchError(err, DOMAIN lookup)
  IN  IF matchError(err, {"ValidationError"}) # nil.typ
      THEN [status |-> 422, schema |-> "ValidationError"]
      ELSE IF typ # nil.typ THEN [status |-> lookup[typ], schema |-> typ]
      ELSE [status |-> 500, schema |-> "InternalServerError"]

BuiltIn == [s \in {400, 422, 500} |->
              CASE s = 400 -> "BadRequestError"
                [] s = 422 -> "ValidationError"
                [] s = 500 -> "InternalServerError"]

(* The error responses of the document: a schema for each status.  Only a   *)
(* struct has a named schema, and another type gets no response.            *)
documentedErrors(r) ==
  LET named == {i \in DOMAIN r.errors : r.errors[i].typ \in Structs}
      Declared(s) == {i \in named : r.errors[i].status = s}
  IN  [s \in DOMAIN BuiltIn \cup {r.errors[i].status : i \in named} |->
         IF Declared(s) # {} THEN r.errors[Max(Declared(s))].typ ELSE BuiltIn[s]]

(* Header fields by name, and whether each is required. *)
generateRespHeaders(r) ==
  [n \in {f.name : f \in HeaderFields(r)} |->
     \E f \in HeaderFields(r) : f.name = n /\ ~f.pointer]
stripRespHeaderFields(r) == r.out \ HeaderFields(r)

(* The success response of the document: its headers, a static one taking  *)
(* the place of a field's, and the fields of its body.                     *)
documentedHeaders(r) ==
  LET fields == generateRespHeaders(r)
  IN  [n \in r.static \cup DOMAIN fields |-> n \in r.static \/ fields[n]]
documentedFields(r) ==
  IF isNoBodyStatus(r.status) THEN {} ELSE stripRespHeaderFields(r)

----------------------------------------------------------------------------
(* The wrappers *)

(* registerRoute panics on a body for a status without one. *)
Registrable(r) == isNoBodyStatus(r.status) => \A f \in r.out : f.header

Init ==
  /\ route \in {r \in Routes : Registrable(r)}
  /\ pc = "parse"
  /\ header = [type |-> "", names |-> {}]
  /\ resp = [status |-> 0, header |-> header, body |-> <<>>]
  /\ written = FALSE /\ started = FALSE
  /\ calls = 0 /\ events = <<>>
  /\ failure = nil /\ bypassed = FALSE
  /\ up = TRUE
  /\ client = IF route.kind = "sse" THEN "fetching" ELSE "none"
  /\ nread = 0 /\ buf = <<>> /\ parts = <<>> /\ yields = <<>>
  /\ closed = FALSE

(* writeJSON: units is empty when the value cannot be encoded. *)
writeJSON(status, h, units) ==
  /\ header' = [h EXCEPT !.type = "json"]
  /\ resp' = Write(Commit(resp, status, header'), header', units)

handleError(err) ==
  LET e == resolveError(err, buildErrorLookup(route.errors))
  IN  writeJSON(e.status, header, <<Json(e.schema)>>)

(* parseInput fails: malformed input, or what validation returned, which is *)
(* not always a ValidationError.                                            *)
RejectInput ==
  /\ pc = "parse"
  /\ pc' = "done"
  /\ \/ writeJSON(400, header, <<Json("BadRequestError")>>)
     \/ \E err \in {InvalidInput, NotAStruct} : handleError(err)
  /\ UNCHANGED <<route, up, written, started, calls, events, failure, bypassed, reader>>

(* Raw handlers and streams get their static headers before they run. *)
AcceptInput ==
  /\ pc = "parse"
  /\ pc' = "user"
  /\ header' = IF route.kind = "json" THEN header
               ELSE [header EXCEPT !.names = @ \cup route.static]
  /\ UNCHANGED <<route, up, resp, written, started, calls, events, failure, bypassed, reader>>

(* writeResponseHeaders: the fields that are not nil pointers. *)
writeResponseHeaders(h, set) ==
  [h EXCEPT !.names = @ \cup {f.name : f \in HeaderFields(route) \cap set}]

(* A bug: the response is encoded with the fields that became headers. *)
encode_Whole(r) == [Json("Resp") EXCEPT !.fields = r.out]

(* respEncoder: a struct without the header fields is encoded. *)
encode(r) == [Json("Resp") EXCEPT !.fields = r.out \ HeaderFields(r)]

(* adapt: the handler returned a response, in which the fields of set are  *)
(* not nil.  Nothing is written if it cannot be encoded.                   *)
HandlerSucceeds ==
  /\ pc = "user" /\ route.kind = "json"
  /\ pc' = "done"
  /\ \E set \in SUBSET route.out :
       LET static == [header EXCEPT !.names = @ \cup route.static]
           h == writeResponseHeaders(static, set)
       IN  /\ \A f \in route.out : ~f.pointer => f \in set
           /\ IF isNoBodyStatus(route.status)
              THEN resp' = Commit(resp, route.status, h) /\ header' = h
              ELSE \E units \in {<<>>, <<encode(route)>>} : writeJSON(route.status, h, units)
  /\ UNCHANGED <<route, up, written, started, calls, events, failure, bypassed, reader>>

(* adaptRaw, adaptSSE: the handler returned nil; net/http completes it. *)
StreamEnds ==
  /\ pc = "user" /\ route.kind # "json"
  /\ pc' = "done"
  /\ resp' = Commit(resp, 200, header)
  /\ UNCHANGED <<route, up, header, written, started, calls, events, failure, bypassed, reader>>

(* A bug: the error is dropped once the SSE header was prepared. *)
HandlerFails_Started ==
  /\ pc = "user"
  /\ pc' = "done"
  /\ \E err \in Errors :
       /\ failure' = err
       /\ IF written \/ started
          THEN resp' = Commit(resp, 200, header) /\ UNCHANGED header
          ELSE handleError(err)
  /\ UNCHANGED <<route, up, written, started, calls, events, bypassed, reader>>

(* The handler returned an error: it is written, or only logged once the   *)
(* response has begun.                                                     *)
HandlerFails ==
  /\ pc = "user"
  /\ pc' = "done"
  /\ \E err \in Errors :
       /\ failure' = err
       /\ IF written THEN UNCHANGED <<header, resp>> ELSE handleError(err)
  /\ UNCHANGED <<route, up, written, started, calls, events, bypassed, reader>>

----------------------------------------------------------------------------
(* User code of a raw handler.  It answers 206, which no wrapper does. *)

Uses(kind) ==
  /\ pc = "user" /\ route.kind = kind
  /\ calls < MaxCalls
  /\ calls' = calls + 1

RawWriteHeader ==
  /\ Uses("raw")
  /\ written' = TRUE
  /\ resp' = Commit(resp, 206, header)
  /\ UNCHANGED <<route, up, header, started, events, wrapper, reader>>

RawWrite ==
  /\ Uses("raw")
  /\ written' = TRUE
  /\ resp' = Write(resp, header, <<Piece("raw", "")>>)
  /\ UNCHANGED <<route, up, header, started, events, wrapper, reader>>

(* A ResponseController unwraps the tracker; net/http's Flush commits. *)
RawFlush ==
  /\ Uses("raw")
  /\ bypassed' = (bypassed \/ ~written)
  /\ resp' = Commit(resp, 200, header)
  /\ UNCHANGED <<route, up, header, written, started, events, pc, failure, reader>>

----------------------------------------------------------------------------
(* User code of an event stream: Send, by the point where it returns.  The *)
(* handler may return the error, return another, or go on.                 *)

SendUnregistered ==
  /\ Uses("sse")
  /\ UNCHANGED <<route, up, header, resp, written, started, events, wrapper, reader>>

StreamHeaders == {"Cache-Control", "Connection"}

writeHeaders ==
  /\ started' = TRUE
  /\ header' = IF started THEN header
               ELSE [type |-> "event-stream", names |-> header.names \cup StreamHeaders]

SendCannotMarshal ==
  /\ Uses("sse")
  /\ writeHeaders
  /\ UNCHANGED <<route, up, resp, written, events, wrapper, reader>>

(* A bug: the header is prepared after the event was written. *)
SendEvent_HeadersLate ==
  /\ Uses("sse") /\ up
  /\ writeHeaders
  /\ written' = TRUE
  /\ resp' = Write(resp, header, Frame(calls + 1))
  /\ events' = Append(events, Event(calls + 1))
  /\ UNCHANGED <<route, up, wrapper, reader>>

(* A bug: the empty line that ends an event is left out. *)
SendEvent_Unterminated ==
  /\ Uses("sse") /\ up
  /\ writeHeaders
  /\ written' = TRUE
  /\ resp' = Write(resp, header', Front(Frame(calls + 1)))
  /\ events' = Append(events, Event(calls + 1))
  /\ UNCHANGED <<route, up, wrapper, reader>>

SendEvent ==
  /\ Uses("sse") /\ up
  /\ writeHeaders
  /\ written' = TRUE
  /\ resp' = Write(resp, header', Frame(calls + 1))
  /\ events' = Append(events, Event(calls + 1))
  /\ UNCHANGED <<route, up, wrapper, reader>>

(* The write or the flush fails. *)
SendBreaks ==
  /\ Uses("sse") /\ ~up
  /\ writeHeaders
  /\ written' = TRUE
  /\ resp' = Commit(resp, 200, header')
  /\ UNCHANGED <<route, up, events, wrapper, reader>>

Disconnect ==
  /\ up
  /\ up' = FALSE
  /\ UNCHANGED <<route, writer, wrapper, reader>>

----------------------------------------------------------------------------
(* The stream reader: fetch, read, split, yield. *)

(* The numbers in S, in order. *)
Ordered(S) ==
  [j \in 1..Cardinality(S) |-> CHOOSE i \in S : Cardinality({x \in S : x <= i}) = j]

(* The text before each empty line, and what follows the last one. *)
Blanks(text) ==
  Ordered({i \in 1..(Len(text) - 1) : text[i] = NL /\ text[i + 1] = NL})
PartsOf(text) ==
  LET ends == Blanks(text)
  IN  [j \in DOMAIN ends |->
         SubSeq(text, IF j = 1 THEN 1 ELSE ends[j - 1] + 2, ends[j] - 1)]
RestOf(text) ==
  LET ends == Blanks(text)
  IN  IF ends = <<>> THEN text ELSE SubSeq(text, Last(ends) + 2, Len(text))

(* The event of a part: its first event line, and its data lines joined;   *)
(* nothing without data.                                                   *)
LinesOf(part, kind) ==
  LET lines == Ordered({i \in DOMAIN part : part[i].u = kind})
  IN  [j \in DOMAIN lines |-> part[lines[j]].v]
EventOf(part) ==
  LET names == LinesOf(part, "event")
      data  == LinesOf(part, "data")
  IN  IF data = <<>> THEN <<>>
      ELSE <<[event |-> IF names = <<>> THEN "" ELSE Head(names), data |-> data]>>

FetchResolves ==
  /\ client = "fetching" /\ resp.status # 0 /\ ~closed
  /\ client' = IF resp.status \in 200..299 THEN "reading" ELSE "failed"
  /\ UNCHANGED <<route, up, writer, wrapper, nread, buf, parts, yields, closed>>

(* A bug: what follows the last empty line is handled as a part, too. *)
ReadChunk_YieldsRest ==
  /\ client = "reading" /\ parts = <<>> /\ ~closed
  /\ \E n \in (nread + 1)..Len(resp.body) :
       LET text == buf \o SubSeq(resp.body, nread + 1, n)
       IN  nread' = n /\ buf' = RestOf(text) /\ parts' = Append(PartsOf(text), RestOf(text))
  /\ UNCHANGED <<route, up, writer, wrapper, client, yields, closed>>

(* A chunk is any number of units. *)
ReadChunk ==
  /\ client = "reading" /\ parts = <<>> /\ ~closed
  /\ \E n \in (nread + 1)..Len(resp.body) :
       LET text == buf \o SubSeq(resp.body, nread + 1, n)
       IN  nread' = n /\ buf' = RestOf(text) /\ parts' = PartsOf(text)
  /\ UNCHANGED <<route, up, writer, wrapper, client, yields, closed>>

(* The rest of a chunk is yielded even after close(). *)
Yield ==
  /\ client = "reading" /\ parts # <<>>
  /\ yields' = yields \o EventOf(Head(parts))
  /\ parts' = Tail(parts)
  /\ UNCHANGED <<route, up, writer, wrapper, client, nread, buf, closed>>

(* done: a part without an empty line is dropped. *)
ReadDone ==
  /\ client = "reading" /\ parts = <<>>
  /\ pc = "done" /\ nread = Len(resp.body)
  /\ client' = "ended"
  /\ UNCHANGED <<route, up, writer, wrapper, nread, buf, parts, yields, closed>>

(* The fetch or the read rejects. *)
ReadRejects ==
  /\ client \in {"fetching", "reading"} /\ parts = <<>>
  /\ closed \/ ~up
  /\ client' = "failed"
  /\ UNCHANGED <<route, up, writer, wrapper, nread, buf, parts, yields, closed>>

(* The consumer breaks out of its loop: the lock is released, no more. *)
Leave ==
  /\ client = "reading" /\ yields # <<>>
  /\ client' = "left"
  /\ UNCHANGED <<route, up, writer, wrapper, nread, buf, parts, yields, closed>>

Close ==
  /\ client \in {"fetching", "reading"} /\ ~closed
  /\ closed' = TRUE
  /\ UNCHANGED <<route, up, writer, wrapper, client, nread, buf, parts, yields>>

----------------------------------------------------------------------------
Server ==
  \/ RejectInput \/ AcceptInput
  \/ HandlerSucceeds \/ HandlerFails \/ StreamEnds
  \/ RawWriteHeader \/ RawWrite \/ RawFlush
  \/ SendUnregistered \/ SendCannotMarshal \/ SendEvent \/ SendBreaks

Reader == FetchResolves \/ ReadChunk \/ Yield \/ ReadDone \/ ReadRejects

Next == Server \/ Reader \/ Leave \/ Close \/ Disconnect

(* The reader runs, and so does its consumer; nothing obliges the handler. *)
FairSpec == Init /\ [][Next]_vars /\ WF_vars(Reader)

----------------------------------------------------------------------------
Wrote(kind) == \E i \in DOMAIN resp.body : resp.body[i].u = kind

(* A response is one thing: a JSON document alone, labelled as JSON, or    *)
(* what user code streamed, events being labelled as an event stream with  *)
(* status 200.  (Left out: raw handlers that flush before they write.)     *)
OneResponse ==
  ~bypassed =>
    /\ Wrote("json") => Len(resp.body) = 1 /\ resp.header.type = "json"
    /\ Wrote("event") => resp.header.type = "event-stream" /\ resp.status = 200

(* The errors in an error, by the path of indices that leads to each.       *)
At(err, path) ==
  LET walk[n \in 0..Len(path)] ==
        IF n = 0 THEN err
        ELSE IF path[n] \in DOMAIN walk[n - 1].inner
             THEN walk[n - 1].inner[path[n]] ELSE nil
  IN  walk[Len(path)]
Paths == BoundedSeq(UNION {DOMAIN e.inner : e \in Errors}, MaxDepth)
Before(p, q) ==
  \E n \in 0..Len(p) :
    /\ n <= Len(q) /\ \A i \in 1..n : p[i] = q[i]
    /\ n < Len(q) /\ (n < Len(p) => p[n + 1] < q[n + 1])

(* A response reports an error if it shows the validation error in it, else *)
(* the first error of a type declared for this route, with the status that  *)
(* was declared last for the type, else that the server failed.             *)
Reports(r, err) ==
  LET Typ(p) == At(err, p).typ
      known == {route.errors[i].typ : i \in DOMAIN route.errors}
      hits == {p \in Paths : Typ(p) \in known}
      Shows(status, schema) == r.status = status /\ r.body = <<Json(schema)>>
  IN  IF \E p \in Paths : Typ(p) = "ValidationError" THEN Shows(422, "ValidationError")
      ELSE IF hits = {} THEN Shows(500, "InternalServerError")
      ELSE \E p \in hits, i \in DOMAIN route.errors :
             /\ \A q \in hits : ~Before(q, p)
             /\ route.errors[i].typ = Typ(p)
             /\ \A j \in DOMAIN route.errors : route.errors[j].typ = Typ(p) => j <= i
             /\ Shows(route.errors[i].status, Typ(p))

(* If the handler fails before anything reached the client, the client     *)
(* gets the response for that error, whatever Send had prepared; if it     *)
(* fails later, no error is written into the stream (HandleRaw, HandleSSE).*)
ErrorsReported ==
  (pc = "done" /\ failure # nil /\ up /\ ~bypassed) =>
    \/ Reports(resp, failure)
    \/ (Wrote("event") \/ Wrote("raw")) /\ ~Wrote("json")
    \/ resp.status = 206 /\ resp.body = <<>>

SharedStatus(s) ==
  LET named == {i \in DOMAIN route.errors :
                  route.errors[i].typ \in Structs /\ route.errors[i].status = s}
  IN  \/ s \in DOMAIN BuiltIn /\ named # {}
      \/ \E i, j \in named : route.errors[i].typ # route.errors[j].typ

(* The body is that of an error. *)
Refuses == \E i \in DOMAIN resp.body : resp.body[i].u = "json" /\ resp.body[i].v # "Resp"

(* Every response the wrappers give is one that the OpenAPI document       *)
(* describes, with two exceptions that it does not know: the headers        *)
(* Cache-Control and Connection of a stream, and the responses of declared  *)
(* error types that are no structs.  Otherwise a success carries all        *)
(* required headers and no others, and the documented fields; an error has  *)
(* a documented status, and its body is of that status's schema unless      *)
(* several struct types share it.                                           *)
ResponsesDocumented ==
  /\ (pc = "done" /\ ~Refuses) =>
       LET doc == documentedHeaders(route)
           own == IF started THEN StreamHeaders ELSE {}
       IN  /\ {n \in DOMAIN doc : doc[n]} \subseteq resp.header.names
           /\ resp.header.names \subseteq DOMAIN doc \cup own
           /\ Wrote("json") => resp.body[1].fields = documentedFields(route)
  /\ (Refuses /\ ~bypassed) =>
       LET doc == documentedErrors(route)
           schema == resp.body[1].v
       IN  \/ /\ resp.status \in DOMAIN doc
              /\ SharedStatus(resp.status) \/ doc[resp.status] = schema
           \/ \E i \in DOMAIN route.errors :
                 route.errors[i].typ = schema /\ schema \notin Structs

(* Whatever the chunks, the reader yields the events that were sent, each  *)
(* once and in order.                                                      *)
YieldsFollowSends == IsPrefix(yields, events)

(* Every event that was written is yielded, unless the connection breaks   *)
(* or the consumer leaves.                                                 *)
EventsArrive ==
  \A k \in 1..MaxCalls :
    (Len(events) >= k) ~> (Len(yields) >= k \/ ~up \/ closed \/ client = "left")
=============================================================================
