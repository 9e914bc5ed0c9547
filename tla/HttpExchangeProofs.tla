------------------------- MODULE HttpExchangeProofs -------------------------
(***************************************************************************)
(* What an HTTP request is answered, for every registration, every finite  *)
(* tree of errors and every number of calls of user code.                  *)
(*                                                                         *)
(* OneResponse: a wrapper writes an error only into an untouched response. *)
(* ErrorsReported and ResponsesDocumented: the recursive search of         *)
(* matchError is compared with the paths through an error, by the depth of *)
(* the error, and what user code left decides the answer (AnswerInv).      *)
(* YieldsFollowSends: the reader has some whole events behind it and less  *)
(* than one in its buffer, however the body is cut (YieldInv).             *)
(***************************************************************************)
EXTENDS HttpExchange, FiniteSetTheorems, WellFoundedInduction, TLAPS

-----------------------------------------------------------------------------
(* One response. *)

(* What a body consists of. *)
Schemas(r) == {"BadRequestError", "ValidationError", "InternalServerError"}
                 \cup {matchError(e, DOMAIN buildErrorLookup(r.errors)) : e \in Errors}
Events == {Piece("event", ToString(k)) : k \in Nat}
Other  == {NL, Piece("raw", "")} \cup {Piece("data", ToString(k)) : k \in Nat}
Jsons(r) == {Json(s) : s \in Schemas(r)} \cup {encode(r)}
Units(r) == Events \cup Other \cup Jsons(r)

Has(body, kind) == \E i \in DOMAIN body : body[i].u = kind

(* The response and its header are records, whatever was assigned to them.  *)
Response(r, body) == r = [status |-> r.status, header |-> r.header, body |-> body]
Shapes ==
    /\ Response(resp, resp.body) /\ resp.body \in Seq(Units(route))
    /\ header = [type |-> header.type, names |-> header.names]
    /\ calls \in Nat

(* Until user code or a wrapper wrote, nothing is committed; only the       *)
(* wrapper of a finished handler writes JSON.                               *)
Untouched == resp.status = 0 /\ resp.body = <<>>
BeforeEnd ==
    /\ pc = "parse" => ~written /\ ~bypassed /\ ~started
    /\ pc # "done" => /\ ~written /\ ~bypassed => Untouched
                      /\ ~Has(resp.body, "json")
    /\ route.kind = "json" => pc = "done" \/ (~written /\ ~bypassed)

(* A stream commits the label of a stream before its first event.           *)
Streams ==
    /\ Has(resp.body, "event") => route.kind = "sse"
    /\ route.kind = "sse" =>
          /\ ~bypassed
          /\ written => resp.status = 200 /\ resp.header.type = "event-stream"
          /\ Has(resp.body, "event") => written
          /\ pc # "done" /\ started => header.type = "event-stream"

Finished ==
    ~bypassed /\ Has(resp.body, "json") => Len(resp.body) = 1 /\ resp.header.type = "json"

RespInv == Shapes /\ BeforeEnd /\ Streams /\ Finished

(* The first write decides status and header, later ones add to the body.   *)
LEMMA CommitFacts ==
    ASSUME NEW r, NEW b, Response(r, b), NEW status, NEW h
    PROVE  /\ Response(Commit(r, status, h), b) /\ Commit(r, status, h).body = b
           /\ Commit(r, status, h).status = IF r.status = 0 THEN status ELSE r.status
           /\ Commit(r, status, h).header = IF r.status = 0 THEN h ELSE r.header
<1>1. CASE r.status = 0
  <2> DEFINE s == r.status
             g == r.header
  <2>1. r = [status |-> s, header |-> g, body |-> b]
    BY DEF Response
  <2> HIDE DEF s, g
  <2> DEFINE t == [r EXCEPT !.status = status]
  <2>2. t = [status |-> status, header |-> g, body |-> b]
    BY <2>1
  <2>3. [r EXCEPT !.status = status, !.header = h] = [t EXCEPT !.header = h]
    OBVIOUS
  <2> HIDE DEF t
  <2>4. [r EXCEPT !.status = status, !.header = h] = [status |-> status, header |-> h, body |-> b]
    BY <2>2, <2>3
  <2>5. Commit(r, status, h) = [status |-> status, header |-> h, body |-> b]
    BY <1>1, <2>4 DEF Commit
  <2> QED BY <1>1, <2>5 DEF Response
<1>2. CASE r.status # 0
  <2>1. Commit(r, status, h) = r /\ r.body = b
    BY <1>2 DEF Commit, Response
  <2> QED BY <1>2, <2>1
<1> QED BY <1>1, <1>2

(* A write commits, and adds its text.                                      *)
LEMMA WriteFacts ==
    ASSUME NEW r, NEW b, Response(r, b), NEW h, NEW units
    PROVE  /\ Response(Write(r, h, units), b \o units) /\ Write(r, h, units).body = b \o units
           /\ Write(r, h, units).status = IF r.status = 0 THEN 200 ELSE r.status
           /\ Write(r, h, units).header = IF r.status = 0 THEN h ELSE r.header
<1> DEFINE c == Commit(r, 200, h)
<1>1. /\ Response(c, b) /\ c.body = b
      /\ c.status = IF r.status = 0 THEN 200 ELSE r.status
      /\ c.header = IF r.status = 0 THEN h ELSE r.header
  BY CommitFacts
<1>2. Write(r, h, units) = [c EXCEPT !.body = @ \o units]
  BY DEF Write
<1> HIDE DEF c
<1>3. Write(r, h, units) = [status |-> c.status, header |-> c.header, body |-> b \o units]
  BY <1>1, <1>2 DEF Response
<1> QED BY <1>1, <1>3 DEF Response

(* The pieces of two texts.                                                 *)
LEMMA HasBoth ==
    ASSUME NEW S, NEW b \in Seq(S), NEW c \in Seq(S), NEW kind
    PROVE  /\ b \o c \in Seq(S)
           /\ Has(b \o c, kind) <=> Has(b, kind) \/ Has(c, kind)
<1>1. b \o c \in Seq(S) /\ Len(b) \in Nat /\ Len(c) \in Nat /\ Len(b \o c) = Len(b) + Len(c)
  OBVIOUS
<1>2. ASSUME Has(b \o c, kind) PROVE Has(b, kind) \/ Has(c, kind)
  <2>1. PICK i \in DOMAIN (b \o c) : (b \o c)[i].u = kind
    BY <1>2 DEF Has
  <2>2. CASE i <= Len(b)
    <3>1. i \in DOMAIN b /\ (b \o c)[i] = b[i]
      BY <1>1, <2>2
    <3> QED BY <2>1, <3>1 DEF Has
  <2>3. CASE i > Len(b)
    <3>1. i - Len(b) \in DOMAIN c /\ (b \o c)[i] = c[i - Len(b)]
      BY <1>1, <2>3
    <3> QED BY <2>1, <3>1 DEF Has
  <2> QED BY <1>1, <2>2, <2>3
<1>3. ASSUME Has(b, kind) PROVE Has(b \o c, kind)
  <2>1. PICK i \in DOMAIN b : b[i].u = kind
    BY <1>3 DEF Has
  <2>2. i \in DOMAIN (b \o c) /\ (b \o c)[i] = b[i]
    BY <1>1
  <2> QED BY <2>1, <2>2 DEF Has
<1>4. ASSUME Has(c, kind) PROVE Has(b \o c, kind)
  <2>1. PICK i \in DOMAIN c : c[i].u = kind
    BY <1>4 DEF Has
  <2>2. Len(b) + i \in DOMAIN (b \o c) /\ (b \o c)[Len(b) + i] = c[i]
    BY <1>1
  <2> QED BY <2>1, <2>2 DEF Has
<1> QED BY <1>1, <1>2, <1>3, <1>4

(* The texts the wrappers and user code write.                              *)
LEMMA TextFacts ==
    ASSUME NEW r
    PROVE  /\ \A x \in Jsons(r) : <<x>> \in Seq(Units(r)) /\ Len(<<x>>) = 1
                                  /\ ~Has(<<x>>, "event")
           /\ <<Piece("raw", "")>> \in Seq(Units(r))
           /\ ~Has(<<Piece("raw", "")>>, "event") /\ ~Has(<<Piece("raw", "")>>, "json")
           /\ \A k \in Nat : Frame(k) \in Seq(Units(r)) /\ ~Has(Frame(k), "json")
<1>1. ASSUME NEW x \in Jsons(r)
      PROVE  x \in Units(r) /\ x.u = "json"
  BY DEF Units, Jsons, Json, Piece, encode
<1>2. ASSUME NEW x \in Jsons(r)
      PROVE  <<x>> \in Seq(Units(r)) /\ Len(<<x>>) = 1 /\ ~Has(<<x>>, "event")
  BY <1>1 DEF Has
<1>3. Piece("raw", "") \in Units(r) /\ Piece("raw", "").u = "raw"
  BY DEF Units, Other, Piece
<1>4. ASSUME NEW k \in Nat
      PROVE  Frame(k) \in Seq(Units(r)) /\ ~Has(Frame(k), "json")
  <2>1. Piece("event", ToString(k)) \in Units(r) /\ Piece("event", ToString(k)).u = "event"
    BY DEF Units, Events, Piece
  <2>2. Piece("data", ToString(k)) \in Units(r) /\ Piece("data", ToString(k)).u = "data"
    BY DEF Units, Other, Piece
  <2>3. NL \in Units(r) /\ NL.u = "nl"
    BY DEF Units, Other, NL, Piece
  <2> QED BY <2>1, <2>2, <2>3 DEF Frame, Has
<1>5. /\ <<Piece("raw", "")>> \in Seq(Units(r))
      /\ ~Has(<<Piece("raw", "")>>, "event") /\ ~Has(<<Piece("raw", "")>>, "json")
  <2> DEFINE x == Piece("raw", "")
  <2>1. x \in Units(r) /\ x.u = "raw"
    BY <1>3
  <2> HIDE DEF x
  <2>2. <<x>> \in Seq(Units(r)) /\ ~Has(<<x>>, "event") /\ ~Has(<<x>>, "json")
    BY <2>1 DEF Has
  <2> QED BY <2>2 DEF x
<1> QED BY <1>2, <1>4, <1>5
(* Nothing is written before the request is parsed.                         *)
LEMMA InitRespInv == Init => RespInv
<1> SUFFICES ASSUME Init PROVE RespInv
  OBVIOUS
<1>1. Response(resp, resp.body) /\ resp.body = <<>> /\ resp.status = 0
  BY DEF Init, Response
<1>2. Shapes
  <2>1. resp.body \in Seq(Units(route)) /\ calls \in Nat
    <3>1. calls = 0
      BY DEF Init
    <3>2. <<>> \in Seq(Units(route))
      OBVIOUS
    <3> QED BY <1>1, <3>1, <3>2
  <2>2. header = [type |-> "", names |-> {}]
    BY DEF Init
  <2>3. header = [type |-> header.type, names |-> header.names]
    BY <2>2
  <2> QED BY <1>1, <2>1, <2>3 DEF Shapes
<1>3. ~Has(resp.body, "json") /\ ~Has(resp.body, "event")
  BY <1>1 DEF Has
<1> QED BY <1>1, <1>2, <1>3 DEF RespInv, BeforeEnd, Streams, Finished, Untouched, Init

(* The schema of an error is one that a body may show.                      *)
LEMMA ErrorSchema ==
    ASSUME NEW err \in Errors
    PROVE  Json(resolveError(err, buildErrorLookup(route.errors)).schema) \in Jsons(route)
BY DEF resolveError, Jsons, Schemas

(* Handling an error writes one JSON document.                              *)
LEMMA ErrorWritten ==
    ASSUME NEW err \in Errors, handleError(err)
    PROVE  \E status, x : x \in Jsons(route) /\ writeJSON(status, header, <<x>>)
<1> DEFINE e == resolveError(err, buildErrorLookup(route.errors))
<1>1. Json(e.schema) \in Jsons(route)
  BY ErrorSchema
<1>2. writeJSON(e.status, header, <<Json(e.schema)>>)
  BY DEF handleError
<1> QED BY <1>1, <1>2

(* A wrapper that writes JSON into an untouched response is done with it.   *)
LEMMA JsonWritten ==
    ASSUME RespInv, NEW status, NEW h, h = [type |-> h.type, names |-> h.names],
           NEW units, units = <<>> \/ \E x \in Jsons(route) : units = <<x>>,
           writeJSON(status, h, units),
           ~bypassed => resp.status = 0 /\ resp.body = <<>> /\ ~written,
           pc' = "done", UNCHANGED <<route, written, bypassed, started, calls>>
    PROVE  RespInv'
<1> DEFINE b  == resp.body
           h2 == [h EXCEPT !.type = "json"]
           c  == Commit(resp, status, h2)
<1>1. b \in Seq(Units(route)) /\ Response(resp, b)
  BY DEF RespInv, Shapes
<1>2. /\ units \in Seq(Units(route)) /\ ~Has(units, "event")
      /\ units = <<>> \/ Len(units) = 1
  <2>1. CASE units = <<>>
    BY <2>1 DEF Has
  <2>2. CASE units # <<>>
    BY <2>2, TextFacts
  <2> QED BY <2>1, <2>2
<1>3. h2 = [type |-> "json", names |-> h.names]
  <2> DEFINE t == h.type
             n == h.names
  <2>1. h = [type |-> t, names |-> n]
    OBVIOUS
  <2> HIDE DEF t, n
  <2>2. [h EXCEPT !.type = "json"] = [type |-> "json", names |-> n]
    BY <2>1
  <2> QED BY <2>2 DEF n
<1>4. header' = h2 /\ resp' = Write(c, h2, units)
  BY DEF writeJSON
<1> HIDE DEF h2
<1>5. /\ Response(c, b) /\ c.status = IF resp.status = 0 THEN status ELSE resp.status
      /\ c.header = IF resp.status = 0 THEN h2 ELSE resp.header
  BY <1>1, CommitFacts
<1> HIDE DEF b, c
<1>6. /\ Response(resp', b \o units) /\ resp'.body = b \o units
      /\ resp'.header = IF c.status = 0 THEN h2 ELSE c.header
  BY <1>4, <1>5, WriteFacts
<1>7. b \o units \in Seq(Units(route)) /\ (Has(b \o units, "event") <=> Has(b, "event"))
  BY <1>1, <1>2, HasBoth
<1>8. Shapes'
  BY <1>3, <1>4, <1>6, <1>7 DEF RespInv, Shapes
<1>9. BeforeEnd'
  BY DEF BeforeEnd
<1>10. Streams'
  BY <1>6, <1>7 DEF RespInv, Streams, b
<1>11. Finished'
  <2> SUFFICES ASSUME ~bypassed, Has(resp'.body, "json")
               PROVE  Len(resp'.body) = 1 /\ resp'.header.type = "json"
    BY DEF Finished
  <2>1. resp'.header = h2 /\ b = <<>>
    BY <1>5, <1>6 DEF b
  <2>2. resp'.body = units
    BY <1>2, <1>6, <2>1
  <2>3. units # <<>>
    BY <2>2 DEF Has
  <2> QED BY <1>2, <1>3, <2>1, <2>2, <2>3
<1> QED BY <1>8, <1>9, <1>10, <1>11 DEF RespInv

(* A wrapper or user code that touches neither what was written nor what    *)
(* decides who may write.                                                   *)
LEMMA ResponseKept ==
    ASSUME RespInv,
           UNCHANGED <<route, resp, written, bypassed>>, calls' \in Nat,
           header' = [type |-> header'.type, names |-> header'.names],
           \/ UNCHANGED <<pc, header, started>>
           \/ pc = "parse" /\ pc' = "user" /\ ~started'
           \/ pc = "user" /\ pc' = "user" /\ route.kind = "sse" /\ header'.type = "event-stream"
           \/ pc' = "done"
    PROVE  RespInv'
<1>1. Shapes' /\ Finished'
  BY DEF RespInv, Shapes, Finished
<1>2. BeforeEnd'
  BY DEF RespInv, BeforeEnd, Untouched
<1>3. Streams'
  BY DEF RespInv, Streams, BeforeEnd
<1> QED BY <1>1, <1>2, <1>3 DEF RespInv

(* Input is rejected in an untouched response.                              *)
LEMMA RejectKeeps == RespInv /\ RejectInput => RespInv'
<1> SUFFICES ASSUME RespInv, RejectInput PROVE RespInv'
  OBVIOUS
<1>1. /\ pc = "parse" /\ pc' = "done"
      /\ UNCHANGED <<route, written, bypassed, started, calls>>
  BY DEF RejectInput
<1>2. resp.status = 0 /\ resp.body = <<>> /\ ~written
  BY <1>1 DEF RespInv, BeforeEnd, Untouched
<1>3. header = [type |-> header.type, names |-> header.names]
  BY DEF RespInv, Shapes
<1>4. PICK status, x : x \in Jsons(route) /\ writeJSON(status, header, <<x>>)
  <2>1. CASE writeJSON(400, header, <<Json("BadRequestError")>>)
    <3>1. Json("BadRequestError") \in Jsons(route)
      BY DEF Jsons, Schemas
    <3> QED BY <2>1, <3>1
  <2>2. ASSUME NEW err \in {InvalidInput, NotAStruct}, handleError(err)
        PROVE  \E status, x : x \in Jsons(route) /\ writeJSON(status, header, <<x>>)
    BY <2>2, ErrorWritten, ErrorsAssumption
  <2> QED BY <2>1, <2>2 DEF RejectInput
<1> QED BY <1>1, <1>2, <1>3, <1>4, JsonWritten

(* Static headers do not begin a response.                                  *)
LEMMA AcceptKeeps == RespInv /\ AcceptInput => RespInv'
<1> SUFFICES ASSUME RespInv, AcceptInput PROVE RespInv'
  OBVIOUS
<1>1. /\ pc = "parse" /\ pc' = "user"
      /\ UNCHANGED <<route, resp, written, bypassed, started, calls>>
      /\ header' = IF route.kind = "json" THEN header
                   ELSE [header EXCEPT !.names = @ \cup route.static]
  BY DEF AcceptInput
<1>2. header = [type |-> header.type, names |-> header.names] /\ calls \in Nat /\ ~started
  BY <1>1 DEF RespInv, Shapes, BeforeEnd
<1>3. header' = [type |-> header'.type, names |-> header'.names]
  <2> DEFINE t == header.type
             n == header.names
  <2>1. header = [type |-> t, names |-> n]
    BY <1>2
  <2> HIDE DEF t, n
  <2>2. header' \in {header, [header EXCEPT !.names = @ \cup route.static]}
    BY <1>1
  <2>3. [header EXCEPT !.names = @ \cup route.static] = [type |-> t, names |-> n \cup route.static]
    BY <2>1
  <2> QED BY <2>1, <2>2, <2>3
<1> QED BY <1>1, <1>2, <1>3, ResponseKept

(* A header with more names, those of the fields in the header among them.  *)
With(h, names) == [h EXCEPT !.names = @ \cup names]
Shown(set) == {f.name : f \in HeaderFields(route) \cap set}

(* The header of a success.                                                 *)
LEMMA SuccessHeader ==
    ASSUME NEW h, h = [type |-> h.type, names |-> h.names], NEW names, NEW set
    PROVE  LET g == writeResponseHeaders(With(h, names), set)
           IN  /\ g = [type |-> g.type, names |-> g.names]
               /\ g.names = (h.names \cup names) \cup Shown(set)
<1> DEFINE t == h.type
           n == h.names
           m == Shown(set)
           k == With(h, names)
<1>1. h = [type |-> t, names |-> n]
  OBVIOUS
<1> HIDE DEF t, n, m
<1>2. k = [type |-> t, names |-> n \cup names]
  BY <1>1 DEF With
<1> HIDE DEF k
<1>3. [k EXCEPT !.names = @ \cup m] = [type |-> t, names |-> (n \cup names) \cup m]
  BY <1>2
<1>4. writeResponseHeaders(k, set) = [type |-> t, names |-> (n \cup names) \cup m]
  BY <1>3 DEF writeResponseHeaders, Shown, m
<1>5. LET g == writeResponseHeaders(k, set)
      IN  g = [type |-> g.type, names |-> g.names] /\ g.names = (n \cup names) \cup m
  BY <1>4
<1> QED BY <1>5 DEF k, n, m

(* A result, or what is left of one that cannot be encoded, comes alone.    *)
LEMMA SucceedsKeeps == RespInv /\ HandlerSucceeds => RespInv'
<1> SUFFICES ASSUME RespInv, HandlerSucceeds PROVE RespInv'
  OBVIOUS
<1>1. /\ pc = "user" /\ pc' = "done" /\ route.kind = "json"
      /\ UNCHANGED <<route, written, bypassed, started, calls>>
  BY DEF HandlerSucceeds
<1>2. resp.status = 0 /\ resp.body = <<>> /\ ~written
  BY <1>1 DEF RespInv, BeforeEnd, Untouched
<1>3. header = [type |-> header.type, names |-> header.names]
  BY DEF RespInv, Shapes
<1>4. PICK set \in SUBSET route.out :
         LET h == writeResponseHeaders(With(header, route.static), set)
         IN  IF isNoBodyStatus(route.status)
             THEN resp' = Commit(resp, route.status, h) /\ header' = h
             ELSE \E units \in {<<>>, <<encode(route)>>} : writeJSON(route.status, h, units)
  BY DEF HandlerSucceeds, With
<1> DEFINE h == writeResponseHeaders(With(header, route.static), set)
<1>5. h = [type |-> h.type, names |-> h.names]
  BY <1>3, SuccessHeader
<1> HIDE DEF h
<1>6. CASE isNoBodyStatus(route.status)
  <2>1. resp' = Commit(resp, route.status, h) /\ header' = h
    BY <1>4, <1>6 DEF h
  <2>2. Response(resp, resp.body) /\ calls \in Nat /\ resp.body \in Seq(Units(route))
    BY DEF RespInv, Shapes
  <2>3. Response(resp', resp.body) /\ resp'.body = resp.body
    BY <2>1, <2>2, CommitFacts
  <2>4. Shapes'
    BY <1>1, <1>5, <2>1, <2>2, <2>3 DEF Shapes
  <2>5. ~Has(resp'.body, "json") /\ ~Has(resp'.body, "event")
    BY <1>2, <2>3 DEF Has
  <2> QED BY <1>1, <2>4, <2>5 DEF RespInv, BeforeEnd, Streams, Finished
<1>7. CASE ~isNoBodyStatus(route.status)
  <2>1. PICK units \in {<<>>, <<encode(route)>>} : writeJSON(route.status, h, units)
    BY <1>4, <1>7 DEF h
  <2>2. encode(route) \in Jsons(route)
    BY DEF Jsons
  <2> QED BY <1>1, <1>2, <1>5, <2>1, <2>2, JsonWritten
<1> QED BY <1>6, <1>7

(* An error is written only into an untouched response, or one bypassed.    *)
LEMMA FailsKeeps == RespInv /\ HandlerFails => RespInv'
<1> SUFFICES ASSUME RespInv, HandlerFails PROVE RespInv'
  OBVIOUS
<1>1. /\ pc = "user" /\ pc' = "done"
      /\ UNCHANGED <<route, written, bypassed, started, calls>>
  BY DEF HandlerFails
<1>2. header = [type |-> header.type, names |-> header.names] /\ calls \in Nat
  BY DEF RespInv, Shapes
<1>3. CASE written
  <2>1. UNCHANGED <<header, resp>>
    BY <1>3 DEF HandlerFails
  <2> QED BY <1>1, <1>2, <2>1, ResponseKept
<1>4. CASE ~written
  <2>1. PICK err \in Errors : handleError(err)
    BY <1>4 DEF HandlerFails
  <2>2. PICK status, x : x \in Jsons(route) /\ writeJSON(status, header, <<x>>)
    BY <2>1, ErrorWritten
  <2>3. ~bypassed => resp.status = 0 /\ resp.body = <<>> /\ ~written
    BY <1>1, <1>4 DEF RespInv, BeforeEnd, Untouched
  <2> QED BY <1>1, <1>2, <2>2, <2>3, JsonWritten
<1> QED BY <1>3, <1>4

(* User code of a raw handler writes what is not JSON.                      *)
LEMMA RawKeeps == RespInv /\ (RawWriteHeader \/ RawWrite \/ RawFlush) => RespInv'
<1> SUFFICES ASSUME RespInv, RawWriteHeader \/ RawWrite \/ RawFlush PROVE RespInv'
  OBVIOUS
<1> DEFINE b == resp.body
<1>1. Response(resp, b) /\ b \in Seq(Units(route)) /\ calls \in Nat
      /\ header = [type |-> header.type, names |-> header.names]
  BY DEF RespInv, Shapes
<1>2. /\ pc = "user" /\ pc' = "user" /\ route.kind = "raw" /\ calls' = calls + 1
      /\ UNCHANGED <<route, header, started>>
  BY DEF RawWriteHeader, RawWrite, RawFlush, Uses, wrapper
<1>3. written' \/ bypassed'
  <2>1. RawWriteHeader \/ RawWrite => written'
    BY DEF RawWriteHeader, RawWrite
  <2>2. CASE RawFlush
    <3>1. bypassed' = (bypassed \/ ~written)
      BY <2>2 DEF RawFlush
    <3>2. written' = written
      BY <2>2 DEF RawFlush
    <3> QED BY <3>1, <3>2, Zenon
  <2> QED BY <2>1, <2>2
<1>4. ~Has(b, "json") /\ ~Has(b, "event")
  BY <1>2 DEF RespInv, BeforeEnd, Streams
<1>5. PICK c \in Seq(Units(route)) :
         /\ ~Has(c, "json") /\ ~Has(c, "event")
         /\ Response(resp', b \o c) /\ resp'.body = b \o c
  <2>1. CASE RawWrite
    <3>1. resp' = Write(resp, header, <<Piece("raw", "")>>)
      BY <2>1 DEF RawWrite
    <3> DEFINE c == <<Piece("raw", "")>>
    <3>2. c \in Seq(Units(route)) /\ ~Has(c, "json") /\ ~Has(c, "event")
      BY TextFacts
    <3>3. resp' = Write(resp, header, c)
      BY <3>1
    <3> HIDE DEF b, c
    <3>4. Response(resp', b \o c) /\ resp'.body = b \o c
      BY <1>1, <3>3, WriteFacts
    <3> QED BY <3>2, <3>4
  <2>2. CASE RawWriteHeader \/ RawFlush
    <3>1. PICK status : resp' = Commit(resp, status, header)
      BY <2>2 DEF RawWriteHeader, RawFlush
    <3>2. Response(resp', b) /\ resp'.body = b
      BY <1>1, <3>1, CommitFacts
    <3>3. b \o <<>> = b /\ <<>> \in Seq(Units(route))
      BY <1>1
    <3>4. ~Has(<<>>, "json") /\ ~Has(<<>>, "event")
      BY DEF Has
    <3> QED BY <3>2, <3>3, <3>4
  <2> QED BY <2>1, <2>2
<1> HIDE DEF b
<1>6. b \o c \in Seq(Units(route)) /\ ~Has(b \o c, "json") /\ ~Has(b \o c, "event")
  BY <1>1, <1>4, <1>5, HasBoth
<1>7. Shapes'
  BY <1>1, <1>2, <1>5, <1>6 DEF Shapes
<1> QED BY <1>2, <1>5, <1>6, <1>7, <1>3 DEF RespInv, BeforeEnd, Streams, Finished

(* writeHeaders labels the response and adds its headers, unless it did     *)
(* already.                                                                 *)
LEMMA Labelled ==
    ASSUME RespInv, route.kind = "sse", pc = "user", writeHeaders
    PROVE  /\ header' = [type |-> "event-stream", names |-> header'.names]
           /\ header'.names = IF started THEN header.names
                              ELSE header.names \cup StreamHeaders
           /\ started'
<1> DEFINE t == header.type
           n == header.names
           l == n \cup StreamHeaders
<1>1. header = [type |-> t, names |-> n]
  BY DEF RespInv, Shapes
<1>2. CASE started
  <2>1. header.type = "event-stream" /\ header' = header
    BY <1>2 DEF RespInv, Streams, writeHeaders
  <2> QED BY <1>1, <1>2, <2>1 DEF writeHeaders
<1>3. CASE ~started
  <2>1. header' = [type |-> "event-stream", names |-> l]
    BY <1>3 DEF writeHeaders
  <2> HIDE DEF l
  <2>2. header' = [type |-> "event-stream", names |-> header'.names] /\ header'.names = l
    BY <2>1
  <2> QED BY <1>3, <2>2 DEF writeHeaders, l
<1> QED BY <1>2, <1>3

(* Sending an event commits the label with it, or later events follow one   *)
(* that did.                                                                *)
LEMMA SendKeeps ==
    RespInv /\ (SendUnregistered \/ SendCannotMarshal \/ SendEvent \/ SendBreaks) => RespInv'
<1> SUFFICES ASSUME RespInv, SendUnregistered \/ SendCannotMarshal \/ SendEvent \/ SendBreaks
             PROVE  RespInv'
  OBVIOUS
<1> DEFINE b == resp.body
<1>1. Response(resp, b) /\ b \in Seq(Units(route)) /\ calls \in Nat
      /\ header = [type |-> header.type, names |-> header.names]
  BY DEF RespInv, Shapes
<1>2. /\ pc = "user" /\ pc' = "user" /\ route.kind = "sse" /\ calls' = calls + 1
      /\ UNCHANGED <<route, bypassed>> /\ calls' \in Nat /\ ~bypassed
  BY <1>1 DEF SendUnregistered, SendCannotMarshal, SendEvent, SendBreaks, Uses, wrapper,
              RespInv, Streams
<1>3. CASE SendUnregistered
  BY <1>1, <1>2, <1>3, ResponseKept DEF SendUnregistered
<1>4. CASE SendCannotMarshal
  <2>1. header' = [type |-> "event-stream", names |-> header'.names]
    BY <1>2, <1>4, Labelled DEF SendCannotMarshal
  <2>2. UNCHANGED <<resp, written>>
    BY <1>4 DEF SendCannotMarshal
  <2>3. header'.type = "event-stream" /\ header' = [type |-> header'.type, names |-> header'.names]
    BY <2>1
  <2> QED BY <1>2, <2>2, <2>3, ResponseKept
<1>5. CASE SendEvent \/ SendBreaks
  <2>1. header' = [type |-> "event-stream", names |-> header'.names]
    BY <1>2, <1>5, Labelled DEF SendEvent, SendBreaks
  <2>2. written' = TRUE /\ started' = TRUE
    BY <1>5 DEF SendEvent, SendBreaks, writeHeaders
  <2>3. PICK c \in Seq(Units(route)) :
           /\ ~Has(c, "json")
           /\ Response(resp', b \o c) /\ resp'.body = b \o c
           /\ resp'.status = IF resp.status = 0 THEN 200 ELSE resp.status
           /\ resp'.header = IF resp.status = 0 THEN header' ELSE resp.header
    <3>1. CASE SendEvent
      <4>1. resp' = Write(resp, header', Frame(calls + 1))
        BY <3>1 DEF SendEvent
      <4>2. calls + 1 \in Nat
        BY <1>1
      <4>3. Frame(calls + 1) \in Seq(Units(route)) /\ ~Has(Frame(calls + 1), "json")
        BY <4>2, TextFacts
      <4> DEFINE c == Frame(calls + 1)
      <4> HIDE DEF b, c
      <4>4. /\ Response(resp', b \o c) /\ resp'.body = b \o c
            /\ resp'.status = IF resp.status = 0 THEN 200 ELSE resp.status
            /\ resp'.header = IF resp.status = 0 THEN header' ELSE resp.header
        BY <1>1, <4>1, WriteFacts DEF c
      <4> QED BY <4>3, <4>4 DEF c
    <3>2. CASE SendBreaks
      <4>1. resp' = Commit(resp, 200, header')
        BY <3>2 DEF SendBreaks
      <4>2. b \o <<>> = b /\ <<>> \in Seq(Units(route))
        BY <1>1
      <4>3. ~Has(<<>>, "json")
        BY DEF Has
      <4>4. /\ Response(resp', b) /\ resp'.body = b
            /\ resp'.status = IF resp.status = 0 THEN 200 ELSE resp.status
            /\ resp'.header = IF resp.status = 0 THEN header' ELSE resp.header
        BY <1>1, <4>1, CommitFacts
      <4> HIDE DEF b
      <4> QED BY <4>2, <4>3, <4>4
    <3> QED BY <1>5, <3>1, <3>2
  <2>4. resp'.status = 200 /\ resp'.header.type = "event-stream"
    <3>1. CASE written
      BY <1>2, <2>3, <3>1 DEF RespInv, Streams
    <3>2. CASE ~written
      <4>1. resp.status = 0
        BY <1>2, <3>2 DEF RespInv, BeforeEnd, Untouched
      <4> QED BY <2>1, <2>3, <4>1
    <3> QED BY <3>1, <3>2
  <2>5. ~Has(b, "json")
    BY <1>2 DEF RespInv, BeforeEnd
  <2> HIDE DEF b
  <2>6. b \o c \in Seq(Units(route)) /\ ~Has(b \o c, "json")
    BY <1>1, <2>3, <2>5, HasBoth
  <2>7. header' = [type |-> header'.type, names |-> header'.names]
    BY <2>1
  <2>8. Shapes'
    BY <1>2, <2>3, <2>6, <2>7 DEF Shapes
  <2> QED BY <1>2, <2>1, <2>2, <2>3, <2>4, <2>6, <2>8 DEF RespInv, BeforeEnd, Streams, Finished
<1> QED BY <1>3, <1>4, <1>5

(* net/http completes a response that nobody has begun.                     *)
LEMMA EndKeeps == RespInv /\ StreamEnds => RespInv'
<1> SUFFICES ASSUME RespInv, StreamEnds PROVE RespInv'
  OBVIOUS
<1> DEFINE b == resp.body
<1>1. Response(resp, b) /\ b \in Seq(Units(route)) /\ calls \in Nat
      /\ header = [type |-> header.type, names |-> header.names]
  BY DEF RespInv, Shapes
<1>2. /\ pc = "user" /\ pc' = "done" /\ route.kind # "json" /\ resp' = Commit(resp, 200, header)
      /\ UNCHANGED <<route, header, written, bypassed, started, calls>>
  BY DEF StreamEnds
<1>3. /\ Response(resp', b) /\ resp'.body = b
      /\ resp.status # 0 => resp'.status = resp.status /\ resp'.header = resp.header
  BY <1>1, <1>2, CommitFacts
<1>4. ~Has(b, "json")
  BY <1>2 DEF RespInv, BeforeEnd
<1>5. Shapes'
  BY <1>1, <1>2, <1>3 DEF Shapes
<1> HIDE DEF b
<1>6. BeforeEnd' /\ Finished'
  BY <1>2, <1>3, <1>4 DEF BeforeEnd, Finished
<1>7. Streams'
  BY <1>2, <1>3 DEF RespInv, Streams, b
<1> QED BY <1>5, <1>6, <1>7 DEF RespInv

(* Every step: the server's, by cases, and those that touch no response.    *)
LEMMA StepKeeps == RespInv /\ [Next]_vars => RespInv'
<1> SUFFICES ASSUME RespInv, [Next]_vars PROVE RespInv'
  OBVIOUS
<1>1. CASE UNCHANGED <<route, writer, wrapper>>
  <2>1. UNCHANGED <<route, pc, header, resp, written, started, calls, bypassed>>
    BY <1>1 DEF writer, wrapper
  <2> QED BY <2>1 DEF RespInv, Shapes, BeforeEnd, Streams, Finished, Untouched
<1>2. CASE Server
  BY <1>2, RejectKeeps, AcceptKeeps, SucceedsKeeps, FailsKeeps, EndKeeps, RawKeeps, SendKeeps
     DEF Server
<1>3. Next => Server \/ UNCHANGED <<route, writer, wrapper>>
  BY DEF Next, Reader, FetchResolves, ReadChunk, Yield, ReadDone, ReadRejects, Leave, Close,
         Disconnect
<1>4. UNCHANGED vars => UNCHANGED <<route, writer, wrapper>>
  BY DEF vars
<1> QED BY <1>1, <1>2, <1>3, <1>4

(* A response is a JSON document alone, labelled as JSON, or what user code *)
(* streamed, events under status 200 and the label of an event stream.      *)
THEOREM OneResponseCorrect == FairSpec => []OneResponse
<1>1. RespInv => OneResponse
  BY DEF RespInv, BeforeEnd, Streams, Finished, OneResponse, Wrote, Has
<1> QED BY <1>1, InitRespInv, StepKeeps, PTL DEF FairSpec

-----------------------------------------------------------------------------
(* The search for an error. *)

(* A set of numbers with 0 and the successors of its members has them all.  *)
LEMMA NatSet ==
    ASSUME NEW S, 0 \in S, \A n \in Nat : n \in S => n + 1 \in S
    PROVE  Nat \subseteq S
<1> SUFFICES ASSUME Nat \ S # {} PROVE FALSE
  OBVIOUS
<1>1. PICK x \in Nat \ S : \A y \in Nat \ S : ~ (<<y, x>> \in OpToRel(<, Nat))
  <2>1. Nat \ S \subseteq Nat
    OBVIOUS
  <2> QED BY <2>1, NatLessThanWellFounded, WFMin
<1>2. \A y \in Nat \ S : ~ (y < x)
  BY <1>1 DEF OpToRel
<1>3. x # 0 /\ x - 1 \in Nat
  OBVIOUS
<1>4. x - 1 \in S
  BY <1>2, <1>3
<1> QED BY <1>3, <1>4

(* The least of some positions is one of them, and no other is less.        *)
LEMMA MinIn ==
    ASSUME NEW S \in SUBSET Nat, S # {}
    PROVE  Min(S) \in S /\ \A j \in S : Min(S) <= j
<1>1. PICK x \in S : \A y \in S : ~ (<<y, x>> \in OpToRel(<, Nat))
  BY NatLessThanWellFounded, WFMin
<1>2. \A y \in S : ~ (y < x)
  BY <1>1 DEF OpToRel
<1>3. \A y \in S : x <= y
  BY <1>2
<1> QED BY <1>3 DEF Min

(* What the search makes of one error, given what it makes of those in it.  *)
Found(g, e, types) == {i \in DOMAIN e.inner : g[e.inner[i]] # nil.typ}
Matched(g, e, types) ==
    IF e.typ \in types THEN e.typ
    ELSE IF Found(g, e, types) # {} THEN g[e.inner[Min(Found(g, e, types))]] ELSE nil.typ
Search(types) == CHOOSE g : g = [e \in Errors |-> Matched(g, e, types)]

(* matchError is the search, that is its recursive function.                *)
LEMMA SearchIs ==
    ASSUME NEW err, NEW types
    PROVE  matchError(err, types) = Search(types)[err]
BY DEF matchError, Search, Matched, Found

(* The largest of some positions is one of them, and no other is larger.    *)
LEMMA MaxIn ==
    ASSUME NEW n \in Nat, NEW S \in SUBSET (1..n), S # {}
    PROVE  Max(S) \in S /\ \A j \in S : j <= Max(S)
<1> DEFINE T == {n - i : i \in S}
<1>1. T \subseteq Nat /\ T # {}
  <2>1. \A i \in S : i \in 1..n /\ n - i \in Nat
    OBVIOUS
  <2>2. PICK i \in S : TRUE
    OBVIOUS
  <2>3. n - i \in T
    OBVIOUS
  <2> QED BY <2>1, <2>3
<1>2. Min(T) \in T /\ \A y \in T : Min(T) <= y
  BY <1>1, MinIn
<1>3. PICK i \in S : Min(T) = n - i
  BY <1>2
<1>4. ASSUME NEW j \in S PROVE i >= j
  <2>1. n - j \in T /\ i \in 1..n /\ j \in 1..n
    OBVIOUS
  <2> HIDE DEF T
  <2>2. n - i <= n - j
    BY <1>2, <1>3, <2>1
  <2> QED BY <2>1, <2>2
<1> QED BY <1>4 DEF Max

(* Errors are finite trees.                                                 *)
LEMMA TreeFacts ==
    \E depth \in [Errors -> 0..MaxDepth] :
       \A e \in Errors : \A i \in DOMAIN e.inner :
          e.inner[i] \in Errors /\ depth[e.inner[i]] < depth[e]
BY ErrorsAssumption

(* The search of an error looks at what it made of the errors in it only.   *)
LEMMA MatchedLocal ==
    ASSUME NEW g, NEW h, NEW e \in Errors, NEW types,
           \A i \in DOMAIN e.inner : g[e.inner[i]] = h[e.inner[i]]
    PROVE  Matched(g, e, types) = Matched(h, e, types)
<1>1. Found(g, e, types) = Found(h, e, types)
  BY DEF Found
<1>2. Found(g, e, types) # {} => Min(Found(g, e, types)) \in DOMAIN e.inner
  <2>1. e.inner \in Seq(Errors) /\ DOMAIN e.inner \subseteq Nat
    BY ErrorsAssumption
  <2>2. Found(g, e, types) \subseteq DOMAIN e.inner
    BY DEF Found
  <2> QED BY <2>1, <2>2, MinIn
<1> QED BY <1>1, <1>2 DEF Matched

(* The search is well-defined.                                              *)
LEMMA SearchFacts ==
    ASSUME NEW types
    PROVE  \A e \in Errors : Search(types)[e] = Matched(Search(types), e, types)
<1>1. PICK depth \in [Errors -> 0..MaxDepth] :
         \A e \in Errors : \A i \in DOMAIN e.inner :
            e.inner[i] \in Errors /\ depth[e.inner[i]] < depth[e]
  BY TreeFacts
<1> DEFINE Solves(g, n) == \A e \in Errors : depth[e] < n => g[e] = Matched(g, e, types)
           S == {n \in Nat : \E g : Solves(g, n)}
<1>2. 0 \in S
  BY BoundsAssumption
<1>3. ASSUME NEW n \in Nat, n \in S PROVE n + 1 \in S
  <2>1. PICK g : Solves(g, n)
    BY <1>3
  <2> DEFINE h == [e \in Errors |-> IF depth[e] < n THEN g[e] ELSE Matched(g, e, types)]
  <2>2. ASSUME NEW e \in Errors, depth[e] < n + 1
        PROVE  h[e] = Matched(h, e, types)
    <3>1. \A i \in DOMAIN e.inner : g[e.inner[i]] = h[e.inner[i]]
      <4> SUFFICES ASSUME NEW i \in DOMAIN e.inner PROVE g[e.inner[i]] = h[e.inner[i]]
        OBVIOUS
      <4>1. e.inner[i] \in Errors /\ depth[e.inner[i]] < n
        BY <1>1, <2>2, BoundsAssumption
      <4> QED BY <4>1
    <3>2. h[e] = Matched(g, e, types)
      BY <2>1
    <3> HIDE DEF h
    <3>3. Matched(g, e, types) = Matched(h, e, types)
      BY <3>1, MatchedLocal
    <3> QED BY <3>2, <3>3
  <2> HIDE DEF h
  <2>3. Solves(h, n + 1)
    BY <2>2
  <2> QED BY <2>3
<1>4. MaxDepth + 1 \in S
  <2> HIDE DEF S
  <2>1. Nat \subseteq S
    BY <1>2, <1>3, NatSet
  <2> QED BY <2>1, BoundsAssumption
<1>5. PICK g : Solves(g, MaxDepth + 1)
  BY <1>4
<1> DEFINE h == [e \in Errors |-> g[e]]
<1>6. ASSUME NEW e \in Errors PROVE h[e] = Matched(h, e, types)
  <2>1. \A i \in DOMAIN e.inner : g[e.inner[i]] = h[e.inner[i]]
    BY <1>1
  <2>4. h[e] = g[e]
    OBVIOUS
  <2> HIDE DEF h
  <2>2. Matched(g, e, types) = Matched(h, e, types)
    BY <2>1, MatchedLocal
  <2>3. depth[e] < MaxDepth + 1
    BY <1>1, BoundsAssumption
  <2> QED BY <1>5, <2>2, <2>3, <2>4
<1>7. h = [e \in Errors |-> Matched(h, e, types)]
  <2> HIDE DEF h
  <2>1. h = [e \in Errors |-> h[e]]
    BY DEF h
  <2> QED BY <1>6, <2>1
<1>8. Search(types) = [e \in Errors |-> Matched(Search(types), e, types)]
  <2> HIDE DEF h
  <2> QED BY <1>7 DEF Search
<1> QED BY <1>8

(* Paths through an error. *)

Indices == UNION {DOMAIN e.inner : e \in Errors}
Into(e, i) == IF i \in DOMAIN e.inner THEN e.inner[i] ELSE nil
Walk(err, path) ==
    CHOOSE w : w = [n \in 0..Len(path) |->
                      IF n = 0 THEN err
                      ELSE IF path[n] \in DOMAIN w[n - 1].inner
                           THEN w[n - 1].inner[path[n]] ELSE nil]

(* A walk follows its path, one error into the next.                        *)
LEMMA WalkFacts ==
    ASSUME NEW err, NEW path, Len(path) \in Nat
    PROVE  /\ At(err, path) = Walk(err, path)[Len(path)]
           /\ Walk(err, path)[0] = err
           /\ \A n \in 1..Len(path) : Walk(err, path)[n] = Into(Walk(err, path)[n - 1], path[n])
<1> DEFINE N == Len(path)
           Follows(g, k) ==
              g[0] = err /\ \A n \in 1..N : n <= k => g[n] = Into(g[n - 1], path[n])
           S == {k \in Nat : \E g : Follows(g, k)}
<1>1. 0 \in S
  <2> DEFINE g == [n \in 0..N |-> err]
  <2>1. Follows(g, 0)
    OBVIOUS
  <2> QED BY <2>1
<1>2. ASSUME NEW k \in Nat, k \in S PROVE k + 1 \in S
  <2>1. PICK g : Follows(g, k)
    BY <1>2
  <2> DEFINE h == [n \in 0..N |-> IF n <= k THEN g[n] ELSE Into(g[k], path[k + 1])]
  <2>2. h[0] = err
    BY <2>1
  <2>3. ASSUME NEW n \in 1..N, n <= k + 1 PROVE h[n] = Into(h[n - 1], path[n])
    <3>1. n - 1 \in 0..N /\ n - 1 <= k
      BY <2>3
    <3>2. h[n - 1] = g[n - 1]
      BY <3>1
    <3>3. CASE n <= k
      BY <2>1, <3>2, <3>3
    <3>4. CASE n = k + 1
      BY <3>2, <3>4
    <3> QED BY <2>3, <3>3, <3>4
  <2> HIDE DEF h
  <2>4. Follows(h, k + 1)
    BY <2>2, <2>3
  <2> QED BY <2>4
<1>3. N \in S
  <2> HIDE DEF S
  <2>1. Nat \subseteq S
    BY <1>1, <1>2, NatSet
  <2> QED BY <2>1
<1>4. PICK g : Follows(g, N)
  BY <1>3
<1> DEFINE w == [n \in 0..N |-> g[n]]
<1>5. w[0] = err /\ \A n \in 1..N : w[n] = Into(w[n - 1], path[n])
  BY <1>4
<1>6. w = [n \in 0..N |-> w[n]]
  OBVIOUS
<1> HIDE DEF w
<1>7. w = [n \in 0..Len(path) |->
             IF n = 0 THEN err
             ELSE IF path[n] \in DOMAIN w[n - 1].inner
                  THEN w[n - 1].inner[path[n]] ELSE nil]
  BY <1>5, <1>6 DEF Into
<1> DEFINE v == Walk(err, path)
<1>8. v = [n \in 0..Len(path) |->
             IF n = 0 THEN err
             ELSE IF path[n] \in DOMAIN v[n - 1].inner
                  THEN v[n - 1].inner[path[n]] ELSE nil]
  BY <1>7 DEF Walk
<1>9. At(err, path) = v[Len(path)]
  BY DEF At, Walk
<1> HIDE DEF v
<1>10. v[0] = err /\ \A n \in 1..N : v[n] = Into(v[n - 1], path[n])
  BY <1>8 DEF Into
<1> QED BY <1>9, <1>10 DEF v

(* The errors at the first step of a path, and at the rest of it.           *)
LEMMA AtFacts ==
    ASSUME NEW err, NEW path \in Seq(Nat)
    PROVE  /\ path = <<>> => At(err, path) = err
           /\ path # <<>> => At(err, path) = At(Into(err, path[1]), Tail(path))
<1>1. Len(path) \in Nat
  OBVIOUS
<1>2. path = <<>> => At(err, path) = err
  BY <1>1, WalkFacts
<1>3. ASSUME path # <<>> PROVE At(err, path) = At(Into(err, path[1]), Tail(path))
  <2> DEFINE N == Len(path)
             t == Tail(path)
             w == Walk(err, path)
             v == Walk(Into(err, path[1]), t)
             S == {n \in Nat : n <= N - 1 => v[n] = w[n + 1]}
  <2>1. /\ N \in Nat \ {0} /\ t \in Seq(Nat) /\ Len(t) = N - 1
        /\ \A n \in 1..(N - 1) : t[n] = path[n + 1]
    BY <1>3
  <2>2. /\ At(err, path) = w[N] /\ w[0] = err
        /\ \A n \in 1..N : w[n] = Into(w[n - 1], path[n])
    BY <1>1, WalkFacts
  <2> HIDE DEF N, t
  <2>3. Len(t) \in Nat /\ Len(t) = N - 1
    BY <2>1
  <2>8. /\ At(Into(err, path[1]), t) = v[Len(t)] /\ v[0] = Into(err, path[1])
        /\ \A n \in 1..Len(t) : v[n] = Into(v[n - 1], t[n])
    BY <2>3, WalkFacts
  <2> HIDE DEF w, v
  <2>4. 0 \in S
    <3>1. w[1] = Into(w[0], path[1])
      BY <2>1, <2>2
    <3> QED BY <2>2, <2>8, <3>1
  <2>5. ASSUME NEW n \in Nat, n \in S PROVE n + 1 \in S
    <3> SUFFICES ASSUME n + 1 <= N - 1 PROVE v[n + 1] = w[n + 2]
      OBVIOUS
    <3>1. v[n] = w[n + 1]
      BY <2>1, <2>5
    <3>2. n + 1 \in 1..(N - 1) /\ n + 2 \in 1..N
      BY <2>1
    <3>3. v[n + 1] = Into(v[n], t[n + 1])
      BY <2>3, <2>8, <3>2
    <3>4. w[n + 2] = Into(w[n + 1], path[n + 2])
      BY <2>2, <3>2
    <3>5. t[n + 1] = path[n + 2]
      BY <2>1, <3>2
    <3> QED BY <3>1, <3>3, <3>4, <3>5
  <2>6. N - 1 \in S
    <3> HIDE DEF S
    <3>1. Nat \subseteq S
      BY <2>4, <2>5, NatSet
    <3> QED BY <2>1, <3>1
  <2>7. v[N - 1] = w[N]
    BY <2>1, <2>6
  <2> QED BY <2>2, <2>3, <2>7, <2>8 DEF t
<1> QED BY <1>2, <1>3

(* There is nothing in nil.                                                 *)
LEMMA NilFacts ==
    ASSUME NEW path \in Seq(Nat)
    PROVE  At(nil, path) = nil
<1> DEFINE w == Walk(nil, path)
           S == {n \in Nat : n <= Len(path) => w[n] = nil}
<1>1. /\ At(nil, path) = w[Len(path)] /\ w[0] = nil /\ Len(path) \in Nat
      /\ \A n \in 1..Len(path) : w[n] = Into(w[n - 1], path[n])
  BY WalkFacts
<1> HIDE DEF w
<1>2. 0 \in S
  BY <1>1
<1>3. ASSUME NEW n \in Nat, n \in S PROVE n + 1 \in S
  <2> SUFFICES ASSUME n + 1 <= Len(path) PROVE w[n + 1] = nil
    OBVIOUS
  <2>1. w[n] = nil /\ n + 1 \in 1..Len(path)
    BY <1>1, <1>3
  <2>2. w[n + 1] = Into(nil, path[n + 1])
    BY <1>1, <2>1
  <2> QED BY <2>2 DEF Into, nil
<1>4. Len(path) \in S
  <2> HIDE DEF S
  <2>1. Nat \subseteq S
    BY <1>2, <1>3, NatSet
  <2> QED BY <1>1, <2>1
<1> QED BY <1>1, <1>4

(* One path is before another only if it is so from the second step on, or  *)
(* turns off before it at the first.                                        *)
LEMMA BeforeFacts ==
    ASSUME NEW p \in Seq(Nat), NEW q \in Seq(Nat), Before(q, p)
    PROVE  /\ p # <<>>
           /\ q # <<>> => q[1] < p[1] \/ (q[1] = p[1] /\ Before(Tail(q), Tail(p)))
<1>1. PICK n \in 0..Len(q) :
         /\ n <= Len(p) /\ \A i \in 1..n : q[i] = p[i]
         /\ n < Len(p) /\ (n < Len(q) => q[n + 1] < p[n + 1])
  BY DEF Before
<1>2. p # <<>>
  BY <1>1
<1>3. ASSUME q # <<>>, n = 0 PROVE q[1] < p[1]
  BY <1>1, <1>3
<1>4. ASSUME q # <<>>, n # 0 PROVE q[1] = p[1] /\ Before(Tail(q), Tail(p))
  <2> DEFINE s == Tail(q)
             t == Tail(p)
  <2>0. /\ Len(s) = Len(q) - 1 /\ Len(t) = Len(p) - 1
        /\ Len(q) \in Nat /\ Len(p) \in Nat
    BY <1>2, <1>4
  <2>1. /\ \A i \in 1..Len(s) : s[i] = q[i + 1]
        /\ \A i \in 1..Len(t) : t[i] = p[i + 1]
    BY <1>2, <1>4
  <2> HIDE DEF s, t
  <2>2. n - 1 \in 0..Len(s) /\ n - 1 < Len(t) /\ n \in 1..n
    BY <1>1, <1>4, <2>0
  <2>3. ASSUME NEW i \in 1..(n - 1) PROVE s[i] = t[i]
    <3>1. i + 1 \in 1..n /\ i \in 1..Len(s) /\ i \in 1..Len(t)
      <4>1. i \in Nat /\ 1 <= i /\ i <= n - 1 /\ n \in Nat
        OBVIOUS
      <4>2. n - 1 <= Len(s) /\ n - 1 < Len(t) /\ Len(s) \in Int /\ Len(t) \in Int
        BY <2>0, <2>2
      <4> QED BY <4>1, <4>2
    <3> QED BY <1>1, <2>1, <3>1
  <2>4. ASSUME n - 1 < Len(s) PROVE s[(n - 1) + 1] < t[(n - 1) + 1]
    <3>1. (n - 1) + 1 = n /\ n \in 1..Len(s) /\ n \in 1..Len(t) /\ n < Len(q)
      <4>1. n \in Nat /\ n # 0
        BY <1>4
      <4>2. n - 1 < Len(s) /\ n - 1 < Len(t) /\ Len(s) \in Int /\ Len(t) \in Int
        BY <2>0, <2>2, <2>4
      <4>3. Len(q) \in Nat /\ Len(s) = Len(q) - 1
        BY <2>0
      <4> QED BY <4>1, <4>2, <4>3
    <3> QED BY <1>1, <2>1, <3>1
  <2>5. n - 1 <= Len(t)
    BY <2>0, <2>2
  <2>6. Before(s, t)
    BY <2>2, <2>3, <2>4, <2>5 DEF Before
  <2>7. 1 \in 1..n
    BY <2>2
  <2> QED BY <1>1, <2>6, <2>7 DEF s, t
<1> QED BY <1>2, <1>3, <1>4

IndexPaths == Seq(Indices)

(* Indices are numbers, and a path is no more than a list of them.          *)
LEMMA IndexFacts ==
    /\ Indices \subseteq Nat
    /\ \A p \in IndexPaths :
          /\ p \in Seq(Nat)
          /\ p # <<>> => p[1] \in Indices /\ Tail(p) \in IndexPaths
    /\ \A e \in Errors : DOMAIN e.inner \subseteq Indices
<1>1. \A e \in Errors : DOMAIN e.inner \subseteq Nat
  BY ErrorsAssumption
<1>2. Indices \subseteq Nat /\ \A e \in Errors : DOMAIN e.inner \subseteq Indices
  BY <1>1 DEF Indices
<1>3. ASSUME NEW p \in Seq(Indices)
      PROVE  p \in Seq(Nat) /\ (p # <<>> => p[1] \in Indices /\ Tail(p) \in Seq(Indices))
  <2>1. /\ Len(p) \in Nat /\ p \in [1..Len(p) -> Indices]
        /\ p # <<>> => Len(p) # 0 /\ Tail(p) \in Seq(Indices)
    OBVIOUS
  <2>2. p \in [1..Len(p) -> Nat]
    BY <1>2, <2>1
  <2>3. p \in Seq(Nat)
    BY <2>1, <2>2
  <2> QED BY <2>1, <2>3
<1> QED BY <1>2, <1>3 DEF IndexPaths

(* What the search says of an error is so by the paths through it.          *)
IsFirst(e, depth, types) ==
    LET t == Search(types)[e]
    IN  /\ t = nil.typ => \A q \in IndexPaths : At(e, q).typ \notin types
        /\ t # nil.typ => /\ t \in types
                          /\ \E p \in IndexPaths :
                                /\ Len(p) <= depth[e] /\ At(e, p).typ = t
                                /\ \A q \in IndexPaths :
                                      At(e, q).typ \in types => ~Before(q, p)

(* ... if it is so of the errors in it: an error of a wanted type is the    *)
(* first in itself.                                                         *)
LEMMA FirstItself ==
    ASSUME NEW depth \in [Errors -> 0..MaxDepth], NEW types, NEW e \in Errors, e.typ \in types
    PROVE  IsFirst(e, depth, types)
<1>1. Search(types)[e] = e.typ /\ e.typ # nil.typ
  BY SearchFacts, ErrorsAssumption DEF Matched
<1>2. /\ <<>> \in IndexPaths /\ Len(<<>>) <= depth[e] /\ At(e, <<>>) = e
  <2>1. <<>> \in Seq(Nat) /\ <<>> \in Seq(Indices) /\ Len(<<>>) = 0
    OBVIOUS
  <2>2. 0 <= depth[e]
    BY BoundsAssumption
  <2> QED BY <2>1, <2>2, AtFacts DEF IndexPaths
<1>3. ASSUME NEW q \in IndexPaths PROVE ~Before(q, <<>>)
  BY <1>2, IndexFacts, BeforeFacts
<1> QED BY <1>1, <1>2, <1>3 DEF IsFirst

(* An error of another type has what is at the rest of each path.           *)
LEMMA FirstStep ==
    ASSUME NEW e \in Errors, NEW types, e.typ \notin types, nil.typ \notin types,
           NEW q \in IndexPaths, At(e, q).typ \in types
    PROVE  /\ q # <<>> /\ q[1] \in DOMAIN e.inner /\ Tail(q) \in IndexPaths
           /\ At(e, q) = At(e.inner[q[1]], Tail(q))
<1>1. q # <<>>
  BY AtFacts, IndexFacts
<1>2. At(e, q) = At(Into(e, q[1]), Tail(q)) /\ Tail(q) \in IndexPaths
  BY <1>1, AtFacts, IndexFacts
<1>3. q[1] \in DOMAIN e.inner
  <2> SUFFICES ASSUME q[1] \notin DOMAIN e.inner PROVE FALSE
    OBVIOUS
  <2>1. Into(e, q[1]) = nil /\ Tail(q) \in Seq(Nat)
    BY <1>2, IndexFacts DEF Into
  <2>2. At(e, q) = nil
    BY <1>2, <2>1, NilFacts
  <2> QED BY <2>2
<1> QED BY <1>1, <1>2, <1>3 DEF Into

(* It has the first in the first of its errors that has any, if it has one. *)
LEMMA FirstWithin ==
    ASSUME NEW depth \in [Errors -> 0..MaxDepth],
           \A x \in Errors : \A i \in DOMAIN x.inner :
              x.inner[i] \in Errors /\ depth[x.inner[i]] < depth[x],
           NEW types, nil.typ \notin types, NEW e \in Errors, e.typ \notin types,
           \A i \in DOMAIN e.inner : IsFirst(e.inner[i], depth, types)
    PROVE  IsFirst(e, depth, types)
<1> DEFINE S == Search(types)
           F == Found(S, e, types)
<1>1. S[e] = IF F # {} THEN S[e.inner[Min(F)]] ELSE nil.typ
  BY SearchFacts DEF Matched
<1>2. F = {i \in DOMAIN e.inner : S[e.inner[i]] # nil.typ}
  BY DEF Found
<1>3. ASSUME NEW q \in IndexPaths, At(e, q).typ \in types
      PROVE  /\ q # <<>> /\ q[1] \in F /\ Tail(q) \in IndexPaths
             /\ At(e.inner[q[1]], Tail(q)).typ \in types
  <2>1. /\ q # <<>> /\ q[1] \in DOMAIN e.inner /\ Tail(q) \in IndexPaths
        /\ At(e, q) = At(e.inner[q[1]], Tail(q))
    BY <1>3, FirstStep
  <2>2. IsFirst(e.inner[q[1]], depth, types)
    BY <2>1
  <2>3. S[e.inner[q[1]]] # nil.typ
    BY <1>3, <2>1, <2>2 DEF IsFirst
  <2> QED BY <1>2, <1>3, <2>1, <2>3
<1> HIDE DEF S, F
<1>4. CASE F = {}
  <2>1. S[e] = nil.typ
    BY <1>1, <1>4
  <2> QED BY <1>3, <1>4, <2>1 DEF IsFirst, S
<1>5. CASE F # {}
  <2> DEFINE i == Min(F)
             x == e.inner[i]
  <2>1. F \subseteq Nat
    BY <1>2, IndexFacts
  <2>2. i \in F /\ \A j \in F : i <= j
    BY <1>5, <2>1, MinIn
  <2>3. i \in DOMAIN e.inner /\ i \in Indices /\ S[x] # nil.typ /\ S[e] = S[x]
    BY <1>1, <1>2, <1>5, <2>2, IndexFacts
  <2>4. x \in Errors /\ depth[x] < depth[e] /\ IsFirst(x, depth, types)
    BY <2>3
  <2> HIDE DEF i, x
  <2>5. S[x] \in types
    BY <2>3, <2>4 DEF IsFirst, S
  <2>6. PICK p \in IndexPaths :
           /\ Len(p) <= depth[x] /\ At(x, p).typ = S[x]
           /\ \A q \in IndexPaths : At(x, q).typ \in types => ~Before(q, p)
    BY <2>3, <2>4 DEF IsFirst, S
  <2> DEFINE r == <<i>> \o p
  <2>7. /\ r \in IndexPaths /\ r # <<>> /\ Len(r) = Len(p) + 1 /\ r[1] = i /\ Tail(r) = p
        /\ r \in Seq(Nat) /\ Len(p) \in Nat
    <3>1. p \in Seq(Indices)
      BY DEF IndexPaths
    <3>2. /\ r \in Seq(Indices) /\ r # <<>> /\ Len(r) = Len(p) + 1 /\ r[1] = i
          /\ Len(p) \in Nat
      BY <2>3, <3>1
    <3>3. Tail(r) = p
      BY <2>3, <3>1
    <3> QED BY <3>2, <3>3, IndexFacts DEF IndexPaths
  <2> HIDE DEF r
  <2>8. At(e, r) = At(x, p)
    <3>1. At(e, r) = At(Into(e, i), p)
      BY <2>7, AtFacts
    <3> QED BY <2>3, <3>1 DEF Into, x
  <2>9. Len(r) <= depth[e]
    BY <2>4, <2>6, <2>7, BoundsAssumption
  <2>10. ASSUME NEW q \in IndexPaths, At(e, q).typ \in types, Before(q, r) PROVE FALSE
    <3>1. /\ q # <<>> /\ q[1] \in F /\ Tail(q) \in IndexPaths
          /\ At(e.inner[q[1]], Tail(q)).typ \in types /\ q \in Seq(Nat)
      BY <1>3, <2>10, IndexFacts
    <3>2. q[1] < r[1] \/ (q[1] = r[1] /\ Before(Tail(q), Tail(r)))
      BY <2>7, <2>10, <3>1, BeforeFacts
    <3>3. i <= q[1] /\ i \in Nat /\ q[1] \in Nat
      BY <2>1, <2>2, <3>1
    <3>6. ~ (q[1] < r[1])
      BY <2>7, <3>3
    <3>7. q[1] = r[1] /\ Before(Tail(q), Tail(r))
      BY <3>2, <3>6
    <3>4. q[1] = i /\ Before(Tail(q), p)
      BY <2>7, <3>7
    <3>5. At(x, Tail(q)).typ \in types
      BY <3>1, <3>4 DEF x
    <3> QED BY <2>6, <3>1, <3>4, <3>5
  <2> QED BY <2>3, <2>5, <2>6, <2>7, <2>8, <2>9, <2>10 DEF IsFirst, S
<1> QED BY <1>4, <1>5

(* So it is of every error.                                                 *)
LEMMA FirstFacts ==
    ASSUME NEW types, nil.typ \notin types
    PROVE  \E depth \in [Errors -> 0..MaxDepth] :
              \A e \in Errors : IsFirst(e, depth, types)
<1>1. PICK depth \in [Errors -> 0..MaxDepth] :
         \A e \in Errors : \A i \in DOMAIN e.inner :
            e.inner[i] \in Errors /\ depth[e.inner[i]] < depth[e]
  BY TreeFacts
<1> DEFINE S == {n \in Nat : \A e \in Errors : depth[e] < n => IsFirst(e, depth, types)}
<1>2. 0 \in S
  BY BoundsAssumption
<1>3. ASSUME NEW n \in Nat, n \in S PROVE n + 1 \in S
  <2> SUFFICES ASSUME NEW e \in Errors, depth[e] < n + 1 PROVE IsFirst(e, depth, types)
    OBVIOUS
  <2>1. ASSUME NEW i \in DOMAIN e.inner PROVE IsFirst(e.inner[i], depth, types)
    <3>1. e.inner[i] \in Errors /\ depth[e.inner[i]] < n
      BY <1>1, BoundsAssumption
    <3> QED BY <1>3, <3>1
  <2>2. CASE e.typ \in types
    BY <2>2, FirstItself
  <2>3. CASE e.typ \notin types
    BY <1>1, <2>1, <2>3, FirstWithin
  <2> QED BY <2>2, <2>3
<1>4. MaxDepth + 1 \in S
  <2> HIDE DEF S
  <2>1. Nat \subseteq S
    BY <1>2, <1>3, NatSet
  <2> QED BY <2>1, BoundsAssumption
<1>5. \A e \in Errors : depth[e] < MaxDepth + 1
  BY BoundsAssumption
<1> QED BY <1>4, <1>5

(* What is sent for an error. *)

(* The paths of the reference are long enough for every error.              *)
LEMMA PathFacts ==
    ASSUME NEW types, nil.typ \notin types, NEW err \in Errors
    PROVE  LET t == matchError(err, types)
           IN  /\ t = nil.typ => \A q \in Paths : At(err, q).typ \notin types
               /\ t # nil.typ => /\ t \in types
                                 /\ \E p \in Paths :
                                       /\ At(err, p).typ = t
                                       /\ \A q \in Paths :
                                             At(err, q).typ \in types => ~Before(q, p)
<1> DEFINE t == matchError(err, types)
<1>1. PICK depth \in [Errors -> 0..MaxDepth] : IsFirst(err, depth, types)
  BY FirstFacts
<1>2. t = Search(types)[err]
  BY SearchIs
<1>3. Paths = UNION {[1..m -> Indices] : m \in 0..MaxDepth}
  BY DEF Paths, BoundedSeq, SeqOf, Indices
<1>4. Paths \subseteq IndexPaths
  <2> SUFFICES ASSUME NEW m \in 0..MaxDepth, NEW p \in [1..m -> Indices] PROVE p \in Seq(Indices)
    BY <1>3 DEF IndexPaths
  <2> HIDE DEF Indices
  <2>1. m \in Nat
    BY BoundsAssumption
  <2> QED BY <2>1
<1>5. ASSUME NEW p \in IndexPaths, Len(p) <= depth[err] PROVE p \in Paths
  <2> HIDE DEF Indices
  <2>1. Len(p) \in Nat /\ p \in [1..Len(p) -> Indices]
    BY DEF IndexPaths
  <2>2. Len(p) \in 0..MaxDepth
    BY <1>5, <2>1, BoundsAssumption
  <2> QED BY <1>3, <2>1, <2>2
<1> HIDE DEF t
<1>6. t = nil.typ => \A q \in Paths : At(err, q).typ \notin types
  BY <1>1, <1>2, <1>4 DEF IsFirst
<1>7. ASSUME t # nil.typ
      PROVE  /\ t \in types
             /\ \E p \in Paths : /\ At(err, p).typ = t
                                 /\ \A q \in Paths : At(err, q).typ \in types => ~Before(q, p)
  BY <1>1, <1>2, <1>4, <1>5, <1>7 DEF IsFirst
<1> QED BY <1>6, <1>7 DEF t

(* A lookup has the declared types, each with the status of its last        *)
(* declaration.                                                             *)
LastDeclared(es, lookup) ==
    /\ DOMAIN lookup = {es[i].typ : i \in DOMAIN es}
    /\ nil.typ \notin DOMAIN lookup /\ "Resp" \notin DOMAIN lookup
    /\ \A t \in DOMAIN lookup : \E i \in DOMAIN es :
          /\ es[i].typ = t /\ lookup[t] = es[i].status /\ lookup[t] \in 200..999
          /\ \A j \in DOMAIN es : es[j].typ = t => j <= i

(* buildErrorLookup keeps the last declaration of each type.               *)
LEMMA LookupFacts ==
    ASSUME NEW r \in Routes
    PROVE  LastDeclared(r.errors, buildErrorLookup(r.errors))
<1> DEFINE es == r.errors
           lookup == buildErrorLookup(es)
<1>1. /\ es \in Seq(Range(es)) /\ Len(es) \in Nat /\ DOMAIN es = 1..Len(es)
      /\ \A i \in DOMAIN es : es[i].status \in 200..999 /\ es[i].typ \notin {nil.typ, "Resp"}
  <2>1. /\ es \in Seq(Range(es))
        /\ \A e \in Range(es) : e.status \in 200..999 /\ e.typ \notin {nil.typ, "Resp"}
    BY RoutesAssumption
  <2> HIDE DEF es
  <2>2. \A i \in DOMAIN es : es[i] \in Range(es)
    BY DEF Range
  <2>3. Len(es) \in Nat /\ DOMAIN es = 1..Len(es)
    BY <2>1
  <2> QED BY <2>1, <2>2, <2>3
<1>2. /\ DOMAIN lookup = {es[i].typ : i \in DOMAIN es}
      /\ \A t \in DOMAIN lookup : lookup[t] = es[Max({i \in DOMAIN es : es[i].typ = t})].status
  BY DEF buildErrorLookup
<1> HIDE DEF es, lookup
<1>3. ASSUME NEW t \in DOMAIN lookup
      PROVE  \E i \in DOMAIN es :
                /\ es[i].typ = t /\ lookup[t] = es[i].status /\ lookup[t] \in 200..999
                /\ \A j \in DOMAIN es : es[j].typ = t => j <= i
  <2> DEFINE S == {i \in DOMAIN es : es[i].typ = t}
  <2>1. S \in SUBSET (1..Len(es)) /\ S # {}
    BY <1>1, <1>2
  <2>2. Max(S) \in S /\ \A j \in S : j <= Max(S)
    <3>1. Len(es) \in Nat
      BY <1>1
    <3> HIDE DEF S
    <3> QED BY <2>1, <3>1, MaxIn
  <2>3. lookup[t] = es[Max(S)].status
    BY <1>2
  <2> DEFINE i == Max(S)
  <2>4. i \in DOMAIN es /\ es[i].typ = t /\ lookup[t] = es[i].status
    BY <2>2, <2>3
  <2>5. \A j \in DOMAIN es : es[j].typ = t => j <= i
    BY <2>2
  <2> HIDE DEF i
  <2> QED BY <1>1, <2>4, <2>5
<1>4. nil.typ \notin DOMAIN lookup /\ "Resp" \notin DOMAIN lookup
  BY <1>1, <1>2
<1>5. LastDeclared(es, lookup)
  BY <1>2, <1>3, <1>4 DEF LastDeclared
<1> QED BY <1>5 DEF es, lookup

(* The response that is resolved for an error reports it.                   *)
LEMMA ResolveReports ==
    ASSUME route \in Routes, NEW err \in Errors, NEW r,
           r.status = resolveError(err, buildErrorLookup(route.errors)).status,
           r.body = <<Json(resolveError(err, buildErrorLookup(route.errors)).schema)>>
    PROVE  Reports(r, err)
<1> DEFINE lookup == buildErrorLookup(route.errors)
           v == matchError(err, {"ValidationError"})
           t == matchError(err, DOMAIN lookup)
           known == {route.errors[i].typ : i \in DOMAIN route.errors}
           hits == {p \in Paths : At(err, p).typ \in known}
           e == resolveError(err, lookup)
<1>1. nil.typ \notin {"ValidationError"}
  BY DEF nil
<1>2. /\ v = nil.typ => \A q \in Paths : At(err, q).typ # "ValidationError"
      /\ v # nil.typ => \E p \in Paths : At(err, p).typ = "ValidationError"
  BY <1>1, PathFacts
<1>3. /\ DOMAIN lookup = known /\ nil.typ \notin DOMAIN lookup
      /\ \A x \in DOMAIN lookup : \E i \in DOMAIN route.errors :
            /\ route.errors[i].typ = x /\ lookup[x] = route.errors[i].status
            /\ \A j \in DOMAIN route.errors : route.errors[j].typ = x => j <= i
  <2>1. LastDeclared(route.errors, lookup)
    BY LookupFacts
  <2> HIDE DEF lookup
  <2> QED BY <2>1 DEF LastDeclared
<1>4. /\ t = nil.typ => \A q \in Paths : At(err, q).typ \notin DOMAIN lookup
      /\ t # nil.typ => /\ t \in DOMAIN lookup
                        /\ \E p \in Paths :
                              /\ At(err, p).typ = t
                              /\ \A q \in Paths :
                                    At(err, q).typ \in DOMAIN lookup => ~Before(q, p)
  BY <1>3, PathFacts
<1>5. e = IF v # nil.typ THEN [status |-> 422, schema |-> "ValidationError"]
          ELSE IF t # nil.typ THEN [status |-> lookup[t], schema |-> t]
          ELSE [status |-> 500, schema |-> "InternalServerError"]
  BY DEF resolveError
<1>6. r.status = e.status /\ r.body = <<Json(e.schema)>>
  OBVIOUS
<1> HIDE DEF lookup, v, t, e
<1>7. CASE v # nil.typ
  <2>1. \E p \in Paths : At(err, p).typ = "ValidationError"
    BY <1>2, <1>7
  <2>2. r.status = 422 /\ r.body = <<Json("ValidationError")>>
    BY <1>5, <1>6, <1>7
  <2> QED BY <2>1, <2>2 DEF Reports
<1>8. CASE v = nil.typ /\ t = nil.typ
  <2>1. ~ \E p \in Paths : At(err, p).typ = "ValidationError"
    BY <1>2, <1>8
  <2>2. hits = {}
    BY <1>3, <1>4, <1>8
  <2>3. r.status = 500 /\ r.body = <<Json("InternalServerError")>>
    BY <1>5, <1>6, <1>8
  <2> QED BY <2>1, <2>2, <2>3 DEF Reports
<1>9. CASE v = nil.typ /\ t # nil.typ
  <2>1. ~ \E p \in Paths : At(err, p).typ = "ValidationError"
    BY <1>2, <1>9
  <2>2. PICK p \in Paths : /\ At(err, p).typ = t /\ t \in DOMAIN lookup
                           /\ \A q \in Paths : At(err, q).typ \in known => ~Before(q, p)
    BY <1>3, <1>4, <1>9
  <2>3. PICK i \in DOMAIN route.errors :
           /\ route.errors[i].typ = t /\ lookup[t] = route.errors[i].status
           /\ \A j \in DOMAIN route.errors : route.errors[j].typ = t => j <= i
    BY <1>3, <2>2
  <2>4. r.status = route.errors[i].status /\ r.body = <<Json(t)>>
    BY <1>5, <1>6, <1>9, <2>3
  <2>5. p \in hits /\ \A q \in hits : ~Before(q, p)
    BY <1>3, <2>2
  <2>6. \E x \in hits, k \in DOMAIN route.errors :
           /\ \A q \in hits : ~Before(q, x)
           /\ route.errors[k].typ = At(err, x).typ
           /\ \A j \in DOMAIN route.errors : route.errors[j].typ = At(err, x).typ => j <= k
           /\ r.status = route.errors[k].status /\ r.body = <<Json(At(err, x).typ)>>
    BY <2>2, <2>3, <2>4, <2>5
  <2> QED BY <2>1, <2>5, <2>6 DEF Reports
<1> QED BY <1>7, <1>8, <1>9

(* A status and a schema that the document of this route has together, or   *)
(* a schema that no document has.                                           *)
Documented(status, schema) ==
    \/ /\ status \in DOMAIN documentedErrors(route)
       /\ SharedStatus(status) \/ documentedErrors(route)[status] = schema
    \/ \E i \in DOMAIN route.errors : route.errors[i].typ = schema /\ schema \notin Structs

(* Every route documents 400, 422 and 500.                                 *)
LEMMA BuiltInFacts ==
    /\ DOMAIN BuiltIn = {400, 422, 500}
    /\ BuiltIn[400] = "BadRequestError" /\ BuiltIn[422] = "ValidationError"
    /\ BuiltIn[500] = "InternalServerError"
BY DEF BuiltIn

(* A built-in status has its schema, unless an error is declared with it.   *)
LEMMA BuiltInDocumented ==
    ASSUME NEW s \in {400, 422, 500}
    PROVE  Documented(s, BuiltIn[s])
<1> DEFINE named == {i \in DOMAIN route.errors : route.errors[i].typ \in Structs}
           Declared == {i \in named : route.errors[i].status = s}
<1>1. s \in DOMAIN documentedErrors(route) /\ s \in DOMAIN BuiltIn
  BY BuiltInFacts DEF documentedErrors
<1>2. CASE Declared = {}
  <2>1. documentedErrors(route)[s] = BuiltIn[s]
    BY <1>1, <1>2 DEF documentedErrors
  <2> QED BY <1>1, <2>1 DEF Documented
<1>3. CASE Declared # {}
  BY <1>1, <1>3 DEF Documented, SharedStatus
<1> QED BY <1>2, <1>3

(* The status of a struct type has the schema of the last declaration;      *)
(* that is the only one unless types share the status.                      *)
LEMMA DeclaredDocumented ==
    ASSUME route \in Routes, NEW i \in DOMAIN route.errors
    PROVE  Documented(route.errors[i].status, route.errors[i].typ)
<1> DEFINE es == route.errors
           s == es[i].status
           named == {j \in DOMAIN es : es[j].typ \in Structs}
           S == {j \in named : es[j].status = s}
<1>1. Len(es) \in Nat /\ DOMAIN es = 1..Len(es)
  <2>1. es \in Seq(Range(es))
    BY RoutesAssumption
  <2> QED BY <2>1
<1>0. CASE es[i].typ \notin Structs
  BY <1>0 DEF Documented
<1>a. CASE es[i].typ \in Structs
  <2>1. i \in named /\ i \in S
    BY <1>a
  <2>2. s \in DOMAIN documentedErrors(route)
    BY <2>1 DEF documentedErrors
  <2>3. documentedErrors(route)[s] = IF S # {} THEN es[Max(S)].typ ELSE BuiltIn[s]
    BY <2>2 DEF documentedErrors
  <2>4. S \in SUBSET (1..Len(es)) /\ S # {}
    BY <1>1, <2>1
  <2>5. Max(S) \in S
    BY <1>1, <2>4, MaxIn
  <2> DEFINE m == Max(S)
  <2>6. documentedErrors(route)[s] = es[m].typ
    BY <2>3, <2>4
  <2>7. m \in DOMAIN es /\ es[m].typ \in Structs /\ es[m].status = s
    BY <2>5
  <2> HIDE DEF m, S
  <2>8. es[m].typ # es[i].typ => SharedStatus(s)
    BY <1>a, <2>7 DEF SharedStatus
  <2> QED BY <2>2, <2>6, <2>8 DEF Documented
<1> QED BY <1>0, <1>a

(* What an error is resolved to is a response of the document.              *)
LEMMA ResolveFacts ==
    ASSUME route \in Routes, NEW err \in Errors
    PROVE  LET e == resolveError(err, buildErrorLookup(route.errors))
           IN  e.status \in 200..999 /\ e.schema # "Resp" /\ Documented(e.status, e.schema)
<1> DEFINE lookup == buildErrorLookup(route.errors)
           v == matchError(err, {"ValidationError"})
           t == matchError(err, DOMAIN lookup)
           e == resolveError(err, lookup)
<1>1. LastDeclared(route.errors, lookup)
  BY LookupFacts
<1>2. nil.typ \notin DOMAIN lookup
  BY <1>1 DEF LastDeclared
<1>3. t # nil.typ => t \in DOMAIN lookup
  BY <1>2, PathFacts
<1>4. e = IF v # nil.typ THEN [status |-> 422, schema |-> "ValidationError"]
          ELSE IF t # nil.typ THEN [status |-> lookup[t], schema |-> t]
          ELSE [status |-> 500, schema |-> "InternalServerError"]
  BY DEF resolveError
<1> HIDE DEF lookup, v, t, e
<1>5. CASE v # nil.typ
  <2>1. e.status = 422 /\ e.schema = "ValidationError"
    BY <1>4, <1>5
  <2>2. Documented(422, "ValidationError")
    BY BuiltInDocumented, BuiltInFacts
  <2> QED BY <2>1, <2>2 DEF e, lookup
<1>6. CASE v = nil.typ /\ t # nil.typ
  <2>1. e.status = lookup[t] /\ e.schema = t /\ t \in DOMAIN lookup
    BY <1>3, <1>4, <1>6
  <2>2. PICK i \in DOMAIN route.errors :
           route.errors[i].typ = t /\ lookup[t] = route.errors[i].status /\ lookup[t] \in 200..999
    BY <1>1, <2>1 DEF LastDeclared
  <2>3. Documented(route.errors[i].status, route.errors[i].typ)
    BY DeclaredDocumented
  <2>4. t # "Resp"
    BY <1>1, <2>1 DEF LastDeclared
  <2>5. Documented(lookup[t], t) /\ lookup[t] \in 200..999
    BY <2>2, <2>3
  <2>6. e.status \in 200..999 /\ e.schema # "Resp" /\ Documented(e.status, e.schema)
    BY <2>1, <2>4, <2>5
  <2> QED BY <2>6 DEF e, lookup
<1>7. CASE v = nil.typ /\ t = nil.typ
  <2>1. e.status = 500 /\ e.schema = "InternalServerError"
    BY <1>4, <1>7
  <2>2. Documented(500, "InternalServerError")
    BY BuiltInDocumented, BuiltInFacts
  <2> QED BY <2>1, <2>2 DEF e, lookup
<1> QED BY <1>5, <1>6, <1>7

-----------------------------------------------------------------------------
(* The answers. *)

(* The answer of a wrapper follows from what user code left: the headers    *)
(* set so far, and whether user code began the response, by an event, by    *)
(* bytes or by a status of its own.                                         *)
Own == IF started THEN StreamHeaders ELSE {}

WaysInv ==
    /\ route \in Routes /\ Registrable(route)
    /\ pc # "done" => failure = nil
    /\ pc = "parse" => header.names = {}
    /\ pc = "user" =>
          /\ header.names = IF route.kind = "json" THEN {} ELSE route.static \cup Own
          /\ resp.status # 0 => resp.header.names = route.static \cup Own
          /\ route.kind = "sse" /\ written => started
    /\ written => resp.status # 0
    /\ written /\ up /\ ~bypassed =>
          \/ Has(resp.body, "event") \/ Has(resp.body, "raw")
          \/ resp.status = 206 /\ resp.body = <<>>

AnswerInv == RespInv /\ WaysInv /\ ErrorsReported /\ ResponsesDocumented

(* Nothing is answered before the request is parsed.                       *)
LEMMA InitAnswerInv == Init => AnswerInv
<1> SUFFICES ASSUME Init PROVE AnswerInv
  OBVIOUS
<1>1. RespInv
  BY InitRespInv
<1>2. /\ pc = "parse" /\ failure = nil /\ ~written /\ route \in Routes /\ Registrable(route)
      /\ header.names = {} /\ resp.body = <<>>
  BY DEF Init
<1>3. ~Refuses
  BY <1>2 DEF Refuses
<1> QED BY <1>1, <1>2, <1>3 DEF AnswerInv, WaysInv, ErrorsReported, ResponsesDocumented

(* JSON follows what was written; the first to write decides the rest.      *)
LEMMA JsonAnswers ==
    ASSUME RespInv, NEW status, NEW h, h = [type |-> h.type, names |-> h.names],
           NEW units, writeJSON(status, h, units)
    PROVE  /\ resp'.body = resp.body \o units
           /\ resp.status = 0 /\ status # 0 =>
                 resp'.status = status /\ resp'.header.names = h.names
<1> DEFINE b  == resp.body
           h2 == [h EXCEPT !.type = "json"]
           c  == Commit(resp, status, h2)
<1>1. Response(resp, b)
  BY DEF RespInv, Shapes
<1>2. h2.names = h.names
  <2> DEFINE t == h.type
             n == h.names
  <2>1. h = [type |-> t, names |-> n]
    OBVIOUS
  <2> HIDE DEF t, n
  <2>2. [h EXCEPT !.type = "json"] = [type |-> "json", names |-> n]
    BY <2>1
  <2> QED BY <2>2 DEF n
<1>3. resp' = Write(c, h2, units)
  BY DEF writeJSON
<1> HIDE DEF h2
<1>4. /\ Response(c, b) /\ c.status = IF resp.status = 0 THEN status ELSE resp.status
      /\ c.header = IF resp.status = 0 THEN h2 ELSE resp.header
  BY <1>1, CommitFacts
<1> HIDE DEF b, c
<1>5. /\ resp'.body = b \o units
      /\ resp'.status = IF c.status = 0 THEN 200 ELSE c.status
      /\ resp'.header = IF c.status = 0 THEN h2 ELSE c.header
  BY <1>3, <1>4, WriteFacts
<1>6. ASSUME resp.status = 0, status # 0
      PROVE  resp'.status = status /\ resp'.header.names = h.names
  <2>1. c.status = status /\ c.header = h2 /\ status # 0
    BY <1>4, <1>6
  <2>2. resp'.status = status /\ resp'.header = h2
    BY <1>5, <2>1
  <2> QED BY <1>2, <2>2
<1> QED BY <1>5, <1>6 DEF b

(* A body that ends in the JSON of an error refuses.                        *)
LEMMA ErrorRefuses ==
    ASSUME NEW S, resp.body \in Seq(S), NEW schema, schema # "Resp",
           resp'.body = resp.body \o <<Json(schema)>>
    PROVE  Refuses'
<1> DEFINE b == resp.body
           x == Json(schema)
           n == Len(b) + 1
<1>1. x.u = "json" /\ x.v # "Resp"
  BY DEF Json, Piece
<1> HIDE DEF x, b
<1>2. n \in DOMAIN (b \o <<x>>) /\ (b \o <<x>>)[n] = x
  <2>1. b \in Seq(S)
    BY DEF b
  <2> QED BY <2>1
<1>3. resp'.body = b \o <<x>>
  BY DEF x, b
<1> HIDE DEF n
<1> QED BY <1>1, <1>2, <1>3 DEF Refuses

(* An answer with an error of the document, alone in its response.          *)
LEMMA ErrorDocumented ==
    ASSUME NEW schema, schema # "Resp", resp'.body = <<Json(schema)>>,
           Documented(resp'.status, schema), route' = route
    PROVE  ResponsesDocumented'
<1> DEFINE x == Json(schema)
<1>1. x.u = "json" /\ x.v = schema
  BY DEF Json, Piece
<1>2. resp'.body = <<x>>
  OBVIOUS
<1> HIDE DEF x
<1>3. resp'.body[1] = x /\ 1 \in DOMAIN (resp'.body)
  BY <1>2
<1>4. Refuses'
  BY <1>1, <1>3 DEF Refuses
<1> QED BY <1>1, <1>3, <1>4 DEF ResponsesDocumented, Documented, SharedStatus

(* An error is answered as it is resolved, if user code did not begin.      *)
LEMMA ErrorAnswered ==
    ASSUME RespInv, WaysInv, NEW err \in Errors, handleError(err), ~written, pc # "done",
           route' = route, bypassed' = bypassed
    PROVE  /\ ResponsesDocumented'
           /\ ~bypassed => Reports(resp, err)'
<1> DEFINE e == resolveError(err, buildErrorLookup(route.errors))
<1>1. e.status # 0 /\ e.schema # "Resp" /\ Documented(e.status, e.schema)
  <2>1. e.status \in 200..999 /\ e.schema # "Resp" /\ Documented(e.status, e.schema)
    BY ResolveFacts DEF WaysInv
  <2> HIDE DEF e
  <2> QED BY <2>1
<1>2. writeJSON(e.status, header, <<Json(e.schema)>>)
  BY DEF handleError
<1>3. header = [type |-> header.type, names |-> header.names] /\ resp.body \in Seq(Units(route))
  BY DEF RespInv, Shapes
<1>4. /\ resp'.body = resp.body \o <<Json(e.schema)>>
      /\ resp.status = 0 => resp'.status = e.status
  <2> DEFINE units  == <<Json(e.schema)>>
             status == e.status
  <2>1. writeJSON(status, header, units) /\ status # 0
    BY <1>1, <1>2
  <2> HIDE DEF e, units, status
  <2>2. resp'.body = resp.body \o units /\ (resp.status = 0 => resp'.status = status)
    BY <1>3, <2>1, JsonAnswers
  <2> QED BY <2>2 DEF units, status
<1>5. CASE bypassed
  <2>1. Refuses'
    <3> HIDE DEF e
    <3> QED BY <1>1, <1>3, <1>4, ErrorRefuses
  <2> QED BY <1>5, <2>1 DEF ResponsesDocumented
<1>6. CASE ~bypassed
  <2>1. resp.status = 0 /\ resp.body = <<>>
    BY <1>6 DEF RespInv, BeforeEnd, Untouched
  <2>2. resp'.status = e.status /\ resp'.body = <<Json(e.schema)>>
    <3> HIDE DEF e
    <3> QED BY <1>4, <2>1
  <2>3. ResponsesDocumented'
    <3> HIDE DEF e
    <3> QED BY <1>1, <2>2, ErrorDocumented
  <2>4. Reports(resp', err)
    <3> DEFINE r == resp'
    <3>1. r.status = e.status /\ r.body = <<Json(e.schema)>>
      BY <2>2
    <3> HIDE DEF r
    <3>2. Reports(r, err)
      BY <3>1, ResolveReports DEF WaysInv
    <3> QED BY <3>2 DEF r
  <2>5. Reports(resp, err)'
    BY <2>4 DEF Reports
  <2> QED BY <2>3, <2>5
<1> QED BY <1>5, <1>6

(* A rejected input is an error of the document.                            *)
LEMMA RejectAnswers == AnswerInv /\ RejectInput => AnswerInv'
<1> SUFFICES ASSUME AnswerInv, RejectInput PROVE AnswerInv'
  OBVIOUS
<1>1. /\ pc = "parse" /\ pc' = "done"
      /\ UNCHANGED <<route, up, written, bypassed, failure>>
  BY DEF RejectInput
<1>2. RespInv' /\ RespInv /\ WaysInv
  BY RejectKeeps DEF AnswerInv
<1>3. ~written /\ ~bypassed /\ resp.status = 0 /\ resp.body = <<>> /\ failure = nil
  BY <1>1, <1>2 DEF RespInv, BeforeEnd, Untouched, WaysInv
<1>4. ResponsesDocumented'
  <2>1. CASE writeJSON(400, header, <<Json("BadRequestError")>>)
    <3> DEFINE units == <<Json("BadRequestError")>>
    <3>1. writeJSON(400, header, units)
      BY <2>1
    <3>2. header = [type |-> header.type, names |-> header.names]
      BY <1>2 DEF RespInv, Shapes
    <3> HIDE DEF units
    <3>3. resp'.body = resp.body \o units /\ resp'.status = 400
      <4>1. 400 \in 200..999
        OBVIOUS
      <4> DEFINE status == 400
      <4>2. writeJSON(status, header, units) /\ status # 0
        BY <3>1, <4>1
      <4> HIDE DEF status
      <4>3. resp'.body = resp.body \o units /\ (resp.status = 0 => resp'.status = status)
        BY <1>2, <3>2, <4>2, JsonAnswers
      <4> QED BY <1>3, <4>3 DEF status
    <3>4. resp'.body = <<Json("BadRequestError")>> /\ Documented(resp'.status, "BadRequestError")
      BY <1>3, <3>3, BuiltInDocumented, BuiltInFacts DEF units
    <3> QED BY <1>1, <3>4, ErrorDocumented
  <2>2. ASSUME NEW err \in {InvalidInput, NotAStruct}, handleError(err)
        PROVE  ResponsesDocumented'
    BY <1>1, <1>2, <1>3, <2>2, ErrorAnswered, ErrorsAssumption
  <2> QED BY <2>1, <2>2 DEF RejectInput
<1>5. WaysInv'
  BY <1>1, <1>2, <1>3 DEF WaysInv
<1>6. ErrorsReported'
  BY <1>1, <1>3 DEF ErrorsReported
<1> QED BY <1>2, <1>4, <1>5, <1>6 DEF AnswerInv

(* The headers of the document, and those that must be there.               *)
LEMMA HeaderFacts ==
    ASSUME NEW r
    PROVE  /\ DOMAIN documentedHeaders(r) = r.static \cup {f.name : f \in HeaderFields(r)}
           /\ \A n \in DOMAIN documentedHeaders(r) :
                 documentedHeaders(r)[n] =>
                    n \in r.static \/ \E f \in HeaderFields(r) : f.name = n /\ ~f.pointer
<1> DEFINE fields == generateRespHeaders(r)
<1>1. /\ DOMAIN fields = {f.name : f \in HeaderFields(r)}
      /\ \A n \in DOMAIN fields :
            fields[n] => \E f \in HeaderFields(r) : f.name = n /\ ~f.pointer
  BY DEF generateRespHeaders
<1>2. documentedHeaders(r) =
         [n \in r.static \cup DOMAIN fields |-> n \in r.static \/ fields[n]]
  BY DEF documentedHeaders
<1> HIDE DEF fields
<1>3. DOMAIN documentedHeaders(r) = r.static \cup DOMAIN fields
  BY <1>2
<1>4. ASSUME NEW n \in DOMAIN documentedHeaders(r), documentedHeaders(r)[n], n \notin r.static
      PROVE  n \in DOMAIN fields /\ fields[n]
  BY <1>2, <1>3, <1>4, Zenon
<1> QED BY <1>1, <1>3, <1>4

(* Raw handlers and streams have the static headers.                        *)
LEMMA StaticDocumented ==
    ASSUME route \in Routes, route.kind # "json", route' = route,
           resp'.header.names = route.static \cup Own', ~Has(resp'.body, "json")
    PROVE  ResponsesDocumented'
<1>1. HeaderFields(route) = {}
  BY RoutesAssumption DEF HeaderFields
<1>2. ~Refuses' /\ ~Wrote("json")'
  BY DEF Refuses, Has, Wrote
<1>3. /\ DOMAIN documentedHeaders(route) = route.static
  BY <1>1, HeaderFacts
<1>4. ResponsesDocumented'
  BY <1>2, <1>3, HeaderFacts DEF ResponsesDocumented, Own
<1> QED BY <1>4

(* Static headers belong to the document.                                   *)
LEMMA AcceptAnswers == AnswerInv /\ AcceptInput => AnswerInv'
<1> SUFFICES ASSUME AnswerInv, AcceptInput PROVE AnswerInv'
  OBVIOUS
<1>1. /\ pc = "parse" /\ pc' = "user"
      /\ UNCHANGED <<route, up, resp, written, started, bypassed, failure>>
      /\ header' = IF route.kind = "json" THEN header
                   ELSE [header EXCEPT !.names = @ \cup route.static]
  BY DEF AcceptInput
<1>2. RespInv' /\ RespInv /\ WaysInv
  BY AcceptKeeps DEF AnswerInv
<1>3. /\ ~written /\ ~bypassed /\ resp.status = 0 /\ resp.body = <<>> /\ failure = nil
      /\ header.names = {} /\ ~started
  BY <1>1, <1>2 DEF RespInv, BeforeEnd, Untouched, WaysInv
<1>4. header'.names = IF route.kind = "json" THEN {} ELSE route.static
  <2>1. header = [type |-> header.type, names |-> {}]
    BY <1>2, <1>3 DEF RespInv, Shapes
  <2> DEFINE t == header.type
             s == route.static
  <2>2. header = [type |-> t, names |-> {}]
    BY <2>1
  <2> HIDE DEF t
  <2>3. CASE route.kind # "json"
    <3>1. header' = [header EXCEPT !.names = @ \cup s]
      BY <1>1, <2>3
    <3> HIDE DEF s
    <3>2. header'.names = s
      BY <2>2, <3>1
    <3> QED BY <2>3, <3>2 DEF s
  <2> QED BY <1>1, <1>3, <2>3
<1>5. WaysInv'
  BY <1>1, <1>2, <1>3, <1>4 DEF WaysInv, Own
<1>6. ErrorsReported' /\ ResponsesDocumented'
  <2>1. ~Refuses'
    BY <1>1, <1>3 DEF Refuses
  <2> QED BY <1>1, <1>3, <2>1 DEF ErrorsReported, ResponsesDocumented
<1> QED BY <1>2, <1>5, <1>6 DEF AnswerInv

(* net/http completes a response with the static headers, or leaves it.     *)
LEMMA EndAnswers == AnswerInv /\ StreamEnds => AnswerInv'
<1> SUFFICES ASSUME AnswerInv, StreamEnds PROVE AnswerInv'
  OBVIOUS
<1> DEFINE b == resp.body
<1>1. /\ pc = "user" /\ pc' = "done" /\ route.kind # "json" /\ resp' = Commit(resp, 200, header)
      /\ UNCHANGED <<route, up, header, written, started, bypassed, failure>>
  BY DEF StreamEnds
<1>2. RespInv' /\ RespInv /\ WaysInv
  BY EndKeeps DEF AnswerInv
<1>3. Response(resp, b)
  BY <1>2 DEF RespInv, Shapes
<1>4. /\ resp'.body = b /\ resp'.status = IF resp.status = 0 THEN 200 ELSE resp.status
      /\ resp'.header = IF resp.status = 0 THEN header ELSE resp.header
  BY <1>1, <1>3, CommitFacts
<1>5. resp'.header.names = route.static \cup Own'
  BY <1>1, <1>2, <1>4 DEF WaysInv, Own
<1>6. ~Has(resp'.body, "json")
  BY <1>1, <1>2, <1>4 DEF RespInv, BeforeEnd
<1>7. ResponsesDocumented'
  BY <1>1, <1>2, <1>5, <1>6, StaticDocumented DEF WaysInv
<1>8. failure = nil
  BY <1>1, <1>2 DEF WaysInv
<1>9. ErrorsReported'
  BY <1>1, <1>8 DEF ErrorsReported
<1>10. WaysInv'
  <2>1. written => resp'.status # 0
    BY <1>2, <1>4 DEF WaysInv
  <2>2. written /\ up /\ ~bypassed =>
           \/ Has(resp'.body, "event") \/ Has(resp'.body, "raw")
           \/ resp'.status = 206 /\ resp'.body = <<>>
    BY <1>2, <1>4 DEF WaysInv
  <2> QED BY <1>1, <1>2, <1>8, <2>1, <2>2 DEF WaysInv
<1> QED BY <1>2, <1>7, <1>9, <1>10 DEF AnswerInv

(* A success answers with the document's headers and its fields.            *)
LEMMA SuccessDocumented ==
    ASSUME NEW h, NEW set \in SUBSET route.out,
           h.names = route.static \cup {f.name : f \in HeaderFields(route) \cap set},
           \A f \in route.out : ~f.pointer => f \in set,
           route' = route, resp'.header.names = h.names,
           \/ resp'.body = <<>>
           \/ resp'.body = <<encode(route)>> /\ ~isNoBodyStatus(route.status)
    PROVE  ResponsesDocumented'
<1> DEFINE doc == documentedHeaders(route)
           x == encode(route)
<1>1. {n \in DOMAIN doc : doc[n]} \subseteq h.names /\ h.names \subseteq DOMAIN doc
  <2>1. /\ DOMAIN doc = route.static \cup {f.name : f \in HeaderFields(route)}
        /\ \A n \in DOMAIN doc :
              doc[n] => n \in route.static \/ \E f \in HeaderFields(route) : f.name = n /\ ~f.pointer
    BY HeaderFacts
  <2> HIDE DEF doc
  <2>2. \A f \in HeaderFields(route) : f \in route.out
    BY DEF HeaderFields
  <2>3. ASSUME NEW n \in DOMAIN doc, doc[n] PROVE n \in h.names
    <3>1. CASE n \in route.static
      BY <3>1
    <3>2. ASSUME NEW f \in HeaderFields(route), f.name = n, ~f.pointer PROVE n \in h.names
      BY <2>2, <3>2
    <3> QED BY <2>1, <2>3, <3>1, <3>2
  <2> QED BY <2>1, <2>3
<1>2. /\ x.v = "Resp" /\ x.fields = route.out \ HeaderFields(route)
  BY DEF encode, Json, Piece
<1> HIDE DEF x, doc
<1>3. ~Refuses'
  <2>1. \A i \in DOMAIN (resp'.body) : resp'.body[i] = x
    BY DEF x
  <2> QED BY <1>2, <2>1 DEF Refuses
<1>4. Wrote("json")' => resp'.body[1].fields = documentedFields(route)
  <2>1. CASE resp'.body = <<>>
    BY <2>1 DEF Wrote
  <2>2. CASE resp'.body = <<x>> /\ ~isNoBodyStatus(route.status)
    BY <1>2, <2>2 DEF documentedFields, stripRespHeaderFields
  <2> QED BY <2>1, <2>2 DEF x
<1> QED BY <1>1, <1>3, <1>4 DEF ResponsesDocumented, doc

(* A result answers with its own headers and fields, or without a body.     *)
LEMMA SucceedsAnswers == AnswerInv /\ HandlerSucceeds => AnswerInv'
<1> SUFFICES ASSUME AnswerInv, HandlerSucceeds PROVE AnswerInv'
  OBVIOUS
<1>1. /\ pc = "user" /\ pc' = "done" /\ route.kind = "json"
      /\ UNCHANGED <<route, up, written, bypassed, failure>>
  BY DEF HandlerSucceeds
<1>2. RespInv' /\ RespInv /\ WaysInv
  BY SucceedsKeeps DEF AnswerInv
<1>3. resp.status = 0 /\ resp.body = <<>> /\ ~written /\ failure = nil /\ header.names = {}
  BY <1>1, <1>2 DEF RespInv, BeforeEnd, Untouched, WaysInv
<1>3a. route.status # 0
  <2>1. route.status \in 200..999
    BY <1>2, RoutesAssumption DEF WaysInv
  <2> QED BY <2>1
<1>4. PICK set \in SUBSET route.out :
         LET h == writeResponseHeaders(With(header, route.static), set)
         IN  /\ \A f \in route.out : ~f.pointer => f \in set
             /\ IF isNoBodyStatus(route.status)
                THEN resp' = Commit(resp, route.status, h) /\ header' = h
                ELSE \E units \in {<<>>, <<encode(route)>>} : writeJSON(route.status, h, units)
  BY DEF HandlerSucceeds, With
<1> DEFINE h == writeResponseHeaders(With(header, route.static), set)
<1>5. /\ h = [type |-> h.type, names |-> h.names]
      /\ h.names = route.static \cup {f.name : f \in HeaderFields(route) \cap set}
  <2>1. header = [type |-> header.type, names |-> header.names]
    BY <1>2 DEF RespInv, Shapes
  <2>2. /\ h = [type |-> h.type, names |-> h.names]
        /\ h.names = (header.names \cup route.static) \cup Shown(set)
    BY <2>1, SuccessHeader
  <2> HIDE DEF h
  <2>3. header.names \cup route.static = route.static
    BY <1>3
  <2> QED BY <2>2, <2>3 DEF Shown
<1>6. \A f \in route.out : ~f.pointer => f \in set
  BY <1>4
<1>7. IF isNoBodyStatus(route.status)
      THEN resp' = Commit(resp, route.status, h) /\ header' = h
      ELSE \E units \in {<<>>, <<encode(route)>>} : writeJSON(route.status, h, units)
  BY <1>4
<1> HIDE DEF h
<1>9. /\ resp'.header.names = h.names
      /\ \/ resp'.body = <<>>
         \/ resp'.body = <<encode(route)>> /\ ~isNoBodyStatus(route.status)
  <2>1. CASE isNoBodyStatus(route.status)
    <3>1. resp' = Commit(resp, route.status, h)
      BY <1>7, <2>1
    <3> DEFINE b == resp.body
    <3>2. Response(resp, b)
      BY <1>2 DEF RespInv, Shapes
    <3>3. resp'.body = b /\ resp'.header = IF resp.status = 0 THEN h ELSE resp.header
      BY <3>1, <3>2, CommitFacts
    <3> QED BY <1>3, <3>3
  <2>2. CASE ~isNoBodyStatus(route.status)
    <3>1. PICK units \in {<<>>, <<encode(route)>>} : writeJSON(route.status, h, units)
      BY <1>7, <2>2
    <3>2. /\ resp'.body = resp.body \o units
          /\ resp.status = 0 => resp'.header.names = h.names
      <4> DEFINE status == route.status
      <4>1. writeJSON(status, h, units) /\ status # 0
        BY <1>3a, <3>1
      <4>2. h = [type |-> h.type, names |-> h.names]
        BY <1>5
      <4>3. RespInv
        BY <1>2
      <4> HIDE DEF status
      <4>4. resp'.body = resp.body \o units
        BY <4>1, <4>2, <4>3, JsonAnswers
      <4>5. resp.status = 0 => resp'.header.names = h.names
        BY <4>1, <4>2, <4>3, JsonAnswers
      <4> QED BY <4>4, <4>5
    <3> DEFINE x == encode(route)
    <3>3. units \in {<<>>, <<x>>}
      BY <3>1
    <3> HIDE DEF x
    <3>4. <<>> \o units = units
      BY <3>3
    <3> QED BY <1>3, <2>2, <3>2, <3>3, <3>4 DEF x
  <2> QED BY <2>1, <2>2
<1>10. ResponsesDocumented'
  BY <1>1, <1>5, <1>6, <1>9, SuccessDocumented
<1>11. WaysInv'
  BY <1>1, <1>2, <1>3 DEF WaysInv
<1>12. ErrorsReported'
  BY <1>1, <1>3 DEF ErrorsReported
<1> QED BY <1>2, <1>10, <1>11, <1>12 DEF AnswerInv

(* An error is answered, unless user code began; then nothing is added.     *)
LEMMA FailsAnswers == AnswerInv /\ HandlerFails => AnswerInv'
<1> SUFFICES ASSUME AnswerInv, HandlerFails PROVE AnswerInv'
  OBVIOUS
<1>1. /\ pc = "user" /\ pc' = "done"
      /\ UNCHANGED <<route, up, written, started, bypassed>>
  BY DEF HandlerFails
<1>2. RespInv' /\ RespInv /\ WaysInv
  BY FailsKeeps DEF AnswerInv
<1>3. CASE written
  <2>1. UNCHANGED <<header, resp>>
    BY <1>3 DEF HandlerFails
  <2>2. /\ route.kind # "json" /\ resp.status # 0 /\ ~Has(resp.body, "json")
        /\ resp.header.names = route.static \cup Own'
    BY <1>1, <1>2, <1>3 DEF RespInv, BeforeEnd, WaysInv, Own
  <2>3. ResponsesDocumented'
    BY <1>1, <1>2, <2>1, <2>2, StaticDocumented DEF WaysInv
  <2>4. WaysInv'
    BY <1>1, <1>2, <2>1 DEF WaysInv
  <2>5. ErrorsReported'
    BY <1>1, <1>2, <1>3, <2>1, <2>2 DEF ErrorsReported, WaysInv, Has, Wrote
  <2> QED BY <1>2, <2>3, <2>4, <2>5 DEF AnswerInv
<1>4. CASE ~written
  <2>1. PICK err \in Errors : failure' = err /\ handleError(err)
    BY <1>4 DEF HandlerFails
  <2>2. /\ ResponsesDocumented'
        /\ ~bypassed => Reports(resp, err)'
    BY <1>1, <1>2, <1>4, <2>1, ErrorAnswered
  <2>3. WaysInv'
    BY <1>1, <1>2, <1>4 DEF WaysInv
  <2>4. ErrorsReported'
    <3>1. ~bypassed => Reports(resp, failure)'
      BY <2>1, <2>2 DEF Reports
    <3> QED BY <1>1, <3>1 DEF ErrorsReported
  <2> QED BY <1>2, <2>2, <2>3, <2>4 DEF AnswerInv
<1> QED BY <1>3, <1>4

(* While user code runs, nothing is an answer yet.                          *)
LEMMA UserStep ==
    ASSUME AnswerInv, RespInv', pc = "user", pc' = "user",
           UNCHANGED <<route, up, failure>>, route.kind # "json",
           header'.names = route.static \cup Own',
           resp'.status # 0 => resp'.header.names = route.static \cup Own',
           route.kind = "sse" /\ written' => started',
           written' => resp'.status # 0,
           written' /\ up /\ ~bypassed' =>
              \/ Has(resp'.body, "event") \/ Has(resp'.body, "raw")
              \/ resp'.status = 206 /\ resp'.body = <<>>
    PROVE  AnswerInv'
<1>1. WaysInv
  BY DEF AnswerInv
<1>2. WaysInv'
  BY <1>1 DEF WaysInv
<1>3. ~Refuses'
  BY DEF RespInv, BeforeEnd, Has, Refuses
<1>4. ErrorsReported' /\ ResponsesDocumented'
  BY <1>3 DEF ErrorsReported, ResponsesDocumented
<1> QED BY <1>2, <1>4 DEF AnswerInv

(* A raw handler begins with bytes or its status, or bypasses the tracker.  *)
LEMMA RawAnswers == AnswerInv /\ (RawWriteHeader \/ RawWrite \/ RawFlush) => AnswerInv'
<1> SUFFICES ASSUME AnswerInv, RawWriteHeader \/ RawWrite \/ RawFlush PROVE AnswerInv'
  OBVIOUS
<1> DEFINE b == resp.body
<1> DEFINE static == route.static \cup Own
<1>1. /\ pc = "user" /\ pc' = "user" /\ route.kind = "raw"
      /\ UNCHANGED <<route, up, header, started, failure>>
  BY DEF RawWriteHeader, RawWrite, RawFlush, Uses, wrapper
<1>2. RespInv' /\ RespInv /\ WaysInv
  BY RawKeeps DEF AnswerInv
<1>3. Response(resp, b) /\ b \in Seq(Units(route)) /\ header'.names = static
  BY <1>1, <1>2 DEF RespInv, Shapes, WaysInv
<1>4. resp.status # 0 => resp.header.names = static
  BY <1>1, <1>2 DEF WaysInv
<1>4a. static = (route.static \cup Own)'
  BY <1>1 DEF Own
<1> HIDE DEF static
<1>5. CASE RawWriteHeader
  <2>1. resp' = Commit(resp, 206, header) /\ written' /\ bypassed' = bypassed
    BY <1>5 DEF RawWriteHeader, wrapper
  <2>2. /\ resp'.body = b /\ resp'.status = IF resp.status = 0 THEN 206 ELSE resp.status
        /\ resp'.header = IF resp.status = 0 THEN header ELSE resp.header
    BY <1>3, <2>1, CommitFacts
  <2>3. ~written /\ ~bypassed => resp.status = 0 /\ resp.body = <<>>
    BY <1>1, <1>2 DEF RespInv, BeforeEnd, Untouched
  <2>4. up /\ ~bypassed' =>
           \/ Has(resp'.body, "event") \/ Has(resp'.body, "raw")
           \/ resp'.status = 206 /\ resp'.body = <<>>
    BY <1>2, <2>1, <2>2, <2>3 DEF WaysInv
  <2> QED BY <1>1, <1>2, <1>3, <1>4, <1>4a, <2>2, <2>4, UserStep
<1>6. CASE RawWrite
  <2> DEFINE c == <<Piece("raw", "")>>
  <2>1. resp' = Write(resp, header, c) /\ bypassed' = bypassed
    BY <1>6 DEF RawWrite, wrapper
  <2>2. c \in Seq(Units(route)) /\ Has(c, "raw")
    <3> DEFINE x == Piece("raw", "")
    <3>1. x.u = "raw"
      BY DEF Piece
    <3> HIDE DEF x
    <3>2. Has(<<x>>, "raw")
      BY <3>1 DEF Has
    <3> QED BY <3>2, TextFacts DEF x
  <2> HIDE DEF c, b
  <2>3. /\ resp'.body = b \o c /\ resp'.status = IF resp.status = 0 THEN 200 ELSE resp.status
        /\ resp'.header = IF resp.status = 0 THEN header ELSE resp.header
    BY <1>3, <2>1, WriteFacts
  <2>4. Has(resp'.body, "raw")
    BY <1>3, <2>2, <2>3, HasBoth
  <2>5. resp'.status # 0 /\ resp'.header.names = static
    BY <1>1, <1>3, <1>4, <2>3
  <2> QED BY <1>1, <1>2, <1>3, <1>4a, <2>4, <2>5, UserStep
<1>7. CASE RawFlush
  <2>1. bypassed' = (bypassed \/ ~written)
    BY <1>7 DEF RawFlush
  <2>2. resp' = Commit(resp, 200, header) /\ written' = written
    BY <1>7 DEF RawFlush
  <2>3. /\ resp'.body = b /\ resp'.status = IF resp.status = 0 THEN 200 ELSE resp.status
        /\ resp'.header = IF resp.status = 0 THEN header ELSE resp.header
    BY <1>3, <2>2, CommitFacts
  <2>4. ~bypassed' => written /\ ~bypassed
    BY <2>1, Zenon
  <2>5. written => resp.status # 0
    BY <1>2 DEF WaysInv
  <2>6. written' /\ up /\ ~bypassed' =>
           \/ Has(resp'.body, "event") \/ Has(resp'.body, "raw")
           \/ resp'.status = 206 /\ resp'.body = <<>>
    BY <1>2, <2>2, <2>3, <2>4, <2>5 DEF WaysInv
  <2> QED BY <1>1, <1>2, <1>3, <1>4, <1>4a, <2>2, <2>3, <2>5, <2>6, UserStep
<1> QED BY <1>5, <1>6, <1>7

(* A stream begins with an event, or its connection is gone.                *)
LEMMA SendAnswers ==
    AnswerInv /\ (SendUnregistered \/ SendCannotMarshal \/ SendEvent \/ SendBreaks) => AnswerInv'
<1> SUFFICES ASSUME AnswerInv, SendUnregistered \/ SendCannotMarshal \/ SendEvent \/ SendBreaks
             PROVE  AnswerInv'
  OBVIOUS
<1> DEFINE b == resp.body
<1>1. /\ pc = "user" /\ pc' = "user" /\ route.kind = "sse"
      /\ UNCHANGED <<route, up, failure, bypassed>>
  BY DEF SendUnregistered, SendCannotMarshal, SendEvent, SendBreaks, Uses, wrapper
<1>2. RespInv' /\ RespInv /\ WaysInv
  BY SendKeeps DEF AnswerInv
<1>3. /\ Response(resp, b) /\ b \in Seq(Units(route)) /\ calls \in Nat
      /\ header.names = route.static \cup Own
  BY <1>1, <1>2 DEF RespInv, Shapes, WaysInv
<1>4. /\ resp.status # 0 => resp.header.names = route.static \cup Own
      /\ written => resp.status # 0 /\ started
      /\ resp.status # 0 => written
  BY <1>1, <1>2 DEF WaysInv, RespInv, BeforeEnd, Streams, Untouched
<1>5. CASE SendUnregistered \/ SendCannotMarshal
  <2>1. UNCHANGED <<resp, written>>
    BY <1>5 DEF SendUnregistered, SendCannotMarshal
  <2>2. header'.names = route.static \cup Own' /\ (started => started')
    <3>1. CASE SendUnregistered
      BY <1>3, <3>1 DEF SendUnregistered, Own
    <3>2. CASE SendCannotMarshal
      BY <1>1, <1>2, <1>3, <3>2, Labelled DEF SendCannotMarshal, Own
    <3> QED BY <1>5, <3>1, <3>2
  <2>2a. resp.status # 0 => resp.header.names = route.static \cup Own'
    BY <1>4, <2>2 DEF Own
  <2>3. written' /\ up /\ ~bypassed' =>
           \/ Has(resp'.body, "event") \/ Has(resp'.body, "raw")
           \/ resp'.status = 206 /\ resp'.body = <<>>
    BY <1>1, <1>2, <2>1 DEF WaysInv
  <2> QED BY <1>1, <1>2, <1>4, <2>1, <2>2, <2>2a, <2>3, UserStep
<1>6. CASE SendEvent \/ SendBreaks
  <2>1. /\ started'
        /\ header'.names = IF started THEN header.names ELSE header.names \cup StreamHeaders
    BY <1>1, <1>2, <1>6, Labelled DEF SendEvent, SendBreaks
  <2>2. header'.names = route.static \cup Own' /\ (started => Own' = Own)
    BY <1>3, <2>1 DEF Own
  <2>3. /\ resp'.status = IF resp.status = 0 THEN 200 ELSE resp.status
        /\ resp'.header = IF resp.status = 0 THEN header' ELSE resp.header
        /\ up => Has(resp'.body, "event")
    <3>1. CASE SendEvent
      <4> DEFINE c == Frame(calls + 1)
      <4>1. resp' = Write(resp, header', c)
        BY <3>1 DEF SendEvent
      <4>2. calls + 1 \in Nat
        BY <1>3
      <4>3. c \in Seq(Units(route))
        BY <4>2, TextFacts
      <4>4. Has(c, "event")
        BY DEF Frame, Has, Piece
      <4> HIDE DEF c, b
      <4>5. /\ resp'.body = b \o c
            /\ resp'.status = IF resp.status = 0 THEN 200 ELSE resp.status
            /\ resp'.header = IF resp.status = 0 THEN header' ELSE resp.header
        BY <1>3, <4>1, WriteFacts
      <4>6. Has(resp'.body, "event")
        BY <1>3, <4>3, <4>4, <4>5, HasBoth
      <4> QED BY <4>5, <4>6
    <3>2. CASE SendBreaks
      <4>1. resp' = Commit(resp, 200, header') /\ ~up
        BY <3>2 DEF SendBreaks
      <4>2. /\ resp'.status = IF resp.status = 0 THEN 200 ELSE resp.status
            /\ resp'.header = IF resp.status = 0 THEN header' ELSE resp.header
        BY <1>3, <4>1, CommitFacts
      <4> QED BY <4>1, <4>2
    <3> QED BY <1>6, <3>1, <3>2
  <2>4. resp'.status # 0 /\ resp'.header.names = route.static \cup Own'
    BY <1>4, <2>2, <2>3
  <2> QED BY <1>1, <1>2, <1>3, <2>1, <2>2, <2>3, <2>4, UserStep
<1> QED BY <1>5, <1>6

(* Steps that leave the response and the wrapper alone.                     *)
LEMMA AnswersStay ==
    ASSUME AnswerInv, UNCHANGED <<route, writer, wrapper>>, up' => up
    PROVE  AnswerInv'
<1>1. UNCHANGED <<route, pc, header, resp, written, started, calls, bypassed, failure>>
  BY DEF writer, wrapper
<1>2. RespInv'
  BY <1>1 DEF AnswerInv, RespInv, Shapes, BeforeEnd, Streams, Finished, Untouched
<1>3. WaysInv'
  BY <1>1 DEF AnswerInv, WaysInv, Own
<1>4. ErrorsReported'
  BY <1>1 DEF AnswerInv, ErrorsReported, Reports, Wrote
<1>5. ResponsesDocumented'
  BY <1>1 DEF AnswerInv, ResponsesDocumented, Refuses, Wrote, SharedStatus
<1> QED BY <1>2, <1>3, <1>4, <1>5 DEF AnswerInv

(* Every step keeps the answers.                                            *)
LEMMA StepAnswers == AnswerInv /\ [Next]_vars => AnswerInv'
<1> SUFFICES ASSUME AnswerInv, [Next]_vars PROVE AnswerInv'
  OBVIOUS
<1>1. CASE Server
  BY <1>1, RejectAnswers, AcceptAnswers, SucceedsAnswers, FailsAnswers, EndAnswers, RawAnswers,
     SendAnswers DEF Server
<1>2. Next => Server \/ (UNCHANGED <<route, writer, wrapper>> /\ (up' => up))
  BY DEF Next, Reader, FetchResolves, ReadChunk, Yield, ReadDone, ReadRejects, Leave, Close,
         Disconnect
<1>3. UNCHANGED vars => UNCHANGED <<route, writer, wrapper>> /\ (up' => up)
  BY DEF vars
<1> QED BY <1>1, <1>2, <1>3, AnswersStay

(* An error that the handler returned before anything reached the client    *)
(* is what the client gets: the validation error in it, else the first of a *)
(* declared type, else that the server failed; a later one adds nothing.    *)
THEOREM ErrorsReportedCorrect == FairSpec => []ErrorsReported
<1>1. AnswerInv => ErrorsReported
  BY DEF AnswerInv
<1> QED BY <1>1, InitAnswerInv, StepAnswers, PTL DEF FairSpec

(* Every response of the wrappers, a result, a stream or an error, is one   *)
(* that the OpenAPI document describes, but for a stream's own headers and  *)
(* the errors that are not structs.                                         *)
THEOREM ResponsesDocumentedCorrect == FairSpec => []ResponsesDocumented
<1>1. AnswerInv => ResponsesDocumented
  BY DEF AnswerInv
<1> QED BY <1>1, InitAnswerInv, StepAnswers, PTL DEF FairSpec

-----------------------------------------------------------------------------
(* The events. *)

(* The first of some increasing numbers are as many as their positions.     *)
LEMMA FirstNumbers ==
    ASSUME NEW K \in Nat, NEW f \in [1..K -> Nat],
           \A i, j \in 1..K : i < j => f[i] < f[j],
           NEW n \in 0..K
    PROVE  Cardinality({f[l] : l \in 1..n}) = n
<1> DEFINE T == {f[l] : l \in 1..n}
           g == [l \in 1..n |-> f[l]]
<1>1. IsFiniteSet(1..n) /\ Cardinality(1..n) = n
  BY FS_Interval
<1>2. g \in Bijection(1..n, T)
  <2>1. g \in [1..n -> T] /\ \A y \in T : \E l \in 1..n : g[l] = y
    OBVIOUS
  <2>2. \A i, j \in 1..n : g[i] = g[j] => i = j
    <3>1. ASSUME NEW i \in 1..n, NEW j \in 1..n, i # j PROVE g[i] # g[j]
      <4>1. i \in 1..K /\ j \in 1..K /\ f[i] \in Nat /\ f[j] \in Nat
        OBVIOUS
      <4>2. CASE i < j
        BY <4>1, <4>2
      <4>3. CASE j < i
        BY <4>1, <4>3
      <4> QED BY <3>1, <4>2, <4>3
    <3> QED BY <3>1
  <2> HIDE DEF g, T
  <2> QED BY <2>1, <2>2 DEF Bijection, Injection, Surjection, IsInjective
<1> HIDE DEF g, T
<1>3. Cardinality(T) = Cardinality(1..n)
  BY <1>1, <1>2, FS_Bijection DEF ExistsBijection
<1> QED BY <1>1, <1>3 DEF T

(* Numbers in order.                                                        *)
LEMMA OrderedIs ==
    ASSUME NEW K \in Nat, NEW f \in [1..K -> Nat],
           \A i, j \in 1..K : i < j => f[i] < f[j],
           NEW S, S = {f[j] : j \in 1..K}
    PROVE  Ordered(S) = f
<1> DEFINE below(i) == {x \in S : x <= i}
<1>1. Cardinality(S) = K
  BY FirstNumbers
<1>2. ASSUME NEW j \in 1..K PROVE Cardinality(below(f[j])) = j
  <2>1. below(f[j]) = {f[l] : l \in 1..j}
    <3>1. ASSUME NEW l \in 1..K PROVE f[l] <= f[j] <=> l <= j
      <4>1. f[l] \in Nat /\ f[j] \in Nat
        OBVIOUS
      <4>2. l < j => f[l] < f[j]
        OBVIOUS
      <4>3. j < l => f[j] < f[l]
        OBVIOUS
      <4> QED BY <4>1, <4>2, <4>3
    <3>2. ASSUME NEW x \in below(f[j]) PROVE x \in {f[l] : l \in 1..j}
      <4>1. PICK l \in 1..K : x = f[l]
        OBVIOUS
      <4> QED BY <3>1, <3>2, <4>1
    <3>3. ASSUME NEW l \in 1..j PROVE f[l] \in below(f[j])
      BY <3>1
    <3> QED BY <3>2, <3>3
  <2>2. Cardinality({f[l] : l \in 1..j}) = j
    <3>1. j \in 0..K
      OBVIOUS
    <3> QED BY <3>1, FirstNumbers
  <2> QED BY <2>1, <2>2
<1>3. ASSUME NEW j \in 1..K
      PROVE  (CHOOSE i \in S : Cardinality(below(i)) = j) = f[j]
  <2> HIDE DEF below
  <2>1. f[j] \in S /\ Cardinality(below(f[j])) = j
    BY <1>2
  <2>2. ASSUME NEW i \in S, Cardinality(below(i)) = j PROVE i = f[j]
    <3>1. PICK l \in 1..K : i = f[l]
      OBVIOUS
    <3> QED BY <1>2, <2>2, <3>1
  <2> QED BY <2>1, <2>2
<1>4. Ordered(S) = [j \in 1..K |-> CHOOSE i \in S : Cardinality(below(i)) = j]
  BY <1>1 DEF Ordered
<1> HIDE DEF below
<1>5. Ordered(S) = [j \in 1..K |-> f[j]]
  BY <1>3, <1>4
<1> QED BY <1>5

(* The pieces of an event.                                                  *)
LEMMA FramePieces ==
    ASSUME NEW k \in Nat
    PROVE  /\ Len(Frame(k)) = 5 /\ NL.u = "nl"
           /\ Frame(k)[1].u = "event" /\ Frame(k)[1].v = ToString(k)
           /\ Frame(k)[2] = NL
           /\ Frame(k)[3].u = "data" /\ Frame(k)[3].v = ToString(k)
           /\ Frame(k)[4] = NL /\ Frame(k)[5] = NL
<1> DEFINE a == Piece("event", ToString(k))
           d == Piece("data", ToString(k))
<1>1. a.u = "event" /\ a.v = ToString(k) /\ d.u = "data" /\ d.v = ToString(k) /\ NL.u = "nl"
  BY DEF Piece, NL
<1>2. Frame(k) = <<a, NL, d, NL, NL>>
  BY DEF Frame
<1> HIDE DEF a, d
<1> QED BY <1>1, <1>2

(* The reader finds the event line of a sent event, and its data.           *)
LEMMA EventRead ==
    ASSUME NEW k \in Nat, NEW part, Len(part) = 3, part \in Seq(Units(route)),
           \A i \in 1..3 : part[i] = Frame(k)[i]
    PROVE  EventOf(part) = <<Event(k)>>
<1> DEFINE t == ToString(k)
           one == [j \in 1..1 |-> 1]
           three == [j \in 1..1 |-> 3]
<1>1. /\ DOMAIN part = 1..3
      /\ part[1].u = "event" /\ part[1].v = t
      /\ part[2].u = "nl"
      /\ part[3].u = "data" /\ part[3].v = t
  <2>1. DOMAIN part = 1..3
    OBVIOUS
  <2>2. part[1] = Frame(k)[1] /\ part[2] = Frame(k)[2] /\ part[3] = Frame(k)[3]
    BY <2>1
  <2> QED BY <2>1, <2>2, FramePieces
<1> HIDE DEF t
<1>2. {i \in DOMAIN part : part[i].u = "event"} = {one[j] : j \in 1..1}
  <2>1. ASSUME NEW i \in DOMAIN part PROVE part[i].u = "event" <=> i = 1
    <3>1. i = 1 \/ i = 2 \/ i = 3
      BY <1>1
    <3> QED BY <1>1, <3>1
  <2> QED BY <1>1, <2>1
<1>3. {i \in DOMAIN part : part[i].u = "data"} = {three[j] : j \in 1..1}
  <2>1. ASSUME NEW i \in DOMAIN part PROVE part[i].u = "data" <=> i = 3
    <3>1. i = 1 \/ i = 2 \/ i = 3
      BY <1>1
    <3> QED BY <1>1, <3>1
  <2> QED BY <1>1, <2>1
<1>4. Ordered({i \in DOMAIN part : part[i].u = "event"}) = one
  <2>1. one \in [1..1 -> Nat] /\ \A i, j \in 1..1 : i < j => one[i] < one[j]
    OBVIOUS
  <2> HIDE DEF one
  <2> QED BY <1>2, <2>1, OrderedIs
<1>5. Ordered({i \in DOMAIN part : part[i].u = "data"}) = three
  <2>1. three \in [1..1 -> Nat] /\ \A i, j \in 1..1 : i < j => three[i] < three[j]
    OBVIOUS
  <2> HIDE DEF three
  <2> QED BY <1>3, <2>1, OrderedIs
<1>6. LinesOf(part, "event") = <<t>>
  <2>1. LinesOf(part, "event") = [j \in DOMAIN one |-> part[one[j]].v]
    BY <1>4 DEF LinesOf
  <2>2. [j \in DOMAIN one |-> part[one[j]].v] = [j \in 1..1 |-> t]
    BY <1>1
  <2>3. [j \in 1..1 |-> t] = <<t>>
    OBVIOUS
  <2> QED BY <2>1, <2>2, <2>3
<1>7. LinesOf(part, "data") = <<t>>
  <2>1. LinesOf(part, "data") = [j \in DOMAIN three |-> part[three[j]].v]
    BY <1>5 DEF LinesOf
  <2>2. [j \in DOMAIN three |-> part[three[j]].v] = [j \in 1..1 |-> t]
    BY <1>1
  <2>3. [j \in 1..1 |-> t] = <<t>>
    OBVIOUS
  <2> QED BY <2>1, <2>2, <2>3
<1>8. EventOf(part) = <<[event |-> t, data |-> <<t>>]>>
  <2> DEFINE names == LinesOf(part, "event")
             data  == LinesOf(part, "data")
  <2>1. EventOf(part) = IF data = <<>> THEN <<>>
            ELSE <<[event |-> IF names = <<>> THEN "" ELSE Head(names), data |-> data]>>
    BY DEF EventOf
  <2>2. names = <<t>> /\ data = <<t>>
    BY <1>6, <1>7
  <2>3. names # <<>> /\ data # <<>> /\ Head(names) = t
    <3> HIDE DEF names, data
    <3> QED BY <2>2
  <2> HIDE DEF names, data
  <2>4. EventOf(part) = <<[event |-> Head(names), data |-> data]>>
    BY <2>1, <2>3
  <2> QED BY <2>2, <2>3, <2>4
<1> QED BY <1>8 DEF Event, t

(* A body is the frames of the events that were sent.                       *)
Framed(body, sent) ==
    /\ Len(body) = 5 * Len(sent)
    /\ \A k \in 1..Len(sent) : \E c \in Nat :
          sent[k] = Event(c) /\ \A i \in 1..5 : body[5 * (k - 1) + i] = Frame(c)[i]

(* The text of a body after its first m frames.                             *)
After(text, body, m) ==
    /\ 5 * m + Len(text) <= Len(body)
    /\ \A i \in 1..Len(text) : text[i] = body[5 * m + i]

(* Empty lines end frames, and nothing else.                                *)
LEMMA BlankLines ==
    ASSUME NEW U, NEW sent, Len(sent) \in Nat, NEW body \in Seq(U), Framed(body, sent),
           NEW m \in Nat, NEW text \in Seq(U), After(text, body, m),
           NEW K \in Nat, 5 * K <= Len(text), Len(text) < 5 * K + 5
    PROVE  Blanks(text) = [j \in 1..K |-> 5 * j - 1]
<1> DEFINE blank(i) == text[i] = NL /\ text[i + 1] = NL
           f == [j \in 1..K |-> 5 * j - 1]
           S == {i \in 1..(Len(text) - 1) : blank(i)}
           N == Len(text)
<1>1. N \in Nat /\ 5 * m + N <= 5 * Len(sent) /\ 5 * K <= N /\ N < 5 * K + 5
  BY DEF Framed, After
<1> HIDE DEF N
<1>2. ASSUME NEW k \in 1..Len(sent), NEW i \in 1..N, 5 * (k - 1) < 5 * m + i, 5 * m + i <= 5 * k
      PROVE  text[i] = NL <=> 5 * m + i \notin {5 * k - 4, 5 * k - 2}
  <2>1. PICK c \in Nat : \A n \in 1..5 : body[5 * (k - 1) + n] = Frame(c)[n]
    BY DEF Framed
  <2> DEFINE n == 5 * m + i - 5 * (k - 1)
  <2>2. n \in 1..5 /\ 5 * (k - 1) + n = 5 * m + i
    BY <1>2
  <2>3. text[i] = body[5 * m + i]
    BY DEF After, N
  <2>4. 5 * m + i \notin {5 * k - 4, 5 * k - 2} <=> n \notin {1, 3}
    BY <1>2
  <2> HIDE DEF n
  <2>5. text[i] = Frame(c)[n]
    BY <2>1, <2>2, <2>3
  <2>6. Frame(c)[n] = NL <=> n \notin {1, 3}
    <3>1. n = 1 \/ n = 2 \/ n = 3 \/ n = 4 \/ n = 5
      BY <2>2
    <3>2. /\ Frame(c)[1] # NL /\ Frame(c)[2] = NL /\ Frame(c)[3] # NL
          /\ Frame(c)[4] = NL /\ Frame(c)[5] = NL
      BY FramePieces
    <3> QED BY <3>1, <3>2
  <2> QED BY <2>4, <2>5, <2>6
<1>3. ASSUME NEW j \in 1..K PROVE 5 * j - 1 \in 1..(N - 1) /\ blank(5 * j - 1)
  <2> DEFINE k == m + j
  <2>1. k \in 1..Len(sent) /\ 5 * j - 1 \in 1..N /\ 5 * j \in 1..N /\ 5 * k = 5 * m + 5 * j
    BY <1>1
  <2> HIDE DEF k
  <2>2. text[5 * j - 1] = NL
    <3> DEFINE i == 5 * j - 1
    <3>1. 5 * (k - 1) < 5 * m + i /\ 5 * m + i <= 5 * k /\ i \in 1..N
          /\ 5 * m + i \notin {5 * k - 4, 5 * k - 2}
      BY <1>1, <2>1
    <3> HIDE DEF i
    <3>2. text[i] = NL
      BY <1>2, <2>1, <3>1
    <3> QED BY <3>2 DEF i
  <2>3. text[5 * j] = NL
    <3> DEFINE i == 5 * j
    <3>1. 5 * (k - 1) < 5 * m + i /\ 5 * m + i <= 5 * k /\ i \in 1..N
          /\ 5 * m + i \notin {5 * k - 4, 5 * k - 2}
      BY <1>1, <2>1
    <3> HIDE DEF i
    <3>2. text[i] = NL
      BY <1>2, <2>1, <3>1
    <3> QED BY <3>2 DEF i
  <2>4. 5 * j - 1 + 1 = 5 * j
    OBVIOUS
  <2> QED BY <1>1, <2>1, <2>2, <2>3, <2>4
<1>4. ASSUME NEW i \in 1..(N - 1), blank(i) PROVE \E j \in 1..K : i = 5 * j - 1
  <2>1. PICK k \in 1..Len(sent) : 5 * (k - 1) < 5 * m + i /\ 5 * m + i <= 5 * k
    <3> DEFINE p == 5 * m + i
               k == (p + 4) \div 5
    <3>1. p \in Nat /\ p >= 1 /\ p <= 5 * Len(sent)
      BY <1>1
    <3> HIDE DEF p
    <3>2. k \in Nat /\ 5 * (k - 1) < p /\ p <= 5 * k
      BY <3>1
    <3> HIDE DEF k
    <3>3. k \in 1..Len(sent)
      BY <3>1, <3>2
    <3> QED BY <3>2, <3>3 DEF p
  <2>2. i \in 1..N /\ i + 1 \in 1..N
    BY <1>1
  <2>3. 5 * m + i \notin {5 * k - 4, 5 * k - 2}
    BY <1>2, <1>4, <2>1, <2>2
  <2>4. CASE 5 * m + i = 5 * k
    <3>1. k + 1 \in 1..Len(sent)
      BY <1>1, <2>2, <2>4
    <3>2. 5 * ((k + 1) - 1) < 5 * m + (i + 1) /\ 5 * m + (i + 1) <= 5 * (k + 1)
          /\ 5 * m + (i + 1) = 5 * (k + 1) - 4
      BY <2>4
    <3>3. text[i + 1] # NL
      BY <1>2, <2>2, <3>1, <3>2
    <3> QED BY <1>4, <3>3
  <2>5. CASE 5 * m + i = 5 * k - 3
    <3>1. 5 * (k - 1) < 5 * m + (i + 1) /\ 5 * m + (i + 1) <= 5 * k
          /\ 5 * m + (i + 1) = 5 * k - 2
      BY <2>5
    <3>2. text[i + 1] # NL
      BY <1>2, <2>2, <3>1
    <3> QED BY <1>4, <3>2
  <2>6. CASE 5 * m + i = 5 * k - 1
    <3>1. i = 5 * (k - m) - 1 /\ k - m \in 1..K
      BY <1>1, <2>2, <2>6
    <3> QED BY <3>1
  <2> QED BY <2>1, <2>3, <2>4, <2>5, <2>6
<1> HIDE DEF blank
<1>5. S = {f[j] : j \in 1..K}
  <2>1. \A i \in S : \E j \in 1..K : i = f[j]
    BY <1>4 DEF N
  <2>2. \A j \in 1..K : f[j] \in S
    BY <1>3 DEF N
  <2> QED BY <2>1, <2>2
<1>6. f \in [1..K -> Nat] /\ \A i, j \in 1..K : i < j => f[i] < f[j]
  OBVIOUS
<1>7. Blanks(text) = Ordered(S)
  BY DEF Blanks, blank
<1> HIDE DEF S, f
<1>8. Ordered(S) = f
  BY <1>5, <1>6, OrderedIs
<1> QED BY <1>7, <1>8 DEF f

(* What is read of a sequence of texts between two positions.               *)
LEMMA SubText ==
    ASSUME NEW U, NEW text \in Seq(U), NEW a \in Nat \ {0}, NEW b \in Nat, b <= Len(text),
           a <= b + 1
    PROVE  /\ SubSeq(text, a, b) \in Seq(U) /\ Len(SubSeq(text, a, b)) = b - a + 1
           /\ \A i \in 1..(b - a + 1) : SubSeq(text, a, b)[i] = text[a + i - 1]
<1> Len(text) \in Nat /\ a \in Int /\ b \in Int
  OBVIOUS
<1>1. SubSeq(text, a, b) = [i \in 1..(b - a + 1) |-> text[a + i - 1]]
  BY SMT
<1>2. \A i \in 1..(b - a + 1) : text[a + i - 1] \in U
  <2>1. ASSUME NEW i \in 1..(b - a + 1) PROVE a + i - 1 \in 1..Len(text)
    OBVIOUS
  <2> QED BY <2>1
<1>3. b - a + 1 \in Nat
  OBVIOUS
<1> DEFINE n == b - a + 1
           g == [i \in 1..n |-> text[a + i - 1]]
<1>4. g \in Seq(U) /\ Len(g) = n
  BY <1>2, <1>3
<1>5. \A i \in 1..n : g[i] = text[a + i - 1]
  OBVIOUS
<1>6. SubSeq(text, a, b) = g
  BY <1>1
<1> HIDE DEF g
<1> QED BY <1>4, <1>5, <1>6

(* A text of K frames and a rest is cut into them.                          *)
Cut(text, U, sent, m, K) ==
    /\ PartsOf(text) \in Seq(Seq(U)) /\ Len(PartsOf(text)) = K
    /\ \A j \in 1..K : EventOf(PartsOf(text)[j]) = <<sent[m + j]>>
    /\ RestOf(text) \in Seq(U) /\ Len(RestOf(text)) = Len(text) - 5 * K
    /\ \A i \in 1..(Len(text) - 5 * K) : RestOf(text)[i] = text[5 * K + i]

(* A chunk of a stream: its parts are events, the rest is less than one.    *)
LEMMA ChunkFacts ==
    ASSUME NEW sent, Len(sent) \in Nat, NEW body \in Seq(Units(route)), Framed(body, sent),
           NEW m \in Nat, NEW text \in Seq(Units(route)), After(text, body, m),
           NEW K \in Nat, 5 * K <= Len(text), Len(text) < 5 * K + 5
    PROVE  Cut(text, Units(route), sent, m, K)
<1> DEFINE ends == Blanks(text)
           N == Len(text)
           part(j) == SubSeq(text, IF j = 1 THEN 1 ELSE ends[j - 1] + 2, ends[j] - 1)
<1>1. ends = [j \in 1..K |-> 5 * j - 1]
  BY BlankLines
<1>2. N \in Nat /\ 5 * m + N <= 5 * Len(sent)
  BY DEF Framed, After
<1>3. PartsOf(text) = [j \in DOMAIN ends |-> part(j)]
  BY DEF PartsOf
<1>4. RestOf(text) = IF ends = <<>> THEN text ELSE SubSeq(text, Last(ends) + 2, N)
  BY DEF RestOf
<1> HIDE DEF ends
<1>5. ASSUME NEW j \in 1..K PROVE part(j) = SubSeq(text, 5 * j - 4, 5 * j - 2)
  <2>1. ends[j] - 1 = 5 * j - 2
    BY <1>1
  <2>2. (IF j = 1 THEN 1 ELSE ends[j - 1] + 2) = 5 * j - 4
    <3>1. CASE j = 1
      BY <3>1
    <3>2. CASE j # 1
      <4>1. j - 1 \in 1..K
        BY <3>2
      <4>2. ends[j - 1] = 5 * (j - 1) - 1
        BY <1>1, <4>1
      <4> QED BY <3>2, <4>2
    <3> QED BY <3>1, <3>2
  <2> QED BY <2>1, <2>2
<1> HIDE DEF part, N
<1>6. ASSUME NEW j \in 1..K
      PROVE  /\ part(j) \in Seq(Units(route))
             /\ EventOf(part(j)) = <<sent[m + j]>>
  <2> DEFINE a == 5 * j - 4
             b == 5 * j - 2
             p == SubSeq(text, a, b)
  <2>1. a \in Nat \ {0} /\ b \in Nat /\ b <= Len(text) /\ a <= b + 1 /\ b - a + 1 = 3
    OBVIOUS
  <2> HIDE DEF p
  <2>2. p \in Seq(Units(route)) /\ Len(p) = 3 /\ \A i \in 1..3 : p[i] = text[a + i - 1]
    <3> HIDE DEF a, b
    <3> QED BY <2>1, SubText DEF p
  <2>3. m + j \in 1..Len(sent)
    BY <1>2 DEF N
  <2>4. PICK c \in Nat : /\ sent[m + j] = Event(c)
                         /\ \A i \in 1..5 : body[5 * ((m + j) - 1) + i] = Frame(c)[i]
    BY <2>3 DEF Framed
  <2>5. ASSUME NEW i \in 1..3 PROVE p[i] = Frame(c)[i]
    <3>1. a + i - 1 \in 1..Len(text) /\ 5 * m + (a + i - 1) = 5 * ((m + j) - 1) + i
      OBVIOUS
    <3> DEFINE q == a + i - 1
    <3>2. q \in 1..Len(text) /\ 5 * m + q = 5 * ((m + j) - 1) + i
      BY <3>1
    <3>3. p[i] = text[q]
      BY <2>2
    <3> HIDE DEF q
    <3>4. text[q] = body[5 * m + q]
      BY <3>2 DEF After
    <3>5. i \in 1..5
      OBVIOUS
    <3> QED BY <2>4, <3>2, <3>3, <3>4, <3>5
  <2>6. EventOf(p) = <<Event(c)>>
    BY <2>2, <2>5, EventRead
  <2>7. part(j) = p
    BY <1>5 DEF p
  <2> QED BY <2>2, <2>4, <2>6, <2>7
<1>7. PartsOf(text) = [j \in 1..K |-> part(j)]
  BY <1>1, <1>3
<1>8. /\ PartsOf(text) \in Seq(Seq(Units(route))) /\ Len(PartsOf(text)) = K
      /\ \A j \in 1..K : PartsOf(text)[j] = part(j)
  BY <1>6, <1>7
<1>9. RestOf(text) = SubSeq(text, 5 * K + 1, N)
  <2>1. CASE K = 0
    <3>1. ends = <<>>
      <4>1. ends = [j \in 1..0 |-> 5 * j - 1]
        BY <1>1, <2>1
      <4>2. ends \in Seq(Int) /\ Len(ends) = 0
        BY <4>1
      <4> QED BY <4>2
    <3>2. SubSeq(text, 1, Len(text)) = text
      OBVIOUS
    <3> QED BY <1>4, <2>1, <3>1, <3>2 DEF N
  <2>2. CASE K # 0
    <3>1. ends \in Seq(Int) /\ Len(ends) = K
      BY <1>1
    <3>2. ends # <<>> /\ Last(ends) = 5 * K - 1
      <4>1. ends[K] = 5 * K - 1
        BY <1>1, <2>2
      <4> QED BY <2>2, <3>1, <4>1 DEF Last
    <3>3. 5 * K - 1 + 2 = 5 * K + 1
      OBVIOUS
    <3> QED BY <1>4, <3>2, <3>3
  <2> QED BY <2>1, <2>2
<1>10. /\ RestOf(text) \in Seq(Units(route)) /\ Len(RestOf(text)) = Len(text) - 5 * K
       /\ \A i \in 1..(Len(text) - 5 * K) : RestOf(text)[i] = text[5 * K + i]
  <2> DEFINE a == 5 * K + 1
  <2>1. a \in Nat \ {0} /\ N \in Nat /\ N <= Len(text) /\ a <= N + 1 /\ N - a + 1 = N - 5 * K
        /\ \A i \in Nat : a + i - 1 = 5 * K + i
    BY <1>2 DEF N
  <2> HIDE DEF a
  <2>2. /\ SubSeq(text, a, N) \in Seq(Units(route)) /\ Len(SubSeq(text, a, N)) = N - a + 1
        /\ \A i \in 1..(N - a + 1) : SubSeq(text, a, N)[i] = text[a + i - 1]
    BY <2>1, SubText
  <2>3. RestOf(text) = SubSeq(text, a, N)
    BY <1>9 DEF a
  <2> DEFINE r == RestOf(text)
             n == Len(text) - 5 * K
  <2>4. r \in Seq(Units(route)) /\ Len(r) = n /\ \A i \in 1..n : r[i] = text[a + i - 1]
    BY <2>1, <2>2, <2>3 DEF N
  <2> HIDE DEF r
  <2>5. ASSUME NEW i \in 1..n PROVE r[i] = text[5 * K + i]
    <3>1. i \in Nat /\ r[i] = text[a + i - 1]
      <4>1. n \in Nat
        BY <1>2 DEF N
      <4> HIDE DEF n
      <4> QED BY <2>4, <4>1
    <3>2. a + i - 1 = 5 * K + i
      BY <2>1, <3>1
    <3> QED BY <3>1, <3>2
  <2> QED BY <2>4, <2>5 DEF r
<1> QED BY <1>6, <1>8, <1>10 DEF Cut

(* The reader has m events behind it, some of them still in parts, and less *)
(* than one in its buffer.                                                  *)
Reading(m) ==
    /\ Framed(resp.body, events) /\ After(buf, resp.body, m)
    /\ nread = 5 * m + Len(buf) /\ Len(buf) < 5
    /\ Len(parts) = m - Len(yields)
    /\ \A j \in 1..Len(parts) : EventOf(parts[j]) = <<events[Len(yields) + j]>>

(* A request that was refused has one JSON document and no events.          *)
NoFrames(text) == \A i \in DOMAIN text : text[i].u = "json"
Refusal ==
    /\ pc = "done" /\ events = <<>> /\ parts = <<>>
    /\ NoFrames(resp.body) /\ NoFrames(buf)

Sent == {Event(c) : c \in Nat}
YieldInv ==
    /\ events \in Seq(Sent) /\ yields \in Seq(Sent)
    /\ buf \in Seq(Units(route)) /\ parts \in Seq(Seq(Units(route))) /\ nread \in Nat
    /\ Len(yields) <= Len(events) /\ \A j \in 1..Len(yields) : yields[j] = events[j]
    /\ route.kind # "sse" => client = "none" /\ events = <<>>
    /\ route.kind = "sse" => Refusal \/ \E m \in Nat : Reading(m)

(* Nothing is sent or read before the request is parsed.                   *)
LEMMA InitYieldInv == Init => YieldInv
<1> SUFFICES ASSUME Init PROVE YieldInv
  OBVIOUS
<1>1. /\ resp.body = <<>> /\ events = <<>> /\ yields = <<>> /\ buf = <<>> /\ parts = <<>>
      /\ nread = 0 /\ (route.kind # "sse" => client = "none")
  BY DEF Init
<1>2. Reading(0)
  <2>1. Framed(resp.body, events) /\ After(buf, resp.body, 0)
    <3>1. Framed(<<>>, <<>>) /\ After(<<>>, <<>>, 0)
      BY DEF Framed, After
    <3> QED BY <1>1, <3>1
  <2>2. nread = 5 * 0 + Len(buf) /\ Len(buf) < 5
    BY <1>1
  <2>3. Len(parts) = 0 - Len(yields) /\ Len(parts) = 0
    <3>1. Len(parts) = 0 /\ Len(yields) = 0
      BY <1>1
    <3> QED BY <3>1
  <2>4. \A j \in 1..Len(parts) : EventOf(parts[j]) = <<events[Len(yields) + j]>>
    BY <2>3
  <2> QED BY <2>1, <2>2, <2>3, <2>4 DEF Reading
<1>3. \E m \in Nat : Reading(m)
  BY <1>2
<1> QED BY <1>1, <1>3 DEF YieldInv

(* Steps that leave the body, the events and the reader's texts alone.      *)
LEMMA NothingRead ==
    ASSUME YieldInv, UNCHANGED <<route, events, nread, buf, parts, yields>>,
           resp'.body = resp.body, pc = "done" => pc' = "done",
           route.kind # "sse" => client' = client
    PROVE  YieldInv'
<1>1. ASSUME NEW m \in Nat, Reading(m) PROVE Reading(m)'
  BY <1>1 DEF Reading
<1>2. Refusal => Refusal'
  BY DEF Refusal
<1>3. route.kind = "sse" => Refusal' \/ \E m \in Nat : Reading(m)'
  BY <1>1, <1>2 DEF YieldInv
<1> QED BY <1>3 DEF YieldInv

(* An error is written into a body without events.                          *)
LEMMA RefusalWritten ==
    ASSUME RespInv, YieldInv, ~written, pc # "done", pc' = "done",
           NEW status, NEW x \in Jsons(route), writeJSON(status, header, <<x>>),
           UNCHANGED <<route, events, nread, buf, parts, yields, client>>
    PROVE  YieldInv'
<1>1. CASE route.kind = "sse"
  <2>1. resp.body = <<>>
    BY <1>1 DEF RespInv, BeforeEnd, Untouched, Streams
  <2>2. PICK m \in Nat : Reading(m)
    BY <1>1 DEF YieldInv, Refusal
  <2>3. events = <<>> /\ buf = <<>> /\ parts = <<>>
    <3>1. Len(resp.body) = 0 /\ Len(resp.body) = 5 * Len(events) /\ Len(events) \in Nat
      BY <2>1, <2>2 DEF Reading, Framed, YieldInv
    <3>2. events = <<>>
      BY <3>1 DEF YieldInv
    <3>3. 5 * m + Len(buf) <= 0 /\ Len(buf) \in Nat /\ buf \in Seq(Units(route))
      BY <2>2, <3>1 DEF Reading, After, YieldInv
    <3>4. m = 0 /\ Len(buf) = 0
      BY <3>3
    <3>5. Len(parts) = 0 - Len(yields) /\ Len(yields) \in Nat /\ Len(parts) \in Nat
      BY <2>2, <3>4 DEF Reading, YieldInv
    <3>6. Len(parts) = 0
      BY <3>5
    <3> QED BY <3>2, <3>3, <3>4, <3>6 DEF YieldInv
  <2>4. x.u = "json"
    BY DEF Jsons, Json, Piece, encode
  <2>5. resp'.body = <<x>>
    <3> DEFINE units == <<x>>
    <3>1. writeJSON(status, header, units) /\ units \in Seq({x})
      OBVIOUS
    <3>2. header = [type |-> header.type, names |-> header.names]
      BY DEF RespInv, Shapes
    <3> HIDE DEF units
    <3>3. resp'.body = <<>> \o units
      BY <2>1, <3>1, <3>2, JsonAnswers
    <3>4. <<>> \o units = units
      BY <3>1
    <3> QED BY <3>3, <3>4 DEF units
  <2>6. NoFrames(resp'.body) /\ NoFrames(buf)
    BY <2>3, <2>4, <2>5 DEF NoFrames
  <2>7. Refusal'
    BY <2>3, <2>6 DEF Refusal, NoFrames
  <2> QED BY <1>1, <2>7 DEF YieldInv
<1>2. CASE route.kind # "sse"
  BY <1>2 DEF YieldInv
<1> QED BY <1>1, <1>2

(* The wrappers write an error, or what is no concern of the reader.        *)
LEMMA WrapperReads ==
    ASSUME RespInv, YieldInv,
           RejectInput \/ AcceptInput \/ HandlerSucceeds \/ HandlerFails \/ StreamEnds
    PROVE  YieldInv'
<1>1. UNCHANGED <<route, events, nread, buf, parts, yields, client>>
  BY DEF RejectInput, AcceptInput, HandlerSucceeds, HandlerFails, StreamEnds, reader
<1>2. pc # "done"
  BY DEF RejectInput, AcceptInput, HandlerSucceeds, HandlerFails, StreamEnds
<1>3. CASE RejectInput
  <2>1. pc' = "done" /\ ~written
    BY <1>3 DEF RejectInput, RespInv, BeforeEnd
  <2>2. PICK status, x : x \in Jsons(route) /\ writeJSON(status, header, <<x>>)
    <3>1. CASE writeJSON(400, header, <<Json("BadRequestError")>>)
      <4>1. Json("BadRequestError") \in Jsons(route)
        BY DEF Jsons, Schemas
      <4> QED BY <3>1, <4>1
    <3>2. ASSUME NEW err \in {InvalidInput, NotAStruct}, handleError(err)
          PROVE  \E status, x : x \in Jsons(route) /\ writeJSON(status, header, <<x>>)
      BY <3>2, ErrorWritten, ErrorsAssumption
    <3> QED BY <1>3, <3>1, <3>2 DEF RejectInput
  <2> QED BY <1>1, <1>2, <2>1, <2>2, RefusalWritten
<1>4. CASE HandlerFails /\ ~written
  <2>1. PICK err \in Errors : handleError(err)
    BY <1>4 DEF HandlerFails
  <2>2. PICK status, x : x \in Jsons(route) /\ writeJSON(status, header, <<x>>)
    BY <2>1, ErrorWritten
  <2>3. pc' = "done"
    BY <1>4 DEF HandlerFails
  <2> QED BY <1>1, <1>2, <1>4, <2>2, <2>3, RefusalWritten
<1>5. CASE HandlerFails /\ written
  <2>1. resp' = resp
    BY <1>5 DEF HandlerFails
  <2> QED BY <1>1, <1>2, <2>1, NothingRead
<1>6. CASE AcceptInput
  <2>1. resp' = resp
    BY <1>6 DEF AcceptInput
  <2> QED BY <1>1, <1>2, <2>1, NothingRead
<1>7. CASE StreamEnds
  <2> DEFINE b == resp.body
  <2>1. resp' = Commit(resp, 200, header) /\ Response(resp, b)
    BY <1>7 DEF StreamEnds, RespInv, Shapes
  <2>2. resp'.body = b
    BY <2>1, CommitFacts
  <2> QED BY <1>1, <1>2, <2>2, NothingRead
<1>8. CASE HandlerSucceeds
  <2>1. route.kind # "sse"
    BY <1>8 DEF HandlerSucceeds
  <2> QED BY <1>1, <2>1 DEF YieldInv
<1> QED BY <1>3, <1>4, <1>5, <1>6, <1>7, <1>8

(* Where the pieces of two texts are.                                       *)
LEMMA BothTexts ==
    ASSUME NEW S, NEW b \in Seq(S), NEW c \in Seq(S)
    PROVE  /\ Len(b) \in Nat /\ Len(c) \in Nat /\ Len(b \o c) = Len(b) + Len(c)
           /\ \A i \in 1..Len(b) : (b \o c)[i] = b[i]
           /\ \A i \in 1..Len(c) : (b \o c)[Len(b) + i] = c[i]
OBVIOUS

(* An event that is sent follows those that were.                           *)
LEMMA EventSent == RespInv /\ YieldInv /\ SendEvent => YieldInv'
<1> SUFFICES ASSUME RespInv, YieldInv, SendEvent PROVE YieldInv'
  OBVIOUS
<1> DEFINE b == resp.body
           n == calls + 1
           c == Frame(n)
<1>1. /\ pc = "user" /\ pc' = pc /\ route.kind = "sse"
      /\ UNCHANGED <<route, nread, buf, parts, yields, client>>
      /\ resp' = Write(resp, header', c) /\ events' = Append(events, Event(n))
  BY DEF SendEvent, Uses, wrapper, reader
<1>2. Response(resp, b) /\ b \in Seq(Units(route)) /\ n \in Nat
  BY DEF RespInv, Shapes
<1>3. c \in Seq(Units(route)) /\ Len(c) = 5
  BY <1>2, TextFacts, FramePieces
<1>4. PICK m \in Nat : Reading(m)
  BY <1>1 DEF YieldInv, Refusal
<1>5. events \in Seq(Sent) /\ yields \in Seq(Sent) /\ Len(yields) <= Len(events) /\ Event(n) \in Sent
  BY <1>2 DEF YieldInv, Sent
<1> HIDE DEF b, c, n
<1>6. resp'.body = b \o c
  BY <1>1, <1>2, WriteFacts
<1> DEFINE new == Append(events, Event(n))
<1>7. /\ new \in Seq(Sent) /\ Len(new) = Len(events) + 1 /\ new[Len(events) + 1] = Event(n)
      /\ \A j \in 1..Len(events) : new[j] = events[j]
  BY <1>5
<1> HIDE DEF new
<1>8. /\ Len(b) = 5 * Len(events) /\ Len(b) \in Nat /\ Len(events) \in Nat
      /\ Len(b \o c) = Len(b) + 5
      /\ \A i \in 1..Len(b) : (b \o c)[i] = b[i]
      /\ \A i \in 1..5 : (b \o c)[Len(b) + i] = c[i]
  <2>1. Len(b) = 5 * Len(events) /\ Len(events) \in Nat
    BY <1>4, <1>5 DEF Reading, Framed, b
  <2>2. /\ Len(b) \in Nat /\ Len(b \o c) = Len(b) + Len(c)
        /\ \A i \in 1..Len(b) : (b \o c)[i] = b[i]
        /\ \A i \in 1..Len(c) : (b \o c)[Len(b) + i] = c[i]
    <3> DEFINE U == Units(route)
    <3>1. b \in Seq(U) /\ c \in Seq(U)
      BY <1>2, <1>3
    <3> HIDE DEF U, b, c
    <3> QED BY <3>1, BothTexts
  <2>3. Len(c) = 5
    BY <1>3
  <2> HIDE DEF b, c
  <2>4. Len(b) \in Nat /\ Len(b \o c) = Len(b) + 5
    BY <2>2, <2>3
  <2>5. \A i \in 1..5 : (b \o c)[Len(b) + i] = c[i]
    BY <2>2, <2>3
  <2> QED BY <2>1, <2>2, <2>4, <2>5
<1>9. Framed(b \o c, new)
  <2>1. ASSUME NEW k \in 1..Len(new)
        PROVE  \E d \in Nat : /\ new[k] = Event(d)
                              /\ \A i \in 1..5 : (b \o c)[5 * (k - 1) + i] = Frame(d)[i]
    <3>1. CASE k <= Len(events)
      <4>1. k \in 1..Len(events)
        BY <1>8, <3>1
      <4>2. PICK d \in Nat : /\ events[k] = Event(d)
                             /\ \A i \in 1..5 : b[5 * (k - 1) + i] = Frame(d)[i]
        BY <1>4, <4>1 DEF Reading, Framed, b
      <4>3. ASSUME NEW i \in 1..5 PROVE (b \o c)[5 * (k - 1) + i] = Frame(d)[i]
        <5>1. 5 * (k - 1) + i \in 1..Len(b)
          BY <1>8, <4>1
        <5> QED BY <1>8, <4>2, <5>1
      <4> QED BY <1>7, <4>1, <4>2, <4>3
    <3>2. CASE k = Len(events) + 1
      <4>1. 5 * (k - 1) = Len(b)
        BY <1>8, <3>2
      <4>2. \A i \in 1..5 : (b \o c)[5 * (k - 1) + i] = c[i]
        BY <1>8, <4>1
      <4>3. new[k] = Event(n) /\ \A i \in 1..5 : (b \o c)[5 * (k - 1) + i] = Frame(n)[i]
        BY <1>7, <3>2, <4>2 DEF c
      <4> QED BY <1>2, <4>3
    <3>3. k \in 1..(Len(events) + 1) /\ Len(events) \in Nat
      BY <1>7, <1>8
    <3>4. k <= Len(events) \/ k = Len(events) + 1
      BY <3>3
    <3> QED BY <3>1, <3>2, <3>4
  <2>2. Len(b \o c) = 5 * Len(new)
    BY <1>7, <1>8
  <2> QED BY <2>1, <2>2 DEF Framed
<1>10. After(buf, b \o c, m)
  <2>1. /\ 5 * m + Len(buf) <= Len(b) /\ Len(buf) \in Nat
        /\ \A i \in 1..Len(buf) : buf[i] = b[5 * m + i]
    BY <1>4 DEF Reading, After, YieldInv, b
  <2>2. \A i \in 1..Len(buf) : 5 * m + i \in 1..Len(b)
    BY <1>8, <2>1
  <2>3. \A i \in 1..Len(buf) : buf[i] = (b \o c)[5 * m + i]
    BY <1>8, <2>1, <2>2
  <2>4. 5 * m + Len(buf) <= Len(b \o c)
    BY <1>8, <2>1
  <2> QED BY <2>3, <2>4 DEF After
<1>11. Reading(m)'
  <2>1. ASSUME NEW j \in 1..Len(parts) PROVE EventOf(parts[j]) = <<new[Len(yields) + j]>>
    <3>1. /\ Len(parts) = m - Len(yields) /\ 5 * m + Len(buf) <= Len(b)
          /\ Len(yields) \in Nat /\ Len(parts) \in Nat /\ Len(buf) \in Nat
      <4>1. Len(parts) = m - Len(yields) /\ 5 * m + Len(buf) <= Len(b)
        BY <1>4 DEF Reading, After, b
      <4>2. Len(yields) \in Nat /\ Len(parts) \in Nat /\ Len(buf) \in Nat
        BY DEF YieldInv
      <4> QED BY <4>1, <4>2
    <3>2. Len(yields) + j \in 1..Len(events)
      BY <1>8, <3>1
    <3> QED BY <1>4, <1>7, <3>2 DEF Reading
  <2>2. resp'.body = b \o c /\ events' = new
    BY <1>1, <1>6 DEF new
  <2> QED BY <1>1, <1>4, <1>9, <1>10, <2>1, <2>2 DEF Reading
<1>12. /\ Len(yields) <= Len(new) /\ \A j \in 1..Len(yields) : yields[j] = new[j]
  <2>1. Len(yields) <= Len(events) /\ Len(yields) \in Nat
    BY <1>5
  <2>2. \A j \in 1..Len(yields) : yields[j] = events[j]
    BY DEF YieldInv
  <2>3. \A j \in 1..Len(yields) : j \in 1..Len(events)
    BY <1>8, <2>1
  <2>4. \A j \in 1..Len(yields) : yields[j] = new[j]
    BY <1>7, <2>2, <2>3
  <2>5. Len(yields) <= Len(new)
    BY <1>7, <1>8, <2>1
  <2> QED BY <2>4, <2>5
<1>13. events' = new
  BY <1>1 DEF new
<1>14. \E k \in Nat : Reading(k)'
  BY <1>11
<1> QED BY <1>1, <1>7, <1>12, <1>13, <1>14 DEF YieldInv

(* Text without lines has no parts.                                         *)
LEMMA NoParts ==
    ASSUME NEW text, NoFrames(text), Len(text) \in Nat, DOMAIN text = 1..Len(text)
    PROVE  PartsOf(text) = <<>> /\ RestOf(text) = text
<1> DEFINE S == {i \in 1..(Len(text) - 1) : text[i] = NL /\ text[i + 1] = NL}
           f == [j \in 1..0 |-> 0]
           ends == Blanks(text)
<1>1. S = {}
  <2>1. ASSUME NEW i \in 1..(Len(text) - 1) PROVE text[i] # NL
    <3>1. text[i].u = "json"
      BY DEF NoFrames
    <3>2. NL.u = "nl"
      BY DEF NL, Piece
    <3> QED BY <3>1, <3>2
  <2> QED BY <2>1
<1>2. Ordered(S) = f
  <2>1. f \in [1..0 -> Nat] /\ (\A i, j \in 1..0 : i < j => f[i] < f[j])
        /\ S = {f[j] : j \in 1..0}
    BY <1>1
  <2> HIDE DEF S, f
  <2> QED BY <2>1, OrderedIs
<1>3. ends = f
  BY <1>2 DEF Blanks
<1>4. f = <<>>
  <2>1. f \in Seq(Nat) /\ Len(f) = 0
    OBVIOUS
  <2> HIDE DEF f
  <2> QED BY <2>1
<1>5. ends = <<>>
  BY <1>3, <1>4
<1> HIDE DEF f, S
<1>6. RestOf(text) = text
  <2>1. RestOf(text) = IF ends = <<>> THEN text ELSE SubSeq(text, Last(ends) + 2, Len(text))
    BY DEF RestOf
  <2> QED BY <1>5, <2>1
<1>7. PartsOf(text) = <<>>
  <2> DEFINE P(j) == SubSeq(text, IF j = 1 THEN 1 ELSE ends[j - 1] + 2, ends[j] - 1)
  <2>1. PartsOf(text) = [j \in DOMAIN ends |-> P(j)]
    BY DEF PartsOf
  <2> HIDE DEF ends, P
  <2>2. DOMAIN ends = 1..0
    BY <1>5
  <2> DEFINE g == [j \in 1..0 |-> P(j)]
  <2>3. g \in Seq(Nat) /\ Len(g) = 0
    OBVIOUS
  <2>4. PartsOf(text) = g
    BY <2>1, <2>2
  <2> HIDE DEF g
  <2> QED BY <2>3, <2>4
<1> QED BY <1>6, <1>7

(* A chunk adds what it completes to the parts.                             *)
LEMMA ChunkRead == RespInv /\ YieldInv /\ ReadChunk => YieldInv'
<1> SUFFICES ASSUME RespInv, YieldInv, ReadChunk PROVE YieldInv'
  OBVIOUS
<1> DEFINE U == Units(route)
           b == resp.body
<1>1. /\ client = "reading" /\ parts = <<>>
      /\ UNCHANGED <<route, resp, events, yields, pc, client>>
  BY DEF ReadChunk, writer, wrapper
<1>2. PICK n \in (nread + 1)..Len(resp.body) :
         /\ nread' = n
         /\ buf' = RestOf(buf \o SubSeq(resp.body, nread + 1, n))
         /\ parts' = PartsOf(buf \o SubSeq(resp.body, nread + 1, n))
  BY DEF ReadChunk
<1>3. /\ b \in Seq(U) /\ buf \in Seq(U) /\ nread \in Nat /\ Len(events) \in Nat
      /\ events \in Seq(Sent) /\ yields \in Seq(Sent)
  BY DEF RespInv, Shapes, YieldInv
<1>4. route.kind = "sse"
  BY <1>1 DEF YieldInv
<1> DEFINE more == SubSeq(b, nread + 1, n)
           text == buf \o more
<1> HIDE DEF U, b
<1>5. n \in Nat /\ nread + 1 <= n /\ n <= Len(b) /\ Len(b) \in Nat
  BY <1>2, <1>3 DEF b
<1>6. /\ more \in Seq(U) /\ Len(more) = n - nread
      /\ \A i \in 1..(n - nread) : more[i] = b[nread + i]
  <2> DEFINE a == nread + 1
  <2>1. /\ a \in Nat \ {0} /\ a <= n + 1 /\ n - a + 1 = n - nread
        /\ \A i \in Nat : a + i - 1 = nread + i
    BY <1>3, <1>5
  <2> HIDE DEF a
  <2>2. /\ SubSeq(b, a, n) \in Seq(U) /\ Len(SubSeq(b, a, n)) = n - a + 1
        /\ \A i \in 1..(n - a + 1) : SubSeq(b, a, n)[i] = b[a + i - 1]
    BY <1>3, <1>5, <2>1, SubText
  <2>3. more = SubSeq(b, a, n)
    BY DEF a
  <2> HIDE DEF more
  <2>4. ASSUME NEW i \in 1..(n - nread) PROVE more[i] = b[nread + i]
    <3>1. i \in Nat /\ i \in 1..(n - a + 1)
      BY <1>3, <1>5, <2>1
    <3> QED BY <2>1, <2>2, <2>3, <3>1
  <2> QED BY <2>1, <2>2, <2>3, <2>4
<1> HIDE DEF more
<1>7. /\ text \in Seq(U) /\ Len(text) = Len(buf) + (n - nread) /\ Len(buf) \in Nat
      /\ \A i \in 1..Len(buf) : text[i] = buf[i]
      /\ \A i \in 1..(n - nread) : text[Len(buf) + i] = b[nread + i]
  <2>1. text \in Seq(U)
    BY <1>3, <1>6
  <2>2. /\ Len(buf) \in Nat /\ Len(text) = Len(buf) + Len(more)
        /\ \A i \in 1..Len(buf) : text[i] = buf[i]
        /\ \A i \in 1..Len(more) : text[Len(buf) + i] = more[i]
    <3>1. buf \in Seq(U) /\ more \in Seq(U)
      BY <1>3, <1>6
    <3>2. /\ Len(buf) \in Nat /\ Len(more) \in Nat /\ Len(buf \o more) = Len(buf) + Len(more)
          /\ \A i \in 1..Len(buf) : (buf \o more)[i] = buf[i]
          /\ \A i \in 1..Len(more) : (buf \o more)[Len(buf) + i] = more[i]
      BY <3>1, BothTexts
    <3> QED BY <3>2
  <2> HIDE DEF text
  <2> QED BY <1>6, <2>1, <2>2
<1>8. buf' = RestOf(text) /\ parts' = PartsOf(text)
  BY <1>2 DEF text, more, b
<1> HIDE DEF text
<1>9. CASE Refusal
  <2>1. NoFrames(text)
    <3>1. ASSUME NEW i \in DOMAIN text PROVE text[i].u = "json"
      <4>1. i \in 1..Len(text)
        BY <1>7
      <4>2. CASE i <= Len(buf)
        <5>1. i \in DOMAIN buf /\ text[i] = buf[i]
          BY <1>3, <1>7, <4>1, <4>2
        <5> QED BY <1>9, <5>1 DEF Refusal, NoFrames
      <4>3. CASE i > Len(buf)
        <5> DEFINE k == i - Len(buf)
        <5>1. k \in 1..(n - nread) /\ Len(buf) + k = i
          BY <1>3, <1>5, <1>7, <4>1, <4>3
        <5> HIDE DEF k
        <5>2. text[i] = b[nread + k]
          BY <1>7, <5>1
        <5>3. nread + k \in 1..Len(b)
          BY <1>3, <1>5, <5>1
        <5>4. nread + k \in DOMAIN b
          BY <1>3, <5>3
        <5> QED BY <1>9, <5>2, <5>4 DEF Refusal, NoFrames, b
      <4> QED BY <1>7, <4>1, <4>2, <4>3
    <3> QED BY <3>1 DEF NoFrames
  <2>2. parts' = <<>> /\ buf' = text
    <3>1. Len(text) \in Nat /\ DOMAIN text = 1..Len(text)
      BY <1>7
    <3> QED BY <1>8, <2>1, <3>1, NoParts
  <2>3. Refusal'
    BY <1>1, <1>9, <2>1, <2>2 DEF Refusal, NoFrames
  <2>4. buf' \in Seq(U) /\ parts' \in Seq(Seq(U)) /\ nread' \in Nat
    <3>1. <<>> \in Seq(Seq(U))
      OBVIOUS
    <3> QED BY <1>2, <1>5, <1>7, <2>2, <3>1
  <2> QED BY <1>1, <1>4, <2>3, <2>4 DEF YieldInv, U
<1>10. ASSUME NEW m \in Nat, Reading(m) PROVE YieldInv'
  <2>1. PICK K \in Nat : 5 * K <= Len(text) /\ Len(text) < 5 * K + 5 /\ Len(text) \in Nat
    <3> DEFINE k == Len(text) \div 5
    <3>1. k \in Nat /\ 5 * k <= Len(text) /\ Len(text) < 5 * k + 5 /\ Len(text) \in Nat
      BY <1>7
    <3> QED BY <3>1
  <2>2. /\ Framed(b, events) /\ nread = 5 * m + Len(buf) /\ 0 = m - Len(yields)
        /\ \A i \in 1..Len(buf) : buf[i] = b[5 * m + i]
    BY <1>1, <1>10 DEF Reading, After, b
  <2>3. After(text, b, m) /\ 5 * m + Len(text) = n
    <3>1. 5 * m + Len(text) = n
      BY <1>3, <1>5, <1>7, <2>2
    <3>2. ASSUME NEW i \in 1..Len(text) PROVE text[i] = b[5 * m + i]
      <4>1. CASE i <= Len(buf)
        <5>1. i \in 1..Len(buf)
          BY <1>7, <4>1
        <5> QED BY <1>7, <2>2, <5>1
      <4>2. CASE i > Len(buf)
        <5> DEFINE k == i - Len(buf)
        <5>1. k \in 1..(n - nread) /\ Len(buf) + k = i /\ nread + k = 5 * m + i
          BY <1>3, <1>5, <1>7, <2>2, <4>2
        <5> HIDE DEF k
        <5>2. text[Len(buf) + k] = b[nread + k]
          BY <1>7, <5>1
        <5> QED BY <5>1, <5>2
      <4>3. i \in Nat /\ Len(buf) \in Nat
        BY <1>7
      <4> QED BY <4>1, <4>2, <4>3
    <3> QED BY <1>5, <3>1, <3>2 DEF After
  <2>4. /\ PartsOf(text) \in Seq(Seq(U)) /\ Len(PartsOf(text)) = K
        /\ \A j \in 1..K : EventOf(PartsOf(text)[j]) = <<events[m + j]>>
        /\ RestOf(text) \in Seq(U) /\ Len(RestOf(text)) = Len(text) - 5 * K
        /\ \A i \in 1..(Len(text) - 5 * K) : RestOf(text)[i] = text[5 * K + i]
    <3>1. /\ Len(events) \in Nat /\ b \in Seq(Units(route)) /\ Framed(b, events)
          /\ text \in Seq(Units(route)) /\ After(text, b, m)
          /\ 5 * K <= Len(text) /\ Len(text) < 5 * K + 5
      BY <1>3, <1>7, <2>1, <2>2, <2>3 DEF U
    <3>2. Cut(text, Units(route), events, m, K)
      BY <3>1, ChunkFacts
    <3>3. Cut(text, U, events, m, K)
      BY <3>2 DEF U
    <3> QED BY <3>3 DEF Cut
  <2> DEFINE r == RestOf(text)
             p == PartsOf(text)
             M == m + K
  <2> HIDE DEF r, p
  <2>5. After(r, b, M) /\ n = 5 * M + Len(r) /\ Len(r) < 5 /\ M \in Nat
    <3>1. Len(r) = Len(text) - 5 * K
      BY <2>4 DEF r
    <3>2. 5 * M = 5 * m + 5 * K /\ n = 5 * M + Len(r) /\ Len(r) < 5 /\ M \in Nat
      BY <2>1, <2>3, <3>1
    <3>3. ASSUME NEW i \in 1..Len(r) PROVE r[i] = b[5 * M + i]
      <4> DEFINE q == 5 * K + i
      <4>1. q \in 1..Len(text) /\ i \in 1..(Len(text) - 5 * K) /\ 5 * m + q = 5 * M + i
        BY <2>1, <3>1, <3>2
      <4>2. r[i] = text[q]
        BY <2>4, <4>1 DEF r
      <4> HIDE DEF q
      <4>3. text[q] = b[5 * m + q]
        BY <2>3, <4>1 DEF After
      <4> QED BY <4>1, <4>2, <4>3
    <3> HIDE DEF M
    <3> QED BY <1>5, <3>2, <3>3 DEF After
  <2>6. Len(p) = K /\ K = M - Len(yields) /\ \A j \in 1..K : EventOf(p[j]) = <<events[Len(yields) + j]>>
    <3>1. Len(yields) = m /\ Len(yields) \in Nat
      BY <1>3, <2>2
    <3>2. K = M - Len(yields)
      BY <2>1, <3>1
    <3> QED BY <2>4, <3>1, <3>2 DEF p
  <2> HIDE DEF M
  <2>7. buf' = r /\ parts' = p /\ nread' = n
    BY <1>2, <1>8 DEF r, p
  <2>8. Reading(M)'
    <3>1. resp'.body = b /\ events' = events /\ yields' = yields
      BY <1>1 DEF b
    <3> QED BY <2>2, <2>5, <2>6, <2>7, <3>1 DEF Reading
  <2>9. \E k \in Nat : Reading(k)'
    BY <2>5, <2>8
  <2>10. buf' \in Seq(U) /\ parts' \in Seq(Seq(U)) /\ nread' \in Nat
    BY <1>5, <2>4, <2>7 DEF r, p
  <2> QED BY <1>1, <1>4, <2>9, <2>10 DEF YieldInv, U
<1>11. Refusal \/ \E m \in Nat : Reading(m)
  BY <1>4 DEF YieldInv
<1> QED BY <1>9, <1>10, <1>11

(* A part yields the next event.                                            *)
LEMMA PartYielded == YieldInv /\ Yield => YieldInv'
<1> SUFFICES ASSUME YieldInv, Yield PROVE YieldInv'
  OBVIOUS
<1>1. /\ client = "reading" /\ parts # <<>>
      /\ yields' = yields \o EventOf(Head(parts)) /\ parts' = Tail(parts)
      /\ UNCHANGED <<route, resp, events, pc, client, nread, buf>>
  BY DEF Yield, writer, wrapper
<1>2. route.kind = "sse"
  BY <1>1 DEF YieldInv
<1>3. PICK m \in Nat : Reading(m)
  BY <1>1, <1>2 DEF YieldInv, Refusal
<1> DEFINE L == Len(yields)
           P == Len(parts)
<1>4. /\ events \in Seq(Sent) /\ yields \in Seq(Sent) /\ parts \in Seq(Seq(Units(route)))
      /\ L \in Nat /\ P \in Nat /\ Len(events) \in Nat /\ Len(buf) \in Nat
      /\ \A j \in 1..L : yields[j] = events[j]
  BY DEF YieldInv
<1>5. P = m - L /\ \A j \in 1..P : EventOf(parts[j]) = <<events[L + j]>>
  BY <1>3 DEF Reading
<1>6. P >= 1 /\ Head(parts) = parts[1] /\ Tail(parts) \in Seq(Seq(Units(route)))
      /\ Len(Tail(parts)) = P - 1 /\ \A j \in 1..(P - 1) : Tail(parts)[j] = parts[j + 1]
  BY <1>1, <1>4
<1>7. L + 1 <= Len(events)
  <2>1. 5 * m + Len(buf) <= 5 * Len(events)
    BY <1>3 DEF Reading, Framed, After
  <2> QED BY <1>4, <1>5, <1>6, <2>1
<1> DEFINE x == events[L + 1]
           new == yields \o <<x>>
<1>8. yields' = new /\ x \in Sent
  <2>1. EventOf(parts[1]) = <<events[L + 1]>>
    BY <1>5, <1>6
  <2>2. L + 1 \in 1..Len(events)
    BY <1>4, <1>7
  <2>3. x \in Sent
    BY <1>4, <2>2
  <2>4. Head(parts) = parts[1]
    BY <1>6
  <2>5. EventOf(Head(parts)) = <<x>>
    BY <2>1, <2>4
  <2> QED BY <1>1, <2>3, <2>5
<1> HIDE DEF x
<1>9. /\ new \in Seq(Sent) /\ Len(new) = L + 1 /\ new[L + 1] = x
      /\ \A j \in 1..L : new[j] = yields[j]
  BY <1>4, <1>8
<1> HIDE DEF new
<1>10. \A j \in 1..(L + 1) : new[j] = events[j]
  <2>1. ASSUME NEW j \in 1..(L + 1) PROVE new[j] = events[j]
    <3>1. CASE j \in 1..L
      BY <1>4, <1>9, <3>1
    <3>2. CASE j = L + 1
      BY <1>9, <3>2 DEF x
    <3>3. j \in 1..L \/ j = L + 1
      BY <1>4
    <3> QED BY <3>1, <3>2, <3>3
  <2> QED BY <2>1
<1>11. \E k \in Nat : Reading(k)'
  <2> DEFINE t == Tail(parts)
  <2>1. Len(t) = m - Len(new)
    BY <1>4, <1>5, <1>6, <1>9
  <2>2. ASSUME NEW j \in 1..Len(t) PROVE EventOf(t[j]) = <<events[Len(new) + j]>>
    <3>1. j \in 1..(P - 1) /\ j + 1 \in 1..P /\ L + (j + 1) = Len(new) + j
      BY <1>4, <1>6, <1>9
    <3>2. t[j] = parts[j + 1]
      BY <1>6, <3>1
    <3>3. EventOf(parts[j + 1]) = <<events[L + (j + 1)]>>
      BY <1>5, <3>1
    <3> QED BY <3>1, <3>2, <3>3
  <2>3. parts' = t
    BY <1>1
  <2> HIDE DEF t
  <2>4. Reading(m)'
    BY <1>1, <1>3, <1>8, <2>1, <2>2, <2>3 DEF Reading
  <2> QED BY <2>4
<1> QED BY <1>1, <1>2, <1>6, <1>7, <1>8, <1>9, <1>10, <1>11 DEF YieldInv

(* Every step, by cases.                                                    *)
LEMMA StepYields == RespInv /\ YieldInv /\ [Next]_vars => YieldInv'
<1> SUFFICES ASSUME RespInv, YieldInv, [Next]_vars PROVE YieldInv'
  OBVIOUS
<1>1. CASE RejectInput \/ AcceptInput \/ HandlerSucceeds \/ HandlerFails \/ StreamEnds
  BY <1>1, WrapperReads
<1>2. CASE RawWriteHeader \/ RawWrite \/ RawFlush
  <2>1. /\ route.kind # "sse"
        /\ UNCHANGED <<route, events, nread, buf, parts, yields, client>>
    BY <1>2 DEF RawWriteHeader, RawWrite, RawFlush, Uses, reader
  <2> QED BY <2>1 DEF YieldInv
<1>3. CASE SendUnregistered \/ SendCannotMarshal \/ SendBreaks
  <2> DEFINE b == resp.body
  <2>1. /\ pc' = pc
        /\ UNCHANGED <<route, events, nread, buf, parts, yields, client>>
    BY <1>3 DEF SendUnregistered, SendCannotMarshal, SendBreaks, wrapper, reader
  <2>2. resp' = resp \/ resp' = Commit(resp, 200, header')
    BY <1>3 DEF SendUnregistered, SendCannotMarshal, SendBreaks
  <2>3. Response(resp, b)
    BY DEF RespInv, Shapes
  <2>4. resp'.body = b
    BY <2>2, <2>3, CommitFacts
  <2> QED BY <2>1, <2>4, NothingRead
<1>4. CASE SendEvent
  BY <1>4, EventSent
<1>5. CASE ReadChunk
  BY <1>5, ChunkRead
<1>6. CASE Yield
  BY <1>6, PartYielded
<1>7. CASE FetchResolves \/ ReadDone \/ ReadRejects \/ Leave \/ Close
  <2>1. /\ client \in {"fetching", "reading"}
        /\ UNCHANGED <<route, resp, events, pc, nread, buf, parts, yields>>
    BY <1>7 DEF FetchResolves, ReadDone, ReadRejects, Leave, Close, writer, wrapper
  <2>2. route.kind = "sse"
    BY <2>1 DEF YieldInv
  <2> QED BY <2>1, <2>2, NothingRead
<1>8. CASE Disconnect \/ UNCHANGED vars
  <2>1. UNCHANGED <<route, resp, events, pc, nread, buf, parts, yields, client>>
    BY <1>8 DEF Disconnect, vars, writer, wrapper, reader
  <2> QED BY <2>1, NothingRead
<1> QED BY <1>1, <1>2, <1>3, <1>4, <1>5, <1>6, <1>7, <1>8 DEF Next, Server, Reader

(* However the stream is cut into chunks, the reader yields the events that *)
(* were sent, each once, in order and with their data.                      *)
THEOREM YieldsFollowSendsCorrect == FairSpec => []YieldsFollowSends
<1>1. YieldInv => YieldsFollowSends
  <2> SUFFICES ASSUME YieldInv PROVE YieldsFollowSends
    OBVIOUS
  <2> DEFINE n == Len(yields)
  <2>1. /\ yields \in Seq(Sent) /\ events \in Seq(Sent) /\ n \in Nat /\ n <= Len(events)
        /\ Len(events) \in Nat /\ \A j \in 1..n : yields[j] = events[j]
    BY DEF YieldInv
  <2>2. SubSeq(yields, 1, n) = SubSeq(events, 1, n)
    <3>1. /\ SubSeq(yields, 1, n) = [i \in 1..n |-> yields[i]]
          /\ SubSeq(events, 1, n) = [i \in 1..n |-> events[i]]
      BY <2>1
    <3> QED BY <2>1, <3>1
  <2> QED BY <2>1, <2>2 DEF YieldsFollowSends, IsPrefix
<1>2. Init => RespInv /\ YieldInv
  BY InitRespInv, InitYieldInv
<1>3. RespInv /\ YieldInv /\ [Next]_vars => RespInv' /\ YieldInv'
  BY StepKeeps, StepYields
<1> QED BY <1>1, <1>2, <1>3, PTL DEF FairSpec

=============================================================================
