------------------------- MODULE InputContractProofs -------------------------
(***************************************************************************)
(* Proofs about InputContract: for every input struct and every request,   *)
(* whatever the body carries, a field gets its value from its own place    *)
(* (OwnSource), and the body sets the fields the document shows            *)
(* (BodyAsDocumented).                                                     *)
(***************************************************************************)
EXTENDS InputContract, TLAPS

(* The parts of the request that have parameters, in their order. *)
Places == {"query", "path", "header"}

(* At pc = p, the handler has not parsed that part of the request. *)
Todo(p, tag) ==
  \/ p \in {"idle", "body", "query"}
  \/ p = "path" /\ tag \in {"path", "header"}
  \/ p = "header" /\ tag = "header"

Rejected == pc = "done" /\ verdict # 200

(* What registration computed stays, and the request has no other keys than *)
(* those encoding/json sees.                                                *)
SetupInv ==
  /\ hc = handlerCfg /\ doc = updateSchema
  /\ sent.keys \subseteq {i \in Fields : struct[i].json}
  /\ DOMAIN in = Fields

(* Fields of a place are untouched until their part is parsed, and then    *)
(* hold what it carries, whatever was in the body.                         *)
PlaceInv ==
  \A i \in Fields : struct[i].tag \in Places =>
    /\ Todo(pc, struct[i].tag) => in[i] = "zero"
    /\ ~Todo(pc, struct[i].tag) /\ ~Rejected =>
         in[i] = IF Texts(i) = <<>> THEN "zero" ELSE struct[i].tag

(* Fields of no place are set by the body only, files by the form only. *)
BodyInv ==
  /\ pc \in {"idle", "body"} => \A i \in Fields : in[i] = "zero"
  /\ \A i \in Fields : struct[i].tag = "none" => in[i] \in {"zero", "body"}
  /\ \A i \in Fields :
       struct[i].tag = "form" /\ struct[i].kind = "file" => in[i] \in {"zero", "form"}

(* Once the body is read, it has set exactly the properties it carries. *)
KeysInv ==
  hc.body /\ pc \notin {"idle", "body"} /\ ~Rejected =>
    \A i \in Fields : in[i] = "body" <=> i \in sent.keys /\ i \in bodyProperties

InputInv == SetupInv /\ PlaceInv /\ BodyInv /\ KeysInv

----------------------------------------------------------------------------
(* A place is parsed after a part. *)
Follows(part, tag) ==
  \/ part \in {"form", "body"}
  \/ part = "query" /\ tag \in {"path", "header"}
  \/ part = "path" /\ tag = "header"

(* The parts after a part: those of the later places that have a field.    *)
LEMMA AfterPart ==
    ASSUME hc = handlerCfg, NEW part \in {"form", "body"} \cup Places
    PROVE  /\ After(part) \in {"query", "path", "header", "validate"}
           /\ \A t \in Places : Tagged(t) # {} =>
                (Todo(After(part), t) <=> Follows(part, t))
<1>1. /\ hc.query <=> Tagged("query") # {}
      /\ hc.path <=> Tagged("path") # {}
      /\ hc.header <=> Tagged("header") # {}
    BY DEF handlerCfg
<1>2. CASE part \in {"form", "body"}
    BY <1>1, <1>2 DEF After, Todo, Follows, Places
<1>3. CASE part = "query"
    BY <1>1, <1>3 DEF After, Todo, Follows, Places
<1>4. CASE part = "path"
    BY <1>1, <1>4 DEF After, Todo, Follows, Places
<1>5. CASE part = "header"
    BY <1>1, <1>5 DEF After, Todo, Follows, Places
<1>6. QED
    BY <1>2, <1>3, <1>4, <1>5 DEF Places

(* Registration is not changed by a request. *)
LEMMA SetupStays ==
    ASSUME UNCHANGED <<route, hc, doc>>
    PROVE  /\ Fields' = Fields
           /\ \A t : Tagged(t)' = Tagged(t)
           /\ handlerCfg' = handlerCfg /\ updateSchema' = updateSchema
           /\ bodyProperties' = bodyProperties
<1>1. struct' = struct /\ forced' = forced /\ pattern' = pattern
    BY DEF route
<1>2. Fields' = Fields
    BY <1>1 DEF Fields
<1>3. \A t : Tagged(t)' = Tagged(t)
    BY <1>1, <1>2 DEF Tagged
<1>4. BodyFields' = BodyFields
    BY <1>1, <1>2 DEF BodyFields
<1>5. handlerCfg' = handlerCfg
    BY <1>1, <1>3, <1>4 DEF handlerCfg
<1>6. bodyProperties' = bodyProperties
    BY <1>1, <1>2, <1>3 DEF bodyProperties
<1>7. bodyRequired' = bodyRequired
    BY <1>1, <1>6 DEF bodyRequired
<1>8. \A t : {Parameter(i) : i \in Tagged(t)}' = {Parameter(i) : i \in Tagged(t)}
    BY <1>1, <1>3 DEF Parameter
<1>9. updateSchema' = updateSchema
  <2>1. bodyType' = bodyType
      BY <1>1, <1>3, <1>4 DEF bodyType
  <2>2. generateFormSchema' = generateFormSchema
      BY <1>1, <1>3 DEF generateFormSchema
  <2>3. requestBody' = requestBody
      BY <1>3, <1>6, <1>7, <2>1, <2>2 DEF requestBody
  <2>4. QED
      BY <1>1, <1>8, <2>3 DEF updateSchema, pathParams, generateQueryParams, generateHeaderParams
<1>10. QED
    BY <1>2, <1>3, <1>5, <1>6, <1>9

----------------------------------------------------------------------------
LEMMA InputInit == Init => InputInv
<1> SUFFICES ASSUME Init PROVE InputInv
    OBVIOUS
<1>1. SetupInv
    BY DEF Init, SetupInv, Empty
<1>2. PlaceInv
    BY DEF Init, PlaceInv, Todo
<1>3. BodyInv
    BY DEF Init, BodyInv
<1>4. KeysInv
    BY DEF Init, KeysInv
<1>5. QED
    BY <1>1, <1>2, <1>3, <1>4 DEF InputInv

(* Registration is not changed by a request, nor what it carries. *)
LEMMA SetupKept ==
    ASSUME SetupInv, UNCHANGED <<route, hc, doc, sent>>, DOMAIN in' = Fields
    PROVE  SetupInv' /\ \A i : Texts(i)' = Texts(i)
<1>1. struct' = struct /\ sent' = sent
    BY DEF route
<1>2. \A i : Texts(i)' = Texts(i)
    BY <1>1 DEF Texts
<1>3. QED
    BY <1>1, <1>2, SetupStays DEF SetupInv

(* Answering with a status does not touch the input. *)
LEMMA AnswerStep ==
    ASSUME InputInv, NEW status, Answer(status),
           status # 200 \/ pc = "validate"
    PROVE  InputInv'
<1>1. SetupInv' /\ (\A i : Texts(i)' = Texts(i))
    BY SetupKept DEF InputInv, SetupInv, Answer
<1>2. struct' = struct /\ in' = in /\ hc' = hc /\ sent' = sent /\ pc' = "done" /\ verdict' = status
    BY DEF Answer, route
<1>3. Fields' = Fields /\ bodyProperties' = bodyProperties
    BY SetupStays DEF Answer
<1>4. PlaceInv'
  <2>1. CASE status # 200
      BY <1>2, <1>3, <2>1 DEF PlaceInv, Todo, Rejected
  <2>2. CASE pc = "validate"
      BY <1>1, <1>2, <1>3, <2>2 DEF InputInv, PlaceInv, Todo, Rejected, Places
  <2>3. QED
      BY <2>1, <2>2
<1>5. BodyInv'
    BY <1>2, <1>3 DEF InputInv, BodyInv
<1>6. KeysInv'
  <2>1. CASE status # 200
      BY <1>2, <2>1 DEF KeysInv, Rejected
  <2>2. CASE pc = "validate"
      BY <1>2, <1>3, <2>2 DEF InputInv, KeysInv, Rejected
  <2>3. QED
      BY <2>1, <2>2
<1>7. QED
    BY <1>1, <1>4, <1>5, <1>6 DEF InputInv

(* Parsing a part fills the fields of its place and no others. *)
LEMMA ParseStep ==
    ASSUME InputInv, NEW tag \in {"form"} \cup Places,
           pc = (IF tag = "form" THEN "body" ELSE tag),
           tag = "form" => hc.form,
           ParseInto(tag)
    PROVE  InputInv'
<1>1. CASE \E i \in Tagged(tag) : Fails(i)
  <2>1. Answer(400)
      BY <1>1 DEF ParseInto
  <2>2. QED
      BY <2>1, AnswerStep
<1>2. CASE ~\E i \in Tagged(tag) : Fails(i)
  <2>1. /\ in' = [i \in Fields |-> IF i \in Tagged(tag) /\ Texts(i) # <<>>
                                   THEN PlaceOf(i) ELSE in[i]]
        /\ pc' = After(tag)
        /\ UNCHANGED <<route, hc, doc, sent, verdict>>
      BY <1>2 DEF ParseInto
  <2>2. SetupInv' /\ (\A i : Texts(i)' = Texts(i))
      BY <2>1, SetupKept DEF InputInv
  <2>3. /\ struct' = struct /\ hc' = hc /\ sent' = sent
        /\ Fields' = Fields /\ bodyProperties' = bodyProperties
      BY <2>1, SetupStays DEF route
  <2>4. /\ pc' \in {"query", "path", "header", "validate"}
        /\ \A t \in Places : Tagged(t) # {} => (Todo(pc', t) <=> Follows(tag, t))
      BY <2>1, AfterPart DEF InputInv, SetupInv
  <2>5. \A i \in Fields : struct[i].tag # tag => in'[i] = in[i]
      BY <2>1 DEF Tagged
  <2>6. \A i \in Fields : struct[i].tag = tag =>
          in'[i] = IF Texts(i) = <<>> THEN in[i] ELSE PlaceOf(i)
      BY <2>1 DEF Tagged
  <2>7. PlaceInv'
    <3> SUFFICES ASSUME NEW i \in Fields, struct[i].tag \in Places
                 PROVE  /\ Todo(pc', struct[i].tag) => in'[i] = "zero"
                        /\ ~Todo(pc', struct[i].tag) =>
                             in'[i] = IF Texts(i) = <<>> THEN "zero" ELSE struct[i].tag
        BY <2>2, <2>3 DEF PlaceInv
    <3>1. Todo(pc', struct[i].tag) <=> Follows(tag, struct[i].tag)
        BY <2>4 DEF Tagged
    <3>2. CASE struct[i].tag = tag
      <4>1. in[i] = "zero"
          BY <3>2 DEF InputInv, PlaceInv, Todo, Places
      <4>2. PlaceOf(i) = tag
          BY <3>2 DEF PlaceOf, Places
      <4>3. ~Follows(tag, tag)
          BY <3>2 DEF Follows, Places
      <4>4. QED
          BY <2>6, <3>1, <3>2, <4>1, <4>2, <4>3
    <3>3. CASE struct[i].tag # tag
      <4>1. in'[i] = in[i]
          BY <2>5, <3>3
      <4>2. Todo(pc, struct[i].tag) <=> Follows(tag, struct[i].tag)
          BY <3>3 DEF Todo, Follows, Places
      <4>3. ~Rejected
          BY DEF Rejected, Places
      <4>4. QED
          BY <3>1, <4>1, <4>2, <4>3 DEF InputInv, PlaceInv
    <3>4. QED
        BY <3>2, <3>3
  <2>8. BodyInv'
    <3>1. \A i \in Fields : struct[i].tag = "none" => in'[i] \in {"zero", "body"}
        BY <2>5 DEF InputInv, BodyInv, Places
    <3>2. ASSUME NEW i \in Fields, struct[i].tag = "form", struct[i].kind = "file"
          PROVE  in'[i] \in {"zero", "form"}
      <4>1. PlaceOf(i) = "form"
          BY <3>2 DEF PlaceOf
      <4>2. QED
          BY <2>5, <2>6, <3>2, <4>1 DEF InputInv, BodyInv
    <3>3. QED
        BY <2>3, <2>4, <3>1, <3>2 DEF BodyInv
  <2>9. KeysInv'
    <3> SUFFICES ASSUME hc.body, NEW i \in Fields
                 PROVE  in'[i] = "body" <=> i \in sent.keys /\ i \in bodyProperties
        BY <2>3 DEF KeysInv
    <3>1. tag # "form"
        BY DEF InputInv, SetupInv, handlerCfg
    <3>2. in[i] = "body" <=> i \in sent.keys /\ i \in bodyProperties
        BY <3>1 DEF InputInv, KeysInv, Rejected, Places
    <3>3. CASE struct[i].tag = tag
      <4>1. i \notin bodyProperties
          BY <3>1, <3>3 DEF bodyProperties, Tagged, Places
      <4>2. PlaceOf(i) # "body"
          BY <3>1, <3>3 DEF PlaceOf, Places
      <4>3. QED
          BY <2>6, <3>2, <3>3, <4>1, <4>2
    <3>4. QED
        BY <2>5, <3>2, <3>3
  <2>10. QED
      BY <2>2, <2>7, <2>8, <2>9 DEF InputInv
<1>3. QED
    BY <1>1, <1>2

(* A request arrives: nothing of it has been read. *)
LEMMA ArriveStep ==
    ASSUME InputInv, Arrive
    PROVE  InputInv'
<1>1. /\ pc = "idle" /\ pc' = "body"
      /\ UNCHANGED <<route, hc, doc, in, isNil, verdict>>
    BY DEF Arrive
<1>2. sent'.keys \subseteq {i \in Fields : struct[i].json}
  <2>1. \A q, p, h, f, multipart, body, keys, zeros :
          Request(q, p, h, f, multipart, body, keys, zeros).keys = keys
      BY DEF Request
  <2>2. QED
      BY <2>1 DEF Arrive, Keys
<1>3. struct' = struct /\ Fields' = Fields
    BY <1>1, SetupStays DEF route
<1>4. SetupInv'
    BY <1>1, <1>2, <1>3, SetupStays DEF InputInv, SetupInv
<1>5. PlaceInv'
    BY <1>1, <1>3 DEF InputInv, BodyInv, PlaceInv, Todo
<1>6. BodyInv'
    BY <1>1, <1>3 DEF InputInv, BodyInv
<1>7. KeysInv'
    BY <1>1 DEF KeysInv
<1>8. QED
    BY <1>4, <1>5, <1>6, <1>7 DEF InputInv

(* resetFields undoes what the body did to the fields of other places. *)
LEMMA DecodeStep ==
    ASSUME InputInv, decodeBody
    PROVE  InputInv'
<1>1. CASE sent.body \in {"none", "malformed"}
  <2>1. Answer(400)
      BY <1>1 DEF decodeBody
  <2>2. QED
      BY <2>1, AnswerStep
<1>2. CASE sent.body \notin {"none", "malformed"}
  <2>1. /\ pc = "body" /\ hc.body
        /\ in' = resetFields([i \in Fields |-> IF i \in sent.keys THEN "body" ELSE "zero"])
        /\ pc' = After("body")
        /\ UNCHANGED <<route, hc, doc, sent, verdict>>
      BY <1>2 DEF decodeBody
  <2>2. in' = [i \in Fields |-> IF struct[i].tag \notin Places /\ i \in sent.keys
                                THEN "body" ELSE "zero"]
      BY <2>1 DEF resetFields, Places
  <2>3. SetupInv'
      BY <2>1, <2>2, SetupKept DEF InputInv
  <2>4. /\ struct' = struct /\ hc' = hc /\ sent' = sent
        /\ Fields' = Fields /\ bodyProperties' = bodyProperties
      BY <2>1, SetupStays DEF route
  <2>5. /\ pc' \in {"query", "path", "header", "validate"}
        /\ \A t \in Places : Tagged(t) # {} => Todo(pc', t)
      BY <2>1, AfterPart DEF InputInv, SetupInv, Follows
  <2>6. Tagged("form") = {}
      BY <2>1 DEF InputInv, SetupInv, handlerCfg
  <2>7. PlaceInv'
      BY <2>2, <2>4, <2>5 DEF PlaceInv, Tagged
  <2>8. BodyInv'
      BY <2>2, <2>4, <2>5, <2>6 DEF BodyInv, Tagged
  <2>9. KeysInv'
    <3>1. \A i \in Fields : i \in bodyProperties <=> struct[i].json /\ struct[i].tag \notin Places
        BY DEF bodyProperties, Tagged, Places
    <3>2. sent.keys \subseteq {i \in Fields : struct[i].json}
        BY DEF InputInv, SetupInv
    <3>3. QED
        BY <2>2, <2>4, <3>1, <3>2 DEF KeysInv
  <2>10. QED
      BY <2>3, <2>7, <2>8, <2>9 DEF InputInv
<1>3. QED
    BY <1>1, <1>2

(* A route that reads no body goes on to its parameters. *)
LEMMA NoBodyStep ==
    ASSUME InputInv, NoBody
    PROVE  InputInv'
<1>1. /\ pc = "body" /\ ~hc.body /\ pc' = After("body")
      /\ UNCHANGED <<route, hc, doc, sent, in, isNil, verdict>>
    BY DEF NoBody
<1>2. SetupInv'
    BY <1>1, SetupKept DEF InputInv, SetupInv
<1>3. struct' = struct /\ hc' = hc /\ Fields' = Fields
    BY <1>1, SetupStays DEF route
<1>4. /\ pc' \in {"query", "path", "header", "validate"}
      /\ \A t \in Places : Tagged(t) # {} => Todo(pc', t)
    BY <1>1, AfterPart DEF InputInv, SetupInv, Follows
<1>5. PlaceInv'
    BY <1>1, <1>3, <1>4 DEF InputInv, BodyInv, PlaceInv, Tagged
<1>6. BodyInv'
    BY <1>1, <1>3, <1>4 DEF InputInv, BodyInv
<1>7. KeysInv'
    BY <1>1, <1>3 DEF KeysInv
<1>8. QED
    BY <1>2, <1>5, <1>6, <1>7 DEF InputInv

(* Each step of a request preserves the invariant. *)
LEMMA InputStep == InputInv /\ [Next]_vars => InputInv'
<1> SUFFICES ASSUME InputInv, [Next]_vars PROVE InputInv'
    OBVIOUS
<1>1. CASE Arrive
    BY <1>1, ArriveStep
<1>2. CASE parseFormInto
  <2>1. pc = "body" /\ hc.form /\ (Answer(400) \/ ParseInto("form"))
      BY <1>2 DEF parseFormInto
  <2>2. CASE Answer(400)
      BY <2>2, AnswerStep
  <2>3. CASE ParseInto("form")
      BY <2>1, <2>3, ParseStep
  <2>4. QED
      BY <2>1, <2>2, <2>3
<1>3. CASE decodeBody
    BY <1>3, DecodeStep
<1>4. CASE NoBody
    BY <1>4, NoBodyStep
<1>5. CASE parseQueryInto
    BY <1>5, ParseStep DEF parseQueryInto, Places
<1>6. CASE parsePathInto
    BY <1>6, ParseStep DEF parsePathInto, Places
<1>7. CASE parseHeadersInto
    BY <1>7, ParseStep DEF parseHeadersInto, Places
<1>8. CASE validate
    BY <1>8, AnswerStep DEF validate
<1>9. CASE UNCHANGED vars
  <2>1. UNCHANGED <<route, hc, doc, sent, in, pc, verdict>>
      BY <1>9 DEF vars
  <2>2. SetupInv' /\ (\A i : Texts(i)' = Texts(i))
      BY <2>1, SetupKept DEF InputInv, SetupInv
  <2>3. struct' = struct /\ Fields' = Fields /\ bodyProperties' = bodyProperties
      BY <2>1, SetupStays DEF route
  <2>4. PlaceInv' /\ BodyInv' /\ KeysInv'
      BY <2>1, <2>2, <2>3 DEF InputInv, PlaceInv, BodyInv, KeysInv, Todo, Rejected
  <2>5. QED
      BY <2>2, <2>4 DEF InputInv
<1>10. QED
    BY <1>1, <1>2, <1>3, <1>4, <1>5, <1>6, <1>7, <1>8, <1>9 DEF Next

----------------------------------------------------------------------------
(* What registration computed stays and agrees with itself; every field is *)
(* zero until its own part of the request is parsed, and the body sets the *)
(* fields of the body only: parseInput's order of steps keeps this up.     *)
THEOREM InputInvariant == Spec => []InputInv
    BY InputInit, InputStep, PTL DEF Spec

(* The handler gets in a path, query or header field what that part of the *)
(* request carries, whatever keys the body has (resetFields), for every    *)
(* input struct and every request.                                         *)
THEOREM OwnSourceCorrect == Spec => []OwnSource
<1>1. InputInv => OwnSource
    BY DEF InputInv, PlaceInv, BodyInv, OwnSource, Accepted, Rejected, Todo, Places
<1>2. QED
    BY <1>1, InputInvariant, PTL

(* The document has a JSON body where the handler decodes one and a form   *)
(* where it parses one (prepareRoute and requestBody decide separately),   *)
(* and the body sets exactly those of its keys the document shows.         *)
THEOREM BodyAsDocumentedCorrect == Spec => []BodyAsDocumented
<1>1. ASSUME InputInv PROVE BodyAsDocumented
  <2>1. doc.body = requestBody
      BY <1>1 DEF InputInv, SetupInv, updateSchema
  <2>2. /\ hc.form <=> Tagged("form") # {}
        /\ hc.body <=> Tagged("form") = {} /\ (BodyFields # {} \/ forced)
      BY <1>1 DEF InputInv, SetupInv, handlerCfg
  <2>3. requestBody.media = IF hc.form THEN "form" ELSE IF hc.body THEN "json" ELSE "none"
      BY <2>2 DEF requestBody, generateFormSchema, bodyType
  <2>4. ASSUME Accepted, hc.body
        PROVE  {i \in Fields : in[i] = "body"} = sent.keys \cap doc.body.props
    <3>1. doc.body.props = bodyProperties
        BY <2>1, <2>2, <2>4 DEF requestBody, bodyType
    <3>2. bodyProperties \subseteq Fields
        BY DEF bodyProperties
    <3>3. \A i \in Fields : in[i] = "body" <=> i \in sent.keys /\ i \in bodyProperties
        BY <1>1, <2>4 DEF InputInv, KeysInv, Accepted, Rejected
    <3>4. QED
        BY <3>1, <3>2, <3>3
  <2>5. QED
      BY <2>1, <2>2, <2>3, <2>4 DEF BodyAsDocumented
<1>2. QED
    BY <1>1, InputInvariant, PTL

----------------------------------------------------------------------------
(* A client that follows the document.  The kinds of texts a query has, and *)
(* that a struct which registers has no form beside its body, are needed to *)
(* say what such a request carries.                                         *)
SentInv ==
  /\ struct \in Structs /\ Registrable
  /\ \A n \in Names : sent.query[n] \in QueryTexts

(* The form fills the fields for which it has a text.                      *)
FormInv ==
  pc \notin {"idle", "body"} /\ ~Rejected =>
    \A i \in Tagged("form") : Texts(i) # <<>> => in[i] \in {"form", "query"}

Follower == Conforms /\ \A i \in Fields : Supported(struct[i]) /\ Settable(struct[i])

(* The validator refuses a zero that the document allows. *)
ZeroRefused == verdict = 422 /\ \E i \in Fields : struct[i].required /\ SentZero(i)

NotRefused == Follower => ~Rejected \/ ZeroRefused

(* A value other than the empty text.                                      *)
Value == {"zero", "good"}

FollowerInv == SentInv /\ FormInv /\ NotRefused

(* One or two texts are a sequence of texts.                               *)
LEMMA ShortSeq ==
    ASSUME NEW T, NEW a \in T, NEW b \in T
    PROVE  <<>> \in Seq(T) /\ <<a>> \in Seq(T) /\ <<a, b>> \in Seq(T)
OBVIOUS

(* In a query that follows the document every text is a value.             *)
LEMMA QueryGood ==
    ASSUME SentInv, Conforms, NEW n \in Names, sent.query[n] # <<>>
    PROVE  /\ Head(sent.query[n]) \in Value /\ sent.query[n][1] \in Value
           /\ \A k \in DOMAIN sent.query[n] : sent.query[n][k] \in Value
<1>1. PICK p \in doc.params : p.from = "query" /\ p.name = n
    BY DEF Conforms
<1>2. \A k \in DOMAIN sent.query[n] : sent.query[n][k] \in Value
    BY <1>1 DEF Conforms, Carried, Value
<1>3. 1 \in DOMAIN sent.query[n] /\ Head(sent.query[n]) = sent.query[n][1]
  <2>1. \A q \in QueryTexts : q \in Seq(OtherTexts)
    <3>1. /\ "" \in OtherTexts /\ "zero" \in OtherTexts
          /\ "good" \in OtherTexts /\ "bad" \in OtherTexts
        BY DEF OtherTexts
    <3>2. /\ <<>> \in Seq(OtherTexts) /\ <<"">> \in Seq(OtherTexts)
          /\ <<"zero">> \in Seq(OtherTexts) /\ <<"good">> \in Seq(OtherTexts)
          /\ <<"bad">> \in Seq(OtherTexts)
          /\ <<"good", "bad">> \in Seq(OtherTexts)
        BY <3>1, ShortSeq, Zenon
    <3>3. QED
        BY <3>2, Zenon DEF QueryTexts
  <2>2. sent.query[n] \in Seq(OtherTexts)
      BY <2>1 DEF SentInv
  <2>3. QED
      BY <2>2
<1>4. QED
    BY <1>2, <1>3

(* A text of its own, or none.                                             *)
LEMMA OneText ==
    ASSUME NEW text
    PROVE  /\ text = "" => NonEmpty(text) = <<>>
           /\ text # "" => NonEmpty(text) = <<text>> /\ NonEmpty(text) # <<>>
           /\ \A k \in DOMAIN NonEmpty(text) : NonEmpty(text)[k] = text
<1>1. \A k \in DOMAIN <<text>> : <<text>>[k] = text
    OBVIOUS
<1>2. DOMAIN <<>> = {}
    OBVIOUS
<1>3. CASE text = ""
    BY <1>2, <1>3 DEF NonEmpty
<1>4. CASE text # ""
    BY <1>1, <1>4 DEF NonEmpty
<1>5. QED
    BY <1>3, <1>4

(* Whatever a follower sends for a field in the query converts, and it     *)
(* sends something for a required one.                                     *)
LEMMA QueryFollows ==
    ASSUME SetupInv, SentInv, Conforms, NEW i \in Tagged("query")
    PROVE  /\ \A k \in DOMAIN Texts(i) : Texts(i)[k] \in Value
           /\ struct[i].required => Texts(i) # <<>>
<1> DEFINE f == struct[i]
           q == sent.query[f.name]
<1>1. /\ f.tag = "query" /\ f.name \in Names
      /\ f.kind \in {"scalar", "pointer", "slice"}
    BY StructsAssumption DEF SentInv, Tagged, Fields, FieldType
<1>2. Parameter(i) \in doc.params
    BY DEF SetupInv, updateSchema, generateQueryParams
<1>3. f.required => q # <<>>
    BY <1>1, <1>2 DEF Conforms, Carried, Parameter
<1>4. q # <<>> => /\ Head(q) \in Value
                  /\ \A k \in DOMAIN q : q[k] \in Value
    BY <1>1, QueryGood
<1>5. CASE f.kind = "slice"
  <2>1. Texts(i) = q
      BY <1>1, <1>5 DEF Texts, TextsIn
  <2>2. q = <<>> => \A k \in DOMAIN q : q[k] \in Value
      OBVIOUS
  <2>3. QED
      BY <1>3, <1>4, <2>1, <2>2
<1>6. CASE f.kind = "pointer"
  <2>1. Texts(i) = FirstOf(q)
      BY <1>1, <1>6 DEF Texts, TextsIn
  <2>2. QED
      BY <1>3, <1>4, <2>1 DEF FirstOf
<1>7. CASE f.kind = "scalar"
  <2>1. Texts(i) = NonEmptyOf(FirstOf(q))
      BY <1>1, <1>7 DEF Texts, TextsIn
  <2>2. q # <<>> => FirstOf(q) = <<Head(q)>> /\ <<Head(q)>> # <<"">>
      BY <1>4 DEF FirstOf, Value
  <2>3. q = <<>> => FirstOf(q) = <<>> /\ <<>> # <<"">>
      BY DEF FirstOf
  <2>4. CASE q = <<>>
    <3>1. Texts(i) = <<>>
        BY <2>1, <2>3, <2>4, Zenon DEF NonEmptyOf
    <3>2. QED
        BY <1>3, <2>4, <3>1
  <2>5. CASE q # <<>>
    <3>1. Texts(i) = <<Head(q)>>
        BY <2>1, <2>2, <2>5 DEF NonEmptyOf
    <3>2. QED
        BY <1>4, <2>5, <3>1
  <2>6. QED
      BY <2>4, <2>5
<1>8. QED
    BY <1>1, <1>5, <1>6, <1>7


(* The same of a header.                                                   *)
LEMMA HeaderFollows ==
    ASSUME SetupInv, SentInv, Conforms, NEW i \in Tagged("header")
    PROVE  /\ \A k \in DOMAIN Texts(i) : Texts(i)[k] \in Value
           /\ struct[i].required => Texts(i) # <<>>
<1> DEFINE f == struct[i]
<1>1. f.tag = "header"
    BY DEF Tagged
<1>2. Parameter(i) \in doc.params
    BY DEF SetupInv, updateSchema, generateHeaderParams
<1>3. Texts(i) = NonEmpty(sent.header[f.name])
    BY <1>1 DEF Texts, TextsIn
<1>4. Parameter(i).from = "header" /\ Parameter(i).name = f.name
      /\ Parameter(i).required = f.required
    BY <1>1 DEF Parameter
<1>5. \A p \in doc.params : p.from = "header" =>
        /\ \A k \in DOMAIN NonEmpty(sent.header[p.name]) :
              NonEmpty(sent.header[p.name])[k] \in Value
        /\ p.required => NonEmpty(sent.header[p.name]) # <<>>
  <2>1. \A p \in doc.params : p.from # "path" =>
          /\ \A k \in DOMAIN Carried(p) : Carried(p)[k] \in Value
          /\ p.required => Carried(p) # <<>>
      BY DEF Conforms, Value
  <2>2. \A p \in doc.params : p.from = "header" => Carried(p) = NonEmpty(sent.header[p.name])
      BY DEF Carried
  <2>3. QED
      BY <2>1, <2>2
<1> DEFINE p == Parameter(i)
           h == NonEmpty(sent.header[f.name])
<1>6. (\A k \in DOMAIN h : h[k] \in Value) /\ (f.required => h # <<>>)
  <2>1. p \in doc.params /\ p.from = "header" /\ p.name = f.name /\ p.required = f.required
      BY <1>2, <1>4
  <2> HIDE DEF p, f
  <2>2. QED
      BY <1>5, <2>1
<1>7. QED
    BY <1>3, <1>6, Zenon

(* The same of the path, which always carries something.                   *)
LEMMA PathFollows ==
    ASSUME Conforms, NEW i \in Tagged("path")
    PROVE  /\ \A k \in DOMAIN Texts(i) : Texts(i)[k] \in Value
           /\ Texts(i) # <<>>
<1>1. struct[i].tag = "path"
    BY DEF Tagged
<1>2. Texts(i) = NonEmpty(sent.path[struct[i].name])
    BY <1>1 DEF Texts, TextsIn
<1>3. sent.path[struct[i].name] \in Value
    BY DEF Conforms, Value
<1> DEFINE text == sent.path[struct[i].name]
<1>4. text # "" /\ text \in Value /\ Texts(i) = NonEmpty(text)
    BY <1>2, <1>3 DEF Value
<1> HIDE DEF text
<1>5. (\A k \in DOMAIN NonEmpty(text) : NonEmpty(text)[k] = text) /\ NonEmpty(text) # <<>>
    BY <1>4, OneText
<1>6. QED
    BY <1>4, <1>5, Zenon

(* The same of a form, and a query parameter that hides a text of the form *)
(* is a value as well.                                                     *)
LEMMA FormFollows ==
    ASSUME SetupInv, SentInv, Conforms, NEW i \in Tagged("form"), Supported(struct[i])
    PROVE  /\ \A k \in DOMAIN Texts(i) : Texts(i)[k] # "bad"
           /\ struct[i].required => Texts(i) # <<>>
           /\ sent.multipart
<1> DEFINE f == struct[i]
<1>1. f.tag = "form" /\ f.name \in Names /\ f.kind \in {"scalar", "file"}
    BY StructsAssumption DEF SentInv, Tagged, Fields, FieldType, Supported
<1>2. doc.body = generateFormSchema
    BY DEF SetupInv, updateSchema, requestBody
<1>3. /\ sent.multipart /\ sent.form[f.name] # "bad"
      /\ f.required => sent.form[f.name] \in Value
    BY <1>2 DEF Conforms, generateFormSchema, Value
<1>4. CASE f.kind = "file"
  <2>1. Texts(i) = NonEmpty(sent.form[f.name])
      BY <1>1, <1>4 DEF Texts, TextsIn
  <2> DEFINE text == sent.form[f.name]
  <2>2. text # "bad" /\ (f.required => text \in Value) /\ Texts(i) = NonEmpty(text)
      BY <1>3, <2>1
  <2> HIDE DEF text
  <2>3. /\ \A k \in DOMAIN NonEmpty(text) : NonEmpty(text)[k] # "bad"
        /\ text \in Value => NonEmpty(text) # <<>>
      BY <2>2, OneText DEF Value
  <2>4. QED
      BY <1>3, <2>2, <2>3, Zenon
<1>5. CASE f.kind # "file"
  <2>1. Texts(i) = NonEmpty(FormValue(sent, f.name))
      BY <1>1, <1>5 DEF Texts, TextsIn
  <2>2. /\ FormValue(sent, f.name) # "bad"
        /\ f.required => FormValue(sent, f.name) \in Value
      BY <1>1, <1>3, QueryGood DEF FormValue, Value
  <2> DEFINE text == FormValue(sent, f.name)
  <2>3. text # "bad" /\ (f.required => text \in Value) /\ Texts(i) = NonEmpty(text)
      BY <2>1, <2>2
  <2> HIDE DEF text
  <2>4. /\ \A k \in DOMAIN NonEmpty(text) : NonEmpty(text)[k] # "bad"
        /\ text \in Value => NonEmpty(text) # <<>>
      BY <2>3, OneText DEF Value
  <2>5. QED
      BY <1>3, <2>3, <2>4, Zenon
<1>6. QED
    BY <1>4, <1>5

(* So no part of a follower's request is refused.                          *)
LEMMA PartsFollow ==
    ASSUME SetupInv, SentInv, Follower, NEW i \in Fields, struct[i].tag # "none"
    PROVE  ~Fails(i) /\ (struct[i].required => Texts(i) # <<>>)
<1>1. Conforms /\ Supported(struct[i])
    BY DEF Follower
<1>2. struct[i].tag \in Tags
    BY StructsAssumption DEF SentInv, Fields, FieldType
<1>3. /\ \A k \in DOMAIN Texts(i) : Texts(i)[k] # "bad"
      /\ struct[i].required => Texts(i) # <<>>
  <2>1. CASE struct[i].tag = "query"
      BY <1>1, <2>1, QueryFollows DEF Tagged, Value
  <2>2. CASE struct[i].tag = "header"
      BY <1>1, <2>2, HeaderFollows DEF Tagged, Value
  <2>3. CASE struct[i].tag = "path"
      BY <1>1, <2>3, PathFollows DEF Tagged, Value
  <2>4. CASE struct[i].tag = "form"
      BY <1>1, <2>4, FormFollows DEF Tagged
  <2>5. QED
      BY <1>2, <2>1, <2>2, <2>3, <2>4 DEF Tags
<1>4. QED
    BY <1>1, <1>3 DEF Fails

(* When everything is parsed, whatever a follower's request must carry is  *)
(* there: in a place, or in the body as a property the document requires.  *)
(* It is a value for the validator unless the request sends a zero.        *)
LEMMA NothingMissing ==
    ASSUME InputInv, FollowerInv, Follower, pc = "validate",
           NEW i \in Fields, struct[i].required
    PROVE  hasValue(i) <=> ~SentZero(i)
<1>1. Conforms /\ Settable(struct[i])
    BY DEF Follower
<1>2. CASE struct[i].tag = "none"
  <2>1. i \in BodyFields
      BY <1>1, <1>2 DEF BodyFields, Settable
  <2>2. Tagged("form") = {} /\ hc.body /\ bodyType = "struct"
      BY <2>1 DEF FollowerInv, SentInv, Registrable, InputInv, SetupInv, handlerCfg, bodyType
  <2>3. doc.body.media = "json" /\ doc.body.required = bodyRequired
      BY <2>2 DEF InputInv, SetupInv, updateSchema, requestBody
  <2>4. i \in bodyProperties /\ i \in bodyRequired
      BY <1>2, <2>1 DEF bodyProperties, bodyRequired, Tagged, BodyFields
  <2>5. i \in sent.keys
      BY <1>1, <2>3, <2>4 DEF Conforms
  <2>6. in[i] = "body"
      BY <2>2, <2>4, <2>5 DEF InputInv, KeysInv, Rejected
  <2>7. QED
      BY <1>2, <2>6 DEF hasValue, SentZero
<1>3. CASE struct[i].tag # "none"
  <2>1. Texts(i) # <<>>
      BY <1>3, PartsFollow DEF InputInv, FollowerInv
  <2>2. CASE struct[i].tag = "form"
    <3>1. in[i] \in {"form", "query"}
        BY <2>1, <2>2 DEF FollowerInv, FormInv, Rejected, Tagged
    <3>2. QED
        BY <2>2, <3>1 DEF hasValue, SentZero, ZeroFrom
  <2>3. CASE struct[i].tag \in Places
    <3>1. in[i] = struct[i].tag
        BY <2>1, <2>3 DEF InputInv, PlaceInv, Todo, Rejected, Places
    <3>2. QED
        BY <2>3, <3>1 DEF Places, hasValue, SentZero, ZeroFrom
  <2>4. struct[i].tag \in Tags
      BY <1>3, StructsAssumption DEF FollowerInv, SentInv, Fields, FieldType
  <2>5. QED
      BY <2>2, <2>3, <2>4 DEF Tags, Places
<1>4. QED
    BY <1>2, <1>3

(* Nothing that a follower's request goes through changes who it is.       *)
LEMMA FollowerSame ==
    ASSUME SetupInv, UNCHANGED <<route, hc, doc, sent>>
    PROVE  /\ Follower' <=> Follower
           /\ SentInv => SentInv'
           /\ Fields' = Fields /\ \A i : SentZero(i)' <=> SentZero(i)
           /\ \A i : Texts(i)' = Texts(i)
<1>1. /\ struct' = struct /\ pattern' = pattern /\ sent' = sent /\ doc' = doc
      /\ Fields' = Fields /\ \A t : Tagged(t)' = Tagged(t)
    BY SetupStays DEF route
<1>2. Conforms' <=> Conforms
  <2>1. Tagged("path")' = Tagged("path") /\ Tagged("query")' = Tagged("query")
      BY <1>1
  <2>2. \A p \in doc.params : p.from \in {"path", "header", "query"}
    <3>1. doc.params = pathParams \cup generateQueryParams \cup generateHeaderParams
        BY DEF SetupInv, updateSchema
    <3>2. \A p \in pathParams : p.from = "path"
        BY DEF pathParams
    <3>3. \A p \in generateQueryParams : p.from = "query"
        BY DEF generateQueryParams, Parameter, Tagged
    <3>4. \A p \in generateHeaderParams : p.from = "header"
        BY DEF generateHeaderParams, Parameter, Tagged
    <3>5. QED
        BY <3>1, <3>2, <3>3, <3>4
  <2>3. \A p \in doc.params : Carried(p)' = Carried(p)
    <3>1. ASSUME NEW p, p.from = "path" PROVE Carried(p)' = Carried(p)
        BY <1>1, <3>1 DEF Carried
    <3>2. ASSUME NEW p, p.from = "header" PROVE Carried(p)' = Carried(p)
        BY <1>1, <3>2 DEF Carried
    <3>3. ASSUME NEW p, p.from = "query" PROVE Carried(p)' = Carried(p)
        BY <1>1, <3>3 DEF Carried
    <3>4. QED
        BY <2>2, <3>1, <3>2, <3>3
  <2>4. QED
      BY <1>1, <2>1, <2>3 DEF Conforms
<1>3. BodyFields' = BodyFields
    BY <1>1 DEF BodyFields
<1>4. Registrable' <=> Registrable
    BY <1>1, <1>3 DEF Registrable
<1>5. \A i : SentZero(i)' <=> SentZero(i)
    BY <1>1 DEF SentZero, ZeroFrom, Texts
<1>6. QED
    BY <1>1, <1>2, <1>4, <1>5 DEF Follower, SentInv, Texts

(* No part of a follower's request is refused.                             *)
LEMMA FollowerParse ==
    ASSUME InputInv, FollowerInv, NEW tag \in {"form"} \cup Places,
           pc = (IF tag = "form" THEN "body" ELSE tag), tag = "form" => hc.form,
           ParseInto(tag)
    PROVE  FollowerInv'
<1>1. UNCHANGED <<route, hc, doc, sent>>
    BY DEF ParseInto, Answer
<1>2. SentInv' /\ (Follower' <=> Follower) /\ \A i : Texts(i)' = Texts(i)
    BY <1>1, FollowerSame DEF FollowerInv, InputInv
<1>3. struct' = struct /\ Fields' = Fields /\ \A t : Tagged(t)' = Tagged(t)
    BY <1>1, SetupStays DEF route
<1>4. CASE \E i \in Tagged(tag) : Fails(i)
  <2>1. ~Follower
      BY <1>4, PartsFollow DEF FollowerInv, InputInv, Tagged, Places
  <2>2. Rejected'
      BY <1>4 DEF ParseInto, Answer, Rejected
  <2>3. QED
      BY <1>2, <2>1, <2>2 DEF FollowerInv, FormInv, NotRefused
<1>5. CASE ~\E i \in Tagged(tag) : Fails(i)
  <2>1. /\ in' = [i \in Fields |-> IF i \in Tagged(tag) /\ Texts(i) # <<>>
                                   THEN PlaceOf(i) ELSE in[i]]
        /\ pc' = After(tag)
      BY <1>5 DEF ParseInto
  <2>2. ~Rejected'
      BY <2>1 DEF After, Rejected
  <2>3. ASSUME NEW i \in Tagged("form"), Texts(i) # <<>> PROVE in'[i] \in {"form", "query"}
    <3>1. i \in Fields /\ struct[i].tag = "form"
        BY DEF Tagged
    <3>2. CASE tag = "form"
      <4>1. PlaceOf(i) \in {"form", "query"}
          BY <3>1 DEF PlaceOf
      <4>2. QED
          BY <2>1, <2>3, <3>1, <3>2, <4>1
    <3>3. CASE tag # "form"
      <4>1. in'[i] = in[i]
          BY <2>1, <3>1, <3>3 DEF Tagged
      <4>2. QED
          BY <2>3, <3>3, <4>1 DEF FollowerInv, FormInv, Rejected, Places
    <3>4. QED
        BY <3>2, <3>3
  <2>4. QED
      BY <1>2, <1>3, <2>2, <2>3 DEF FollowerInv, FormInv, NotRefused
<1>6. QED
    BY <1>4, <1>5

(* A form that is no multipart body, or a body that is no object, is not a *)
(* follower's; a route without a form has no field to fill from one.       *)
LEMMA FollowerBody ==
    ASSUME InputInv, FollowerInv,
           (parseFormInto /\ ~sent.multipart) \/ decodeBody \/ NoBody
    PROVE  FollowerInv'
<1>1. UNCHANGED <<route, hc, doc, sent>> /\ pc = "body"
    BY DEF parseFormInto, decodeBody, NoBody, Answer
<1>2. SentInv' /\ (Follower' <=> Follower) /\ \A i : Texts(i)' = Texts(i)
    BY <1>1, FollowerSame DEF FollowerInv, InputInv
<1>3. struct' = struct /\ Fields' = Fields /\ \A t : Tagged(t)' = Tagged(t)
    BY <1>1, SetupStays DEF route
<1>4. CASE parseFormInto /\ ~sent.multipart
  <2>1. Rejected'
      BY <1>4 DEF parseFormInto, Answer, Rejected
  <2>2. PICK i \in Tagged("form") : TRUE
      BY <1>4 DEF parseFormInto, InputInv, SetupInv, handlerCfg
  <2>3. ~Follower
      BY <1>4, <2>2, FormFollows DEF Follower, FollowerInv, InputInv, Tagged
  <2>4. QED
      BY <1>2, <2>1, <2>3 DEF FollowerInv, FormInv, NotRefused
<1>5. CASE decodeBody \/ NoBody
  <2>1. ~hc.form /\ Tagged("form") = {}
      BY <1>5 DEF decodeBody, NoBody, InputInv, SetupInv, handlerCfg
  <2>2. FormInv'
      BY <1>3, <2>1 DEF FormInv
  <2>3. CASE Rejected'
    <3>1. decodeBody /\ sent.body # "object"
        BY <1>5, <2>3 DEF decodeBody, NoBody, After, Answer, Rejected
    <3>2. doc.body.media = "json"
        BY <2>1, <3>1 DEF decodeBody, InputInv, SetupInv, handlerCfg, updateSchema, requestBody,
                          bodyType
    <3>3. ~Follower
        BY <3>1, <3>2 DEF Follower, Conforms
    <3>4. QED
        BY <1>2, <2>2, <3>3 DEF FollowerInv, NotRefused
  <2>4. QED
      BY <1>2, <2>2, <2>3 DEF FollowerInv, NotRefused
<1>6. QED
    BY <1>4, <1>5

(* Each step keeps followers from being refused.                           *)
LEMMA FollowerStep == InputInv /\ FollowerInv /\ [Next]_vars => FollowerInv'
<1> SUFFICES ASSUME InputInv, FollowerInv, [Next]_vars PROVE FollowerInv'
    OBVIOUS
<1>1. CASE Arrive
  <2>1. pc' = "body" /\ UNCHANGED <<route, hc, doc>>
      BY <1>1 DEF Arrive
  <2>2. struct' = struct /\ pattern' = pattern
      BY <2>1 DEF route
  <2>3. \A n \in Names : sent'.query[n] \in QueryTexts
    <3>1. \A q, p, h, f, multipart, body, keys, zeros :
            Request(q, p, h, f, multipart, body, keys, zeros).query = ByName(q, <<>>)
        BY DEF Request
    <3>2. PICK q \in [Used({"query", "form"}) -> QueryTexts] : sent'.query = ByName(q, <<>>)
        BY <1>1, <3>1 DEF Arrive
    <3>3. QED
        BY <3>2 DEF ByName, QueryTexts
  <2>4. Registrable'
    <3>1. Fields' = Fields /\ \A t : Tagged(t)' = Tagged(t)
        BY <2>1, SetupStays
    <3>2. BodyFields' = BodyFields
        BY <2>2, <3>1 DEF BodyFields
    <3>3. QED
        BY <2>2, <3>1, <3>2 DEF FollowerInv, SentInv, Registrable
  <2>5. QED
      BY <2>1, <2>2, <2>3, <2>4 DEF FollowerInv, SentInv, FormInv, NotRefused, Rejected
<1>2. CASE parseFormInto
  <2>1. CASE ~sent.multipart
      BY <1>2, <2>1, FollowerBody
  <2>2. CASE sent.multipart
    <3>1. pc = "body" /\ hc.form /\ ParseInto("form")
        BY <1>2, <2>2 DEF parseFormInto
    <3>2. QED
        BY <3>1, FollowerParse
  <2>3. QED
      BY <2>1, <2>2
<1>3. CASE decodeBody \/ NoBody
    BY <1>3, FollowerBody
<1>4. CASE parseQueryInto
    BY <1>4, FollowerParse DEF parseQueryInto, Places
<1>5. CASE parsePathInto
    BY <1>5, FollowerParse DEF parsePathInto, Places
<1>6. CASE parseHeadersInto
    BY <1>6, FollowerParse DEF parseHeadersInto, Places
<1>7. CASE validate
  <2>1. UNCHANGED <<route, hc, doc, sent, in>> /\ pc = "validate" /\ pc' = "done"
      BY <1>7 DEF validate, Answer
  <2>2. SentInv' /\ (Follower' <=> Follower) /\ \A i : Texts(i)' = Texts(i)
      BY <2>1, FollowerSame DEF FollowerInv, InputInv
  <2>3. FormInv'
      BY <2>1, <2>2, SetupStays DEF FollowerInv, FormInv, Rejected
  <2>4. ASSUME Follower PROVE verdict' = 200 \/ ZeroRefused'
    <3>1. \A i \in Fields : struct[i].required => (hasValue(i) <=> ~SentZero(i))
        BY <2>1, <2>4, NothingMissing
    <3>2. verdict' = 200 \/ (verdict' = 422 /\ \E i \in Fields : struct[i].required /\ SentZero(i))
        BY <1>7, <3>1 DEF validate, Answer
    <3>3. struct' = struct /\ Fields' = Fields /\ \A i : SentZero(i)' <=> SentZero(i)
        BY <2>1, FollowerSame DEF route, InputInv
    <3>4. QED
        BY <3>2, <3>3 DEF ZeroRefused
  <2>5. QED
      BY <2>2, <2>3, <2>4 DEF FollowerInv, NotRefused, Rejected
<1>8. CASE UNCHANGED vars
  <2>1. UNCHANGED <<route, hc, doc, sent, in, pc, verdict>>
      BY <1>8 DEF vars
  <2>2. SentInv' /\ (Follower' <=> Follower) /\ \A i : Texts(i)' = Texts(i)
      BY <2>1, FollowerSame DEF FollowerInv, InputInv
  <2>3. struct' = struct /\ (ZeroRefused' <=> ZeroRefused)
      BY <2>1, FollowerSame DEF route, InputInv, ZeroRefused
  <2>4. FormInv'
      BY <2>1, <2>2, SetupStays DEF FollowerInv, FormInv, Rejected
  <2>5. QED
      BY <2>1, <2>2, <2>3, <2>4 DEF FollowerInv, NotRefused, Rejected
<1>9. QED
    BY <1>1, <1>2, <1>3, <1>4, <1>5, <1>6, <1>7, <1>8 DEF Next

(* A request that follows the document is not refused (parseInput and its  *)
(* parsers against updateSchema) unless it sends zero for a field with the *)
(* rule required, for every input struct of supported fields.              *)
THEOREM ConformingAcceptedCorrect == Spec => []ConformingAccepted
<1>1. Init => FollowerInv
  <2> SUFFICES ASSUME Init PROVE FollowerInv
      OBVIOUS
  <2>1. \A n \in Names : sent.query[n] = <<>>
      BY DEF Init, Empty
  <2>2. QED
      BY <2>1 DEF Init, FollowerInv, SentInv, FormInv, NotRefused, Rejected, QueryTexts
<1>2. FollowerInv => ConformingAccepted
    BY DEF FollowerInv, NotRefused, ZeroRefused, Follower, Rejected, ConformingAccepted
<1>3. QED
    BY <1>1, <1>2, InputInvariant, FollowerStep, PTL DEF Spec
=============================================================================
