--------------------------- MODULE InputContract ---------------------------
(***************************************************************************)
(* The input of a route: what registration derives from the fields of the  *)
(* input struct (handlerFuncs.go), what the OpenAPI document says a        *)
(* request must carry (schema.go), and how a request is parsed and         *)
(* validated (handler.go, query.go, path.go, header.go, form.go).          *)
(*                                                                         *)
(* A text in a request is "" (empty), "bad" (it does not convert to the    *)
(* field's type), "zero" (it converts to 0 or false) or "good" (it converts *)
(* to another value).  A JSON body has a set of keys, some of them with a  *)
(* zero value (0, false, an empty string, null).  The value of a field     *)
(* after parsing is the place it came from, or "zero" if from none.        *)
(***************************************************************************)
EXTENDS Naturals, Sequences

CONSTANTS
  Structs,  \* input structs: sequences of fields, each in FieldType
  Names     \* names of parameters

VARIABLES
  struct,   \* the fields of the input type, exported ones only
  pointer,  \* the input type is a pointer to the struct
  forced,   \* registered with Handle for POST, PUT or PATCH: a body is always read
  pattern,  \* the names of the path parameters of the route's pattern
  hc,       \* the handlerConfig
  doc,      \* the operation in the document
  sent,     \* the request
  in,       \* the place each field's value came from
  isNil,    \* the input is a nil pointer
  pc,       \* the next part to be handled
  verdict   \* the outcome: a status, 200 meaning that the handler is called

route == <<struct, pointer, forced, pattern>>
vars == <<route, hc, doc, sent, in, isNil, pc, verdict>>

Tags == {"path", "query", "header", "form"}
FieldType ==
  [tag : Tags \cup {"none"},  \* the place it names; a field has one at most
   kind : {"scalar", "pointer", "slice", "file"},   \* a file: in a form
   name : Names,              \* the name in that tag
   json : BOOLEAN,            \* encoding/json sees the field: no json:"-"
   required : BOOLEAN]        \* validate:"required"

ASSUME StructsAssumption ==
  \A s \in Structs : \A i \in DOMAIN s :
    s[i] \in FieldType /\ (s[i].kind = "file" => s[i].tag = "form")

Fields == DOMAIN struct
Tagged(tag) == {i \in Fields : struct[i].tag = tag}

Empty == [query |-> [n \in Names |-> <<>>], path |-> [n \in Names |-> ""],
          header |-> [n \in Names |-> ""], form |-> [n \in Names |-> ""],
          multipart |-> TRUE, body |-> "none", keys |-> {}, zeros |-> {}]

----------------------------------------------------------------------------
(* Registration *)

(* partitionFields: a field that is not in any other place is in the body. *)
BodyFields == {i \in Fields : struct[i].tag = "none" /\ struct[i].json}

(* partitionFields and validatePathFields panic on these. *)
Registrable ==
  /\ BodyFields = {} \/ Tagged("form") = {}
  /\ \A i \in Tagged("path") :
       struct[i].kind = "scalar" /\ struct[i].name \in pattern

(* What the handler parses: with a form there is no JSON body.               *)
handlerCfg ==
  [path |-> Tagged("path") # {}, query |-> Tagged("query") # {},
   header |-> Tagged("header") # {}, form |-> Tagged("form") # {},
   body |-> Tagged("form") = {} /\ (BodyFields # {} \/ forced)]

(* The body as prepareRoute describes it to the document. *)
bodyType ==
  IF Tagged("form") # {} THEN "none"
  ELSE IF BodyFields # {} \/ forced THEN "struct" ELSE "none"

(* A bug: the fields of the query and the header stay in the body's schema. *)
bodyProperties_Unstripped == {i \in Fields : struct[i].json}

(* The schema of the struct without the fields that have another place. *)
bodyProperties ==
  {i \in Fields : struct[i].json} \ (Tagged("query") \cup Tagged("header") \cup Tagged("path"))

(* A pointer is optional in the document, and so is a parameter, unless *)
(* validate says otherwise.                                             *)
bodyRequired ==
  {i \in bodyProperties : struct[i].required \/ struct[i].kind # "pointer"}

(* A bug: the validate tag is not looked at. *)
Parameter_Optional(i) ==
  [from |-> struct[i].tag, name |-> struct[i].name, required |-> FALSE]

Parameter(i) ==
  [from |-> struct[i].tag, name |-> struct[i].name, required |-> struct[i].required]

pathParams           == [from : {"path"}, name : pattern, required : {TRUE}]
generateQueryParams  == {Parameter(i) : i \in Tagged("query")}
generateHeaderParams == {Parameter(i) : i \in Tagged("header")}

generateFormSchema ==
  [media |-> "form", props |-> Tagged("form"),
   required |-> {i \in Tagged("form") : struct[i].required}]

(* No body, a form, or the JSON body that is left of the struct. *)
requestBody ==
  IF Tagged("form") # {} THEN generateFormSchema
  ELSE IF bodyType = "none" THEN [media |-> "none", props |-> {}, required |-> {}]
  ELSE [media |-> "json", props |-> bodyProperties, required |-> bodyRequired]

(* The operation: its parameters and its request body. *)
updateSchema ==
  [params |-> pathParams \cup generateQueryParams \cup generateHeaderParams,
   body   |-> requestBody]

Init ==
  /\ struct \in Structs
  /\ pointer \in BOOLEAN
  /\ forced \in BOOLEAN
  /\ pattern = Names
  /\ Registrable
  /\ hc = handlerCfg
  /\ doc = updateSchema
  /\ sent = Empty
  /\ in = [i \in Fields |-> "zero"] /\ isNil = pointer
  /\ pc = "idle" /\ verdict = 0

----------------------------------------------------------------------------
(* A request *)

Used(tags) == {struct[i].name : i \in UNION {Tagged(t) : t \in tags}}

(* The texts under every name: those given, and nothing under the others. *)
ByName(texts, none) == [n \in Names |-> IF n \in DOMAIN texts THEN texts[n] ELSE none]

Request(q, p, h, f, multipart, body, keys, zeros) ==
  [query |-> ByName(q, <<>>), path |-> ByName(p, ""),
   header |-> ByName(h, ""), form |-> ByName(f, ""),
   multipart |-> multipart, body |-> body, keys |-> keys, zeros |-> zeros]

QueryTexts == {<<>>, <<"">>, <<"zero">>, <<"good">>, <<"bad">>, <<"good", "bad">>}
PathTexts  == {"zero", "good", "bad"}
OtherTexts == {"", "zero", "good", "bad"}
Bodies     == IF hc.body THEN {"none", "malformed", "null", "object"} ELSE {"none"}
Multiparts == IF hc.form THEN BOOLEAN ELSE {TRUE}
Keys       == SUBSET {i \in Fields : struct[i].json}

(* The same name may be used in every place of the request. *)
Arrive ==
  /\ pc = "idle"
  /\ \E q \in [Used({"query", "form"}) -> QueryTexts],
        p \in [Used({"path"}) -> PathTexts],
        h \in [Used({"header"}) -> OtherTexts],
        f \in [Used({"form"}) -> OtherTexts],
        multipart \in Multiparts, body \in Bodies, keys \in Keys :
       /\ body # "object" => keys = {}
       /\ \E zeros \in SUBSET keys :
            sent' = Request(q, p, h, f, multipart, body, keys, zeros)
  /\ pc' = "body"
  /\ UNCHANGED <<route, hc, doc, in, isNil, verdict>>

NonEmpty(text) == IF text = "" THEN <<>> ELSE <<text>>
FirstOf(texts) == IF texts = <<>> THEN <<>> ELSE <<Head(texts)>>
NonEmptyOf(texts) == IF texts = <<"">> THEN <<>> ELSE texts

(* net/http: FormValue looks at the URL's query first. *)
FormValue(request, n) ==
  IF request.query[n] # <<>> THEN request.query[n][1] ELSE request.form[n]

(* The texts of a request that are converted for a field; none leaves it *)
(* as it is.                                                             *)
TextsIn(request, f) ==
  CASE f.tag = "query" /\ f.kind = "slice"   -> request.query[f.name]
    [] f.tag = "query" /\ f.kind = "pointer" -> FirstOf(request.query[f.name])
    [] f.tag = "query" /\ f.kind = "scalar"  ->
         NonEmptyOf(FirstOf(request.query[f.name]))
    [] f.tag = "path"   -> NonEmpty(request.path[f.name])
    [] f.tag = "header" -> NonEmpty(request.header[f.name])
    [] f.tag = "form" /\ f.kind = "file" -> NonEmpty(request.form[f.name])
    [] f.tag = "form" /\ f.kind # "file" -> NonEmpty(FormValue(request, f.name))
Texts(i) == TextsIn(sent, struct[i])

(* setScalarValue converts into scalars; pointers and slices only where *)
(* the parser takes them apart.                                         *)
Supported(f) ==
  \/ f.kind = "scalar" \/ f.tag \in {"query", "none"} \/ f.kind = "file"
  \/ f.kind = "pointer" /\ f.tag = "header"

Fails(i) ==
  /\ Texts(i) # <<>>
  /\ ~Supported(struct[i]) \/ \E k \in DOMAIN Texts(i) : Texts(i)[k] = "bad"

(* Where the value of a field of that tag is taken from. *)
PlaceOf(i) ==
  LET f == struct[i]
  IN  IF f.tag = "form" /\ f.kind # "file" /\ sent.query[f.name] # <<>>
      THEN "query" ELSE f.tag

Answer(status) ==
  /\ verdict' = status /\ pc' = "done"
  /\ UNCHANGED <<route, hc, doc, sent, in, isNil>>

(* The parts that follow, as far as the route has them. *)
After(part) ==
  IF part \in {"form", "body"} /\ hc.query THEN "query"
  ELSE IF part \in {"form", "body", "query"} /\ hc.path THEN "path"
  ELSE IF part # "header" /\ hc.header THEN "header"
  ELSE "validate"

(* One of the parse...Into functions: it allocates a nil input, and the *)
(* first field that cannot be converted ends it.                        *)
ParseInto(tag) ==
  IF \E i \in Tagged(tag) : Fails(i)
  THEN Answer(400)
  ELSE /\ in' = [i \in Fields |-> IF i \in Tagged(tag) /\ Texts(i) # <<>>
                                  THEN PlaceOf(i) ELSE in[i]]
       /\ isNil' = FALSE
       /\ pc' = After(tag)
       /\ UNCHANGED <<route, hc, doc, sent, verdict>>

(* A bug: the fields of the header are not reset. *)
resetFields_NotHeader(values) ==
  [i \in Fields |-> IF struct[i].tag \in {"query", "path"} THEN "zero" ELSE values[i]]

(* A key of the body must not set a field that has another place. *)
resetFields(values) ==
  [i \in Fields |-> IF struct[i].tag \in {"query", "path", "header"}
                    THEN "zero" ELSE values[i]]

parseFormInto ==
  /\ pc = "body" /\ hc.form
  /\ IF sent.multipart THEN ParseInto("form") ELSE Answer(400)

(* The decoder leaves a nil pointer when the body is null. *)
decodeBody ==
  /\ pc = "body" /\ hc.body
  /\ IF sent.body \in {"none", "malformed"}
     THEN Answer(400)
     ELSE /\ in' = resetFields([i \in Fields |-> IF i \in sent.keys THEN "body" ELSE "zero"])
          /\ isNil' = (pointer /\ sent.body = "null")
          /\ pc' = After("body")
          /\ UNCHANGED <<route, hc, doc, sent, verdict>>

NoBody ==
  /\ pc = "body" /\ ~hc.form /\ ~hc.body
  /\ pc' = After("body")
  /\ UNCHANGED <<route, hc, doc, sent, in, isNil, verdict>>

parseQueryInto   == pc = "query"  /\ ParseInto("query")
parsePathInto    == pc = "path"   /\ ParseInto("path")
parseHeadersInto == pc = "header" /\ ParseInto("header")

(* What a place carries for a field is the zero value of its type; a       *)
(* pointer or a slice that comes from a text is not nil.                   *)
ZeroFrom(place, i) ==
  IF place = "body" THEN i \in sent.zeros
  ELSE struct[i].kind = "scalar" /\ Texts(i) = <<"zero">>

(* The rule required: the field has not the zero value of its type. *)
hasValue(i) == in[i] # "zero" /\ ~ZeroFrom(in[i], i)

(* validateStruct: a nil input is not validated. *)
validate ==
  /\ pc = "validate"
  /\ Answer(IF ~isNil /\ \E i \in Fields : struct[i].required /\ ~hasValue(i)
            THEN 422 ELSE 200)

Next ==
  \/ Arrive
  \/ parseFormInto \/ decodeBody \/ NoBody
  \/ parseQueryInto \/ parsePathInto \/ parseHeadersInto
  \/ validate

Spec == Init /\ [][Next]_vars

----------------------------------------------------------------------------
TypeOK ==
  /\ \A i \in Fields : struct[i] \in FieldType
  /\ pointer \in BOOLEAN /\ forced \in BOOLEAN
  /\ hc \in [{"path", "query", "header", "form", "body"} -> BOOLEAN]
  /\ ~(hc.form /\ hc.body)
  /\ \A p \in doc.params : p \in [from : Tags, name : Names, required : BOOLEAN]
  /\ doc.body.media \in {"none", "json", "form"}
  /\ doc.body.required \subseteq doc.body.props /\ doc.body.props \subseteq Fields
  /\ sent.keys \subseteq Fields /\ sent.zeros \subseteq sent.keys
  /\ in \in [Fields -> {"zero", "body"} \cup Tags]
  /\ isNil \in BOOLEAN
  /\ pc \in {"idle", "body", "query", "path", "header", "validate", "done"}
  /\ verdict \in {0, 200, 400, 422}

Accepted == pc = "done" /\ verdict = 200

(* What the handler gets in a path, query or header field is what that     *)
(* part of the request carries: a body that has a key of the field's name  *)
(* neither supplies the value nor hides it.  A field of the body comes     *)
(* from the body, a file from the form.  (Text fields of a form are left   *)
(* out: FormValue prefers the URL's query.)                                *)
OwnSource ==
  Accepted =>
    \A i \in Fields :
      /\ struct[i].tag = "none" => in[i] \in {"zero", "body"}
      /\ struct[i].tag = "form" /\ struct[i].kind = "file" => in[i] \in {"zero", "form"}
      /\ struct[i].tag \in {"path", "query", "header"} =>
           in[i] = IF Texts(i) = <<>> THEN "zero" ELSE struct[i].tag

(* The request body of the document is the one the parser reads: a JSON    *)
(* body, a form or none; and its properties are the fields a body sets.    *)
BodyAsDocumented ==
  /\ hc.body <=> doc.body.media = "json"
  /\ hc.form <=> doc.body.media = "form"
  /\ (Accepted /\ hc.body) =>
       {i \in Fields : in[i] = "body"} = sent.keys \cap doc.body.props

(* What a request carries for a parameter of the document.                  *)
Carried(p) ==
  CASE p.from = "path"   -> NonEmpty(sent.path[p.name])
    [] p.from = "header" -> NonEmpty(sent.header[p.name])
    [] p.from = "query"  -> sent.query[p.name]

(* A client that follows the document: the required parameters and         *)
(* properties are there, what is there has the right type, no others.  A   *)
(* zero is a value like any other; an empty text in a parameter or a form  *)
(* counts as none, as it does for the parsers.                             *)
Conforms ==
  LET Slice(n) == \E i \in Tagged("query") : struct[i].name = n /\ struct[i].kind = "slice"
      Values == {"zero", "good"}
      Good(texts) == \A k \in DOMAIN texts : texts[k] \in Values
  IN  /\ \A p \in doc.params : p.from # "path" =>
           Good(Carried(p)) /\ (p.required => Carried(p) # <<>>)
      /\ \A i \in Tagged("path") : sent.path[struct[i].name] \in Values
      /\ \A n \in Names : sent.query[n] # <<>> =>
           /\ \E p \in doc.params : p.from = "query" /\ p.name = n
           /\ Len(sent.query[n]) = 1 \/ Slice(n)
      /\ doc.body.media = "json" => sent.body = "object" /\ doc.body.required \subseteq sent.keys
      /\ doc.body.media = "form" =>
           /\ sent.multipart
           /\ \A i \in doc.body.props : sent.form[struct[i].name] # "bad"
           /\ \A i \in doc.body.required : sent.form[struct[i].name] \in Values

(* Something can set the field, or nothing asks that it is set. *)
Settable(f) == f.required => f.tag # "none" \/ f.json

(* The request sends zero for a field that must not be zero: the document  *)
(* allows that and the validator does not.                                 *)
SentZero(i) == ZeroFrom(IF struct[i].tag = "none" THEN "body" ELSE struct[i].tag, i)

(* A request that follows the OpenAPI document, as the generated client's  *)
(* types make it do, is refused with 422 only if it sends zero for a field *)
(* with the rule required, and never with 400: otherwise the document and  *)
(* the parser, computed from the same tags by different code, agree.       *)
(* (For field types the parsers support, and unless a field is required    *)
(* that is in no place and that encoding/json does not see.)               *)
ConformingAccepted ==
  /\ pc = "done" /\ Conforms
  /\ \A i \in Fields : Supported(struct[i]) /\ Settable(struct[i])
  => \/ verdict = 200
     \/ verdict = 422 /\ \E i \in Fields : struct[i].required /\ SentZero(i)
=============================================================================
