----------------------------- MODULE ApiDocument -----------------------------
(***************************************************************************)
(* The two documents of an API: OpenAPI for its HTTP routes (schema.go) and*)
(* AsyncAPI for its WebSockets (asyncapi.go), written route by route while *)
(* RouteRegistry registers them, and the types that the client generator   *)
(* (templates.ts) makes of them.                                           *)
(*                                                                         *)
(* Every route writes the schemas of its types under their Go names into   *)
(* components that all routes share: a later registration may overwrite    *)
(* what an earlier one refers to.                                          *)
(*                                                                         *)
(* A name is the sequence of its words, which "_" joins; an anonymous type *)
(* has none.  A type is an object with fields of three sorts (in the JSON  *)
(* body, a query or path parameter, a header), a list of such objects or a *)
(* scalar; its schema keeps some of the fields.  A field may hold a named  *)
(* object in turn, itself or in a list.  Parameters, headers and rules of  *)
(* single fields are in InputContract and HttpExchange.  Groups have       *)
(* distinct prefixes, and a repeated pattern is refused by the mux.        *)
(***************************************************************************)
EXTENDS RouteRegistry, FiniteSetsExt

CONSTANTS
    Declared,    \* the status and the type of the error that a declaration is
    Endpoints    \* the routes user code may register

(* The types an endpoint shows and the messages it sends and receives are   *)
(* lists.  It has at most one input type, with fields of the three sorts.   *)
Messages == UNION {Range(ep.sends) \cup Range(ep.receives) : ep \in Endpoints}

ASSUME EndpointAssumption ==
    \A ep \in Endpoints :
        /\ ep.sends \in Seq(Messages) /\ ep.receives \in Seq(Messages)
        /\ ep.shows \in Seq(Range(ep.shows))
        /\ \A T \in ep.body : ep.body = {T} /\ T.fields \subseteq {"json", "param", "header"}

VARIABLES
    schemas,         \* spec.Components.Schemas
    operations,      \* spec.Paths: by path and method
    asyncSchemas,    \* asyncSpec.Components.Schemas
    asyncMessages,   \* asyncSpec.Components.Messages
    channels,        \* asyncSpec.Channels: by path
    served           \* history: the endpoint of each route

docVars == <<schemas, operations, asyncSchemas, asyncMessages, channels, served>>
allVars == <<vars, docVars>>

-----------------------------------------------------------------------------
(* Types and schemas. *)

(* nested: the named objects that the fields for the JSON body, or the items*)
(* of a list, hold.                                                         *)
Object(name, fields, nested) ==
    [shape |-> "object", name |-> name, fields |-> fields, nested |-> nested]

(* A schema says of a nested object what the generator left there, a Ref    *)
(* that is its bare name; no path to the components is put before it.       *)
Schema(T, fields) == [kind |-> "type", of |-> T, has |-> fields, bare |-> T.nested]
Whole(T)          == Schema(T, T.fields)

(* What gets a component of its own: the object, or what the list holds.    *)
Target(T) == IF T.shape = "list" THEN T.elem ELSE T
Named(T)  == Target(T).shape = "object" /\ Target(T).name # <<>> /\ Target(T).fields # {}

Inline   == [kind |-> "inline", name |-> <<>>]
Ref(n)   == [kind |-> "ref",    name |-> n]
Items(n) == [kind |-> "items",  name |-> n]

PlaceOf(T) ==
    IF Named(T) THEN IF T.shape = "list" THEN Items(T.elem.name) ELSE Ref(T.name)
                ELSE Inline

(* A map with one entry, and a map with the entries of another written over *)
(* its own: TLC's :> and @@, which the provers do not know.                 *)
Entry(key, value) == [k \in {key} |-> value]
Over(new, old) ==
    [k \in DOMAIN new \cup DOMAIN old |-> IF k \in DOMAIN new THEN new[k] ELSE old[k]]

(* A map after a sequence of writes to it: the last one of a name stays.    *)
Put(name, schema) == [name |-> name, schema |-> schema]

Writes(ws) ==
    [n \in {ws[i].name : i \in DOMAIN ws} |->
        ws[Max({i \in DOMAIN ws : ws[i].name = n})].schema]

BadRequestError     == Object(<<"BadRequestError">>, {"json"}, {})
InternalServerError == Object(<<"InternalServerError">>, {"json"}, {})
ValidationError     == Object(<<"ValidationError">>, {"json"}, {<<"FieldError">>})

Entries(errs) == [i \in DOMAIN errs |-> Declared[errs[i]]]

-----------------------------------------------------------------------------
(* The OpenAPI document. *)

(* What the content of a success response shows: the handler's response     *)
(* type, the type of ResponseSchema (of no use to a raw handler without a   *)
(* content type), or the payloads of the events.                            *)
Shown(ep) ==
    IF ep.kind = "sse" THEN [i \in DOMAIN ep.sends |-> ep.sends[i].type]
    ELSE IF ep.kind = "raw" /\ ~ep.custom THEN <<>>
    ELSE ep.shows

(* The fields of a header leave the response of a typed handler.            *)
ShownFields(ep, T) ==
    IF ep.kind = "handle" /\ ~ep.custom THEN T.fields \ {"header"} ELSE T.fields

NoBody(ep) == ep.kind = "handle" /\ ep.status \in {204, 304}

(* A typed handler's object without a name or without fields is not shown.  *)
HasContent(ep, T) ==
    /\ ~NoBody(ep)
    /\ ep.kind # "handle" \/ ep.custom \/ T.shape # "object"
         \/ (T.name # <<>> /\ ShownFields(ep, T) # {})

(* A raw handler that declares nothing has no success response.             *)
Success(ep, headers) ==
    IF ep.kind = "raw" /\ ~ep.custom /\ headers = <<>> THEN <<>>
    ELSE Entry(ep.status, {PlaceOf(T) : T \in {T \in Range(Shown(ep)) : HasContent(ep, T)}})

BuiltIn ==
    [s \in {400, 422, 500} |-> {Ref((CASE s = 400 -> BadRequestError
                                       [] s = 422 -> ValidationError
                                       [] s = 500 -> InternalServerError).name)}]

(* Only an error type that is a struct has a schema with a name.            *)
Documented(errs) ==
    [i \in {j \in DOMAIN errs : errs[j].type.shape = "object"} |-> errs[i]]

ErrorResponses(errs) ==
    [s \in {errs[i].status : i \in DOMAIN errs} |->
        {Ref(errs[Max({i \in DOMAIN errs : errs[i].status = s})].type.name)}]

(* Declared errors replace the built-in entry of their status.              *)
Responses_BuiltInLast(ep, errs, headers) ==
    Over(BuiltIn, Over(ErrorResponses(errs), Success(ep, headers)))

Responses(ep, errs, headers) ==
    Over(ErrorResponses(errs), Over(BuiltIn, Success(ep, headers)))

(* What is left of an input struct for its body.                            *)
BodyFields_KeepsHeaders(T) == T.fields \ {"param"}

BodyFields(T) == T.fields \ {"param", "header"}

RequestBody(ep) ==
    {IF BodyFields(T) # {} THEN Ref(T.name) ELSE Inline : T \in ep.body}

ResponseWrites_NotNested(ep) ==
    LET ts == Shown(ep)
    IN  [i \in {j \in DOMAIN ts :
                   HasContent(ep, ts[j]) /\ Named(ts[j]) /\ ts[j].shape = "object"} |->
           Put(ts[i].name, Schema(ts[i], ShownFields(ep, ts[i])))]

(* The components that updateSchema writes, first those of the response,    *)
(* then those of the errors, then that of the body.                         *)
ResponseWrites(ep) ==
    LET ts == Shown(ep)
    IN  [i \in {j \in DOMAIN ts : HasContent(ep, ts[j]) /\ Named(ts[j])} |->
           Put(Target(ts[i]).name,
               IF ts[i].shape = "list" THEN Whole(ts[i].elem)
               ELSE Schema(ts[i], ShownFields(ep, ts[i])))]

ErrorWrites(errs) == [i \in DOMAIN errs |-> Put(errs[i].type.name, Whole(errs[i].type))]

BodyComponents(ep) ==
    [n \in {T.name : T \in {T \in ep.body : BodyFields(T) # {}}} |->
        LET T == CHOOSE T \in ep.body : TRUE IN Schema(T, BodyFields(T))]

updateSchema(key, ep, declared, headers) ==
    LET errs == Documented(declared)
    IN  /\ schemas' = Over(BodyComponents(ep), Over(Writes(ErrorWrites(errs)),
                             Over(Writes(ResponseWrites(ep)), schemas)))
        /\ operations' = Over(Entry(key, [body      |-> RequestBody(ep),
                                          responses |-> Responses(ep, errs, headers)]), operations)
        /\ UNCHANGED <<asyncSchemas, asyncMessages, channels>>

-----------------------------------------------------------------------------
(* The AsyncAPI document. *)

WSCode(status) == 4000 + (status % 1000)

(* The wrapper {type, data} of a message, named after both.                 *)
EnvelopeName_OfMessage(v) == v.message

EnvelopeName(v) == v.message \o v.type.name
Envelope(v) ==
    [kind |-> "envelope", of |-> [message |-> v.message, data |-> v.type.name],
     has |-> {"type", "data"}]

PayloadWrites(vs) == [i \in DOMAIN vs |-> Put(vs[i].type.name, Whole(vs[i].type))]

(* Each variant writes the schema of its payload, then its envelope.        *)
VariantWrites(vs) ==
    [k \in 1..(2 * Len(vs)) |->
        LET v == vs[(k + 1) \div 2]
        IN  IF k % 2 = 1 THEN Put(v.type.name, Whole(v.type))
                         ELSE Put(EnvelopeName(v), Envelope(v))]

MessageWrites(vs) ==
    [i \in DOMAIN vs |->
        Put(EnvelopeName(vs[i]), [name |-> vs[i].message, payload |-> EnvelopeName(vs[i])])]

(* Without declared errors the channel has no x-errors at all.              *)
ErrorEntries(errs) ==
    IF errs = <<>> THEN <<>>
    ELSE <<[status |-> 422, type |-> ValidationError]>> \o errs

XErrors(errs) ==
    LET es == ErrorEntries(errs)
    IN  [c \in {WSCode(es[i].status) : i \in DOMAIN es} |->
           es[Max({i \in DOMAIN es : WSCode(es[i].status) = c})].type.name]

addWSChannel(path, ep, errs) ==
    LET vs == ep.sends \o ep.receives
        es == Writes(ErrorWrites(ErrorEntries(errs)))
    IN  /\ schemas' = Over(es, Over(Writes(PayloadWrites(vs)), schemas))
        /\ asyncSchemas' = Over(es, Over(Writes(VariantWrites(vs)), asyncSchemas))
        /\ asyncMessages' = Over(Writes(MessageWrites(vs)), asyncMessages)
        /\ channels' = Over(Entry(path, [subscribe |-> {EnvelopeName(v) : v \in Range(ep.sends)},
                                         publish   |-> {EnvelopeName(v) : v \in Range(ep.receives)},
                                         xErrors   |-> XErrors(errs)]), channels)
        /\ UNCHANGED operations

-----------------------------------------------------------------------------
(* Registration.  New writes the built-in components, without any Ref; a    *)
(* route whose options contradict each other panics before it is documented.*)

InitDoc ==
    /\ Init
    /\ schemas = Writes([i \in 1..3 |->
                    LET T == <<BadRequestError, InternalServerError, ValidationError>>[i]
                    IN  Put(T.name, [Whole(T) EXCEPT !.bare = {}])])
    /\ operations = <<>> /\ asyncSchemas = <<>> /\ asyncMessages = <<>> /\ channels = <<>>
    /\ served = <<>>

Distinct(vs) == \A i, j \in DOMAIN vs : vs[i].message = vs[j].message => i = j

Registrable(ep) ==
    \/ ep.kind = "raw"
    \/ ep.kind = "handle" /\ ~(NoBody(ep) /\ ~ep.custom /\ \E T \in Range(ep.shows) :
                                  T.fields \ {"header"} # {})
    \/ ep.kind = "sse" /\ ep.sends # <<>> /\ Distinct(ep.sends)
    \/ /\ ep.kind = "ws"
       /\ ep.sends # <<>> /\ ep.receives # <<>>
       /\ Distinct(ep.sends) /\ Distinct(ep.receives)

Path(r, ep) == <<r, ep.path>>
Key(r, ep)  == <<Path(r, ep), ep.method>>

register(r, m, n, ep) ==
    LET rt   == routes'[Len(routes')]
        errs == Entries(Contents(heap', rt.allErrors))
    IN  /\ Registrable(ep)
        /\ \A i \in DOMAIN served : served[i].key # Key(r, ep)
        /\ prepareRoute(r, m, n)
        /\ \/ ep.kind # "ws" /\ updateSchema(Key(r, ep), ep, errs, Contents(heap', rt.staticHeaders))
           \/ ep.kind = "ws" /\ addWSChannel(Path(r, ep), ep, errs)
        /\ served' = Append(served, [ep |-> ep, key |-> Key(r, ep)])

NextDoc ==
    \/ (addError \/ addStaticResponseHeader) /\ UNCHANGED docVars
    \/ \E r \in DOMAIN routers, m, n \in 0..MaxPerRoute : Group(r, m, n) /\ UNCHANGED docVars
    \/ \E r \in DOMAIN routers, m, n \in 0..MaxPerRoute, ep \in Endpoints : register(r, m, n, ep)

SpecDoc == InitDoc /\ [][NextDoc]_allVars

-----------------------------------------------------------------------------
(* The client's types of a channel (templates.ts): a reference to an        *)
(* envelope becomes {type, data}, anything else is dropped from the union.  *)

resolveEnvelopeType(ref) ==
    LET s == asyncSchemas[asyncMessages[ref].payload]
    IN  IF s.kind = "envelope" THEN {[type |-> s.of.message, data |-> s.of.data]} ELSE {}

resolveMessageType(refs) == UNION {resolveEnvelopeType(ref) : ref \in refs}

(* The type of a channel's connection: what the client sends and receives.  *)
buildWSChannelsType(path) ==
    [send    |-> resolveMessageType(channels[path].subscribe),
     receive |-> resolveMessageType(channels[path].publish)]

-----------------------------------------------------------------------------
(* Properties *)

(* Every reference that an operation, a response, a channel, a message or   *)
(* an envelope makes names a component that is there, also those the client *)
(* generator looks up in the other document: the payloads and errors of a   *)
(* channel among the OpenAPI schemas.  (What a schema says of the objects   *)
(* nested in it, its bare Refs, is left out: the code writes those without  *)
(* a path and gives them no component, so that they resolve to nothing.)    *)
OperationRefsResolve ==
    \A o \in Range(operations) : \A p \in o.body \cup UNION Range(o.responses) :
        p.kind # "inline" => p.name \in DOMAIN schemas

ChannelRefsResolve ==
    \A c \in Range(channels) :
        /\ c.subscribe \cup c.publish \subseteq DOMAIN asyncMessages
        /\ Range(c.xErrors) \subseteq DOMAIN asyncSchemas \cap DOMAIN schemas

EnvelopeRefsResolve ==
    /\ \A msg \in Range(asyncMessages) : msg.payload \in DOMAIN asyncSchemas
    /\ \A s \in Range(asyncSchemas) :
          s.kind = "envelope" => s.of.data \in DOMAIN asyncSchemas \cap DOMAIN schemas

RefsResolve == OperationRefsResolve /\ ChannelRefsResolve /\ EnvelopeRefsResolve

(* The schemas a route has to show: what its handler reads of its body and  *)
(* writes in its response, its messages and its errors.                     *)
ErrorsOf(i) == {Declared[d] : d \in KnownErrors(routes[i])}
Variants(ep) == Range(ep.sends) \cup Range(ep.receives)

ContentOf(ep) ==
    IF ep.kind = "ws" THEN {Whole(v.type) : v \in Variants(ep)}
    ELSE {Schema(T, T.fields \cap {"json"}) : T \in {T \in ep.body : "json" \in T.fields}}
         \cup {Schema(Target(T), IF T.shape = "list" THEN T.elem.fields ELSE ShownFields(ep, T)) :
                   T \in {T \in Range(Shown(ep)) : Named(T) /\ HasContent(ep, T)}}

Needs(i) ==
    ContentOf(served[i].ep)
      \cup {Whole(e.type) :
              e \in {e \in ErrorsOf(i) : e.type.shape = "object" \/ served[i].ep.kind = "ws"}}

(* The components that the documentation of a route refers to.              *)
Refers(i) ==
    LET ep == served[i].ep
    IN  IF ep.kind = "ws"
        THEN LET c == channels[served[i].key[1]]
             IN  {asyncSchemas[asyncMessages[e].payload].of.data : e \in c.subscribe \cup c.publish}
        ELSE LET o == operations[served[i].key]
             IN  {p.name : p \in o.body \cup UNION Range(o.responses)}

BuiltInNames == {BadRequestError.name, InternalServerError.name, ValidationError.name}

NoClash ==
    LET all == UNION {Needs(i) : i \in DOMAIN served}
        vs  == UNION {Variants(served[i].ep) :
                        i \in {i \in DOMAIN served : served[i].ep.kind = "ws"}}
    IN  /\ \A a, b \in all : a.of.name = b.of.name => a = b
        /\ \A a \in all : a.of.name \notin BuiltInNames
        /\ \A v, w \in vs : v.message \o v.type.name = w.message \o w.type.name =>
                                 v.message = w.message /\ v.type.name = w.type.name
        /\ \A v \in vs : v.message \o v.type.name \notin {a.of.name : a \in all} \cup BuiltInNames

(* Nothing takes the place that a route documents itself in: for an HTTP    *)
(* route the status of its success, which a built-in or declared error may  *)
(* have, too; for a WebSocket the channel of its path, which has no method. *)
OwnEntry(i) ==
    IF served[i].ep.kind = "ws"
    THEN \A j \in DOMAIN served :
            served[j].ep.kind = "ws" /\ served[j].key[1] = served[i].key[1] => j <= i
    ELSE /\ served[i].ep.status \notin DOMAIN BuiltIn
         /\ \A e \in ErrorsOf(i) : e.status # served[i].ep.status

(* The unions that the client generator finds for a channel.                *)
TypesOf(vs) == {[type |-> v.message, data |-> v.type.name] : v \in Range(vs)}
ClientTypes(i) == buildWSChannelsType(served[i].key[1])

(* Whatever is registered before and after, a route refers to the schemas   *)
(* of its own types, with the fields its handler has, unless two types, or  *)
(* two uses of one, want one name.  Of the two unions generated for a       *)
(* socket each has the messages of one direction, all of them and with the  *)
(* payloads its server has for them.  (Which direction the client takes     *)
(* them for is the matter of ClientTypesFollowServer.)                      *)
DescribesItsTypes ==
    NoClash => \A i \in DOMAIN served :
        /\ \A a \in Needs(i) : a.of.name \in DOMAIN schemas /\ schemas[a.of.name] = a
        /\ OwnEntry(i) => \A a \in ContentOf(served[i].ep) : a.of.name \in Refers(i)
        /\ OwnEntry(i) /\ served[i].ep.kind = "ws" =>
              {ClientTypes(i).send, ClientTypes(i).receive}
                 = {TypesOf(served[i].ep.sends), TypesOf(served[i].ep.receives)}

(* The errors of a route in the document that lists them: the statuses, or  *)
(* the close codes, and the name of the schema under each.                  *)
ErrorStatuses(i) ==
    LET typed == {e.status : e \in {e \in ErrorsOf(i) : e.type.shape = "object"}}
        codes == {WSCode(e.status) : e \in ErrorsOf(i)}
    IN  IF served[i].ep.kind # "ws" THEN DOMAIN BuiltIn \cup typed
        ELSE IF codes = {} THEN {} ELSE codes \cup {WSCode(422)}

DocumentsErrors(i) ==
    LET es     == ErrorsOf(i)
        typed  == {e \in es : e.type.shape = "object"}
        doc    == IF served[i].ep.kind = "ws" THEN channels[served[i].key[1]].xErrors
                  ELSE [s \in DOMAIN operations[served[i].key].responses |->
                          {p.name : p \in operations[served[i].key].responses[s]}]
    IN  IF served[i].ep.kind = "ws"
        THEN OwnEntry(i) =>
               /\ DOMAIN doc = ErrorStatuses(i)
               /\ \A e \in es : doc[WSCode(e.status)] \in
                    {f.type.name : f \in {f \in es : WSCode(f.status) = WSCode(e.status)}}
        ELSE /\ \A e \in typed : \E f \in typed :
                   f.status = e.status /\ e.status \in DOMAIN doc /\ doc[e.status] = {f.type.name}
             /\ \A s \in DOMAIN BuiltIn :
                   (\A e \in typed : e.status # s) =>
                        s \in DOMAIN doc /\ doc[s] = {p.name : p \in BuiltIn[s]}
             /\ DOMAIN doc \subseteq ErrorStatuses(i) \cup {served[i].ep.status}

(* Which errors the documents show, and with which schema.  An operation    *)
(* has an entry for the status of every error of the route whose type is a  *)
(* struct, which names the type of one of those declared with it, and the   *)
(* built-in entries under the other statuses of these; it has no entry for  *)
(* an error of another type, whose status the client gets all the same.     *)
(* The channel that is a socket's own has an entry for the close code of    *)
(* every declared error, and for that of a validation error; but none at    *)
(* all, for the validation error either, if the route declares no error.    *)
ErrorsDocumented == \A i \in DOMAIN served : DocumentsErrors(i)

(* websocket.ts types a connection by what the client sends to the server   *)
(* and receives from it; so the generated type of a channel should have the *)
(* messages that its server receives to send, and those it sends to receive.*)
ClientTypesFollowServer ==
    NoClash => \A i \in DOMAIN served :
        served[i].ep.kind = "ws" /\ OwnEntry(i) =>
            /\ ClientTypes(i).send = TypesOf(served[i].ep.receives)
            /\ ClientTypes(i).receive = TypesOf(served[i].ep.sends)
=============================================================================
