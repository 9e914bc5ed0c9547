------------------------- MODULE ApiDocumentProofs -------------------------
(***************************************************************************)
(* Registering routes and writing them into the two documents is, for the  *)
(* lists of RouteRegistry, nothing but a registration, so that what is     *)
(* proved there holds here.  And whatever types, errors and messages the   *)
(* routes have, and however their names meet, no reference is left without *)
(* a component.                                                            *)
(***************************************************************************)
EXTENDS ApiDocument, RouteRegistryProofs, WellFoundedInduction

(* A registration of the documented API is one of RouteRegistry.            *)
LEMMA DocStep == [NextDoc]_allVars => [Next]_vars
<1> SUFFICES ASSUME [NextDoc]_allVars PROVE [Next]_vars
  OBVIOUS
<1>1. CASE UNCHANGED allVars
  BY <1>1 DEF allVars
<1>2. CASE addError \/ addStaticResponseHeader
  BY <1>2 DEF Next
<1>3. ASSUME NEW r \in DOMAIN routers, NEW m \in 0..MaxPerRoute, NEW n \in 0..MaxPerRoute,
             Group(r, m, n)
      PROVE  [Next]_vars
  BY <1>3 DEF Next
<1>4. ASSUME NEW r \in DOMAIN routers, NEW m \in 0..MaxPerRoute, NEW n \in 0..MaxPerRoute,
             NEW ep \in Endpoints, register(r, m, n, ep)
      PROVE  [Next]_vars
  BY <1>4 DEF Next, register
<1> QED BY <1>1, <1>2, <1>3, <1>4 DEF NextDoc

(* ApiDocument implements RouteRegistry.                                    *)
THEOREM Registers == SpecDoc => Spec
<1>1. InitDoc => Init
  BY DEF InitDoc
<1> QED BY <1>1, DocStep, PTL DEF SpecDoc, Spec

(* What the API or a group gives to its routes never changes.               *)
THEOREM DocRouterListsStable == SpecDoc => []RouterListsStable
BY Registers, SpecRouterListsStable, PTL

(* A route knows the errors of its API, its groups and its own.             *)
THEOREM DocErrorsApplyToTheirRoute == SpecDoc => []ErrorsApplyToTheirRoute
BY Registers, SpecErrorsApplyToTheirRoute, PTL

(* A request gets the inherited headers first, unchanged and in order.      *)
THEOREM DocInheritedHeadersFirst == SpecDoc => []InheritedHeadersFirst
BY Registers, SpecInheritedHeadersFirst, PTL

-----------------------------------------------------------------------------
(* Maps. *)

(* Writing one map over another keeps every name of both.                   *)
LEMMA OverFacts ==
    ASSUME NEW f, NEW g
    PROVE  /\ DOMAIN Over(f, g) = DOMAIN f \cup DOMAIN g
           /\ \A k \in DOMAIN f : Over(f, g)[k] = f[k]
           /\ \A k \in DOMAIN g : k \notin DOMAIN f => Over(f, g)[k] = g[k]
           /\ Range(Over(f, g)) \subseteq Range(f) \cup Range(g)
BY DEF Over, Range

(* A map with one entry has one name and one value.                         *)
LEMMA EntryMap ==
    ASSUME NEW k, NEW v
    PROVE  DOMAIN Entry(k, v) = {k} /\ Range(Entry(k, v)) = {v}
BY DEF Entry, Range

(* The largest of some positions is one of them, and no other is larger.    *)
LEMMA MaxIn ==
    ASSUME NEW n \in Nat, NEW S \in SUBSET (1..n), S # {}
    PROVE  Max(S) \in S /\ \A j \in S : j <= Max(S)
<1> DEFINE T == {n - i : i \in S}
<1>1. T \subseteq Nat /\ T # {}
  <2>1. \A i \in S : i \in 1..n /\ n - i \in Nat
    OBVIOUS
  <2>2. PICK i \in S : TRUE
    OBVIOUS
  <2>3. n - i \in T
    OBVIOUS
  <2> QED BY <2>1, <2>3
<1>2. PICK x \in T : \A y \in T : ~ (<<y, x>> \in OpToRel(<, Nat))
  BY <1>1, NatLessThanWellFounded, WFMin
<1>3. \A y \in T : ~ (y < x)
  BY <1>1, <1>2 DEF OpToRel
<1>4. PICK i \in S : x = n - i
  BY <1>2
<1>5. \A j \in S : i >= j
  BY <1>3, <1>4
<1>6. Max(S) \in S /\ \A j \in S : Max(S) >= j
  BY <1>4, <1>5 DEF Max
<1> QED BY <1>6

(* The names of two maps written over a third.                              *)
LEMMA OverDomain ==
    ASSUME NEW f, NEW g, NEW h
    PROVE  DOMAIN Over(f, Over(g, h)) = UNION {DOMAIN f, DOMAIN g, DOMAIN h}
BY DEF Over

(* One entry written over a map adds at most its value.                     *)
LEMMA OverEntry ==
    ASSUME NEW k, NEW v, NEW g
    PROVE  Range(Over(Entry(k, v), g)) \subseteq {v} \cup Range(g)
<1> DEFINE e == Entry(k, v)
<1>1. Range(e) = {v}
  BY EntryMap
<1> HIDE DEF e
<1>2. Range(Over(e, g)) \subseteq {v} \cup Range(g)
  BY <1>1, OverFacts
<1> QED BY <1>2 DEF e

(* It is found there, and the others are as they were.                      *)
LEMMA OverOneEntry ==
    ASSUME NEW k, NEW v, NEW g
    PROVE  /\ k \in DOMAIN Over(Entry(k, v), g) /\ Over(Entry(k, v), g)[k] = v
           /\ \A x \in DOMAIN g : x # k =>
                 x \in DOMAIN Over(Entry(k, v), g) /\ Over(Entry(k, v), g)[x] = g[x]
BY DEF Over, Entry

(* What a sequence of writes leaves under a name was written there.         *)
LEMMA WritesFacts ==
    ASSUME NEW n \in Nat, NEW ws, DOMAIN ws \subseteq 1..n
    PROVE  \A m \in DOMAIN Writes(ws) :
              \E i \in DOMAIN ws : ws[i].name = m /\ Writes(ws)[m] = ws[i].schema
<1>1. DOMAIN Writes(ws) = {ws[i].name : i \in DOMAIN ws}
  BY DEF Writes
<1>2. ASSUME NEW m \in DOMAIN Writes(ws)
      PROVE  \E i \in DOMAIN ws : ws[i].name = m /\ Writes(ws)[m] = ws[i].schema
  <2> DEFINE S == {i \in DOMAIN ws : ws[i].name = m}
  <2>1. S \in SUBSET (1..n) /\ S # {}
    BY <1>1, <1>2
  <2>2. Max(S) \in S
    BY <2>1, MaxIn
  <2>3. Writes(ws)[m] = ws[Max(S)].schema
    BY <1>1, <1>2 DEF Writes
  <2> QED BY <2>2, <2>3
<1> QED BY <1>2

-----------------------------------------------------------------------------
(* References. *)

(* The built-in errors have components, too.                                *)
DocInv == RefsResolve /\ BuiltInNames \subseteq DOMAIN schemas

(* The documents of an API with no routes hold only the built-in errors.    *)
LEMMA InitDocInv == InitDoc => DocInv
<1> SUFFICES ASSUME InitDoc PROVE DocInv
  OBVIOUS
<1> DEFINE Ts == <<BadRequestError, InternalServerError, ValidationError>>
           ws == [i \in 1..3 |-> LET T == Ts[i] IN Put(T.name, [Whole(T) EXCEPT !.bare = {}])]
<1>1. schemas = Writes(ws) /\ operations = <<>> /\ channels = <<>>
      /\ asyncMessages = <<>> /\ asyncSchemas = <<>>
  BY DEF InitDoc
<1>2. DOMAIN schemas = {ws[i].name : i \in 1..3}
  BY <1>1 DEF Writes
<1>3. /\ ws[1].name = BadRequestError.name /\ ws[2].name = InternalServerError.name
      /\ ws[3].name = ValidationError.name
  BY DEF Put
<1>4. BuiltInNames \subseteq DOMAIN schemas
  BY <1>2, <1>3 DEF BuiltInNames
<1>5. RefsResolve
  BY <1>1 DEF RefsResolve, OperationRefsResolve, ChannelRefsResolve, EnvelopeRefsResolve, Range
<1> QED BY <1>4, <1>5 DEF DocInv

(* What an HTTP route refers to is written with it, or built in.            *)
LEMMA OperationRefs ==
    ASSUME NEW ep, NEW errs, NEW headers, NEW n \in Nat, DOMAIN errs \subseteq 1..n
    PROVE  \A p \in RequestBody(ep) \cup UNION Range(Responses(ep, errs, headers)) :
             p.kind # "inline" =>
                p.name \in DOMAIN BodyComponents(ep) \cup DOMAIN Writes(ErrorWrites(errs))
                           \cup DOMAIN Writes(ResponseWrites(ep)) \cup BuiltInNames
<1> DEFINE Names == DOMAIN BodyComponents(ep) \cup DOMAIN Writes(ErrorWrites(errs))
                           \cup DOMAIN Writes(ResponseWrites(ep)) \cup BuiltInNames
<1>1. ASSUME NEW p \in RequestBody(ep), p.kind # "inline"
      PROVE  p.name \in DOMAIN BodyComponents(ep)
  BY <1>1 DEF RequestBody, BodyComponents, Ref, Inline
<1>2. ASSUME NEW s \in DOMAIN ErrorResponses(errs), NEW p \in ErrorResponses(errs)[s]
      PROVE  p.name \in DOMAIN Writes(ErrorWrites(errs))
  <2> DEFINE S == {i \in DOMAIN errs : errs[i].status = s}
  <2>1. S \in SUBSET (1..n) /\ S # {}
    BY <1>2 DEF ErrorResponses
  <2>2. Max(S) \in DOMAIN errs
    BY <2>1, MaxIn
  <2>3. p.name = errs[Max(S)].type.name
    BY <1>2 DEF ErrorResponses, Ref
  <2> HIDE DEF S
  <2> QED BY <2>2, <2>3 DEF Writes, ErrorWrites, Put
<1>3. ASSUME NEW s \in DOMAIN BuiltIn, NEW p \in BuiltIn[s]
      PROVE  p.name \in BuiltInNames
  BY <1>3 DEF BuiltIn, BuiltInNames, Ref
<1>4. ASSUME NEW s \in DOMAIN Success(ep, headers), NEW p \in Success(ep, headers)[s],
             p.kind # "inline"
      PROVE  p.name \in DOMAIN Writes(ResponseWrites(ep))
  <2>1. PICK T \in Range(Shown(ep)) : HasContent(ep, T) /\ p = PlaceOf(T)
    BY <1>4 DEF Success, Entry
  <2>2. Named(T) /\ p.name = Target(T).name
    BY <1>4, <2>1 DEF PlaceOf, Target, Items, Ref, Inline
  <2>3. PICK i \in DOMAIN Shown(ep) : Shown(ep)[i] = T
    BY DEF Range
  <2> QED BY <2>1, <2>2, <2>3 DEF Writes, ResponseWrites, Put
<1>5. ASSUME NEW p \in UNION Range(Responses(ep, errs, headers)), p.kind # "inline"
      PROVE  p.name \in Names
  <2>1. PICK s \in DOMAIN Responses(ep, errs, headers) : p \in Responses(ep, errs, headers)[s]
    BY <1>5 DEF Range
  <2>2. \/ s \in DOMAIN ErrorResponses(errs) /\ p \in ErrorResponses(errs)[s]
        \/ s \in DOMAIN BuiltIn /\ p \in BuiltIn[s]
        \/ s \in DOMAIN Success(ep, headers) /\ p \in Success(ep, headers)[s]
    BY <2>1 DEF Responses, Over
  <2> QED BY <1>2, <1>3, <1>4, <1>5, <2>2
<1> QED BY <1>1, <1>5

(* Writing a route into the OpenAPI document leaves no reference open.      *)
LEMMA OperationKeeps ==
    ASSUME DocInv, NEW key, NEW ep, NEW declared, NEW headers,
           NEW n \in Nat, DOMAIN declared \subseteq 1..n, updateSchema(key, ep, declared, headers)
    PROVE  DocInv'
<1> DEFINE errs == Documented(declared)
           o    == [body |-> RequestBody(ep), responses |-> Responses(ep, errs, headers)]
<1>1. DOMAIN errs \subseteq 1..n
  BY DEF Documented
<1>2. /\ schemas' = Over(BodyComponents(ep), Over(Writes(ErrorWrites(errs)),
                         Over(Writes(ResponseWrites(ep)), schemas)))
      /\ operations' = Over(Entry(key, o), operations)
      /\ UNCHANGED <<asyncSchemas, asyncMessages, channels>>
  BY DEF updateSchema
<1>3. DOMAIN schemas' = DOMAIN BodyComponents(ep) \cup DOMAIN Writes(ErrorWrites(errs))
                           \cup DOMAIN Writes(ResponseWrites(ep)) \cup DOMAIN schemas
  <2> DEFINE rw    == Writes(ResponseWrites(ep))
             ew    == Writes(ErrorWrites(errs))
             bc    == BodyComponents(ep)
             inner == Over(rw, schemas)
  <2>1. schemas' = Over(bc, Over(ew, inner))
    BY <1>2
  <2>2. DOMAIN inner = DOMAIN rw \cup DOMAIN schemas
    BY DEF Over
  <2> HIDE DEF rw, ew, bc, inner
  <2>3. DOMAIN schemas' = UNION {DOMAIN bc, DOMAIN ew, DOMAIN inner}
    BY <2>1, OverDomain
  <2>4. DOMAIN schemas' = DOMAIN bc \cup DOMAIN ew \cup DOMAIN rw \cup DOMAIN schemas
    BY <2>2, <2>3
  <2> QED BY <2>4 DEF rw, ew, bc
<1>4. Range(operations') \subseteq {o} \cup Range(operations)
  BY <1>2, OverEntry
<1>5. BuiltInNames \subseteq DOMAIN schemas
  BY DEF DocInv
<1>6. \A p \in o.body \cup UNION Range(o.responses) :
         p.kind # "inline" => p.name \in DOMAIN schemas'
  BY <1>1, <1>3, <1>5, OperationRefs
<1> HIDE DEF o, errs
<1>7. OperationRefsResolve'
  BY <1>3, <1>4, <1>6 DEF DocInv, RefsResolve, OperationRefsResolve
<1>8. ChannelRefsResolve' /\ EnvelopeRefsResolve'
  BY <1>2, <1>3 DEF DocInv, RefsResolve, ChannelRefsResolve, EnvelopeRefsResolve
<1> QED BY <1>3, <1>5, <1>7, <1>8 DEF DocInv, RefsResolve

-----------------------------------------------------------------------------
(* Channels. *)

(* The errors of a channel: the built-in one, then those of the route.      *)
LEMMA ErrorEntriesFacts ==
    ASSUME NEW n \in Nat, NEW errs, errs \in [1..n -> Range(errs)]
    PROVE  LET ee == ErrorEntries(errs)
           IN  /\ DOMAIN ee \subseteq 1..(n + 1) /\ n + 1 \in Nat
               /\ n # 0 => /\ DOMAIN ee = 1..(n + 1)
                           /\ ee[1] = [status |-> 422, type |-> ValidationError]
               /\ n = 0 => DOMAIN ee = {}
               /\ \A i \in 1..n : ee[i + 1] = errs[i]
               /\ \A i \in DOMAIN ee :
                     ee[i] = [status |-> 422, type |-> ValidationError] \/ ee[i] \in Range(errs)
<1> DEFINE e == [status |-> 422, type |-> ValidationError]
           V == Range(errs) \cup {e}
<1>1. errs \in [1..n -> V] /\ e \in V
  OBVIOUS
<1> HIDE DEF e, V
<1>2. errs \in Seq(V) /\ Len(errs) = n
  BY <1>1, FunctionIsSequence
<1>3. <<e>> \in Seq(V) /\ Len(<<e>>) = 1
  BY <1>1
<1> DEFINE ee == <<e>> \o errs
<1>4. DOMAIN ee = 1..(n + 1) /\ ee[1] = e /\ \A i \in 1..n : ee[i + 1] = errs[i]
  BY <1>2, <1>3
<1>5. \A i \in DOMAIN ee : ee[i] = e \/ ee[i] \in Range(errs)
  <2> HIDE DEF ee
  <2>1. \A i \in 2..(n + 1) : i - 1 \in 1..n /\ (i - 1) + 1 = i
    OBVIOUS
  <2>2. \A i \in 1..n : errs[i] \in Range(errs)
    BY <1>2 DEF Range
  <2>3. \A i \in 2..(n + 1) : ee[i] = errs[i - 1]
    BY <1>4, <2>1
  <2>4. \A i \in 2..(n + 1) : ee[i] \in Range(errs)
    BY <2>1, <2>2, <2>3
  <2> QED BY <1>4, <2>4
<1>6. n # 0 <=> errs # <<>>
  BY <1>2
<1>7. errs = <<>> => n = 0 /\ ErrorEntries(errs) = <<>>
  BY <1>2 DEF ErrorEntries
<1>8. errs # <<>> => ErrorEntries(errs) = ee
  BY DEF ErrorEntries, e
<1>9. n + 1 \in Nat
  OBVIOUS
<1> HIDE DEF ee
<1>10. CASE errs = <<>>
  BY <1>7, <1>9, <1>10
<1>11. CASE errs # <<>>
  BY <1>4, <1>5, <1>6, <1>8, <1>9, <1>11 DEF e
<1> QED BY <1>10, <1>11

(* The variants of a channel: those it sends and those it receives.         *)
LEMMA VariantFacts ==
    ASSUME NEW ep \in Endpoints
    PROVE  LET vs == ep.sends \o ep.receives
           IN  /\ vs \in Seq(Messages) /\ Len(vs) \in Nat /\ DOMAIN vs = 1..Len(vs)
               /\ \A v \in Range(ep.sends) \cup Range(ep.receives) :
                     \E i \in DOMAIN vs : vs[i] = v
               /\ \A i \in DOMAIN vs : vs[i] \in Range(ep.sends) \cup Range(ep.receives)
<1> DEFINE a  == ep.sends
           b  == ep.receives
           vs == a \o b
<1>1. a \in Seq(Messages) /\ b \in Seq(Messages)
  BY EndpointAssumption
<1> HIDE DEF a, b
<1>2. vs \in Seq(Messages) /\ Len(vs) = Len(a) + Len(b) /\ Len(a) \in Nat /\ Len(b) \in Nat
  BY <1>1
<1>3. ASSUME NEW i \in DOMAIN a PROVE i \in DOMAIN vs /\ vs[i] = a[i]
  BY <1>1, <1>2, <1>3
<1>4. ASSUME NEW i \in DOMAIN b PROVE Len(a) + i \in DOMAIN vs /\ vs[Len(a) + i] = b[i]
  BY <1>1, <1>2, <1>4
<1>5. ASSUME NEW v \in Range(a) \cup Range(b) PROVE \E i \in DOMAIN vs : vs[i] = v
  BY <1>3, <1>4 DEF Range
<1>6. /\ vs \in Seq(Messages) /\ Len(vs) \in Nat /\ DOMAIN vs = 1..Len(vs)
  BY <1>2
<1>7. ASSUME NEW i \in DOMAIN vs PROVE vs[i] \in Range(a) \cup Range(b)
  <2>1. CASE i <= Len(a)
    <3>1. i \in DOMAIN a /\ vs[i] = a[i]
      BY <1>1, <1>2, <1>7, <2>1
    <3> QED BY <3>1 DEF Range
  <2>2. CASE i > Len(a)
    <3>1. i - Len(a) \in DOMAIN b /\ vs[i] = b[i - Len(a)]
      BY <1>1, <1>2, <1>7, <2>2
    <3> QED BY <3>1 DEF Range
  <2> QED BY <1>2, <1>7, <2>1, <2>2
<1> QED BY <1>5, <1>6, <1>7 DEF a, b

(* Each variant has written its payload and its envelope.                   *)
LEMMA VariantWritesFacts ==
    ASSUME NEW vs, NEW n \in Nat, Len(vs) = n, DOMAIN vs = 1..n
    PROVE  /\ DOMAIN VariantWrites(vs) = 1..(2 * n) /\ 2 * n \in Nat
           /\ \A i \in DOMAIN vs :
                 /\ vs[i].type.name \in DOMAIN Writes(VariantWrites(vs))
                 /\ EnvelopeName(vs[i]) \in DOMAIN Writes(VariantWrites(vs))
           /\ \A k \in DOMAIN VariantWrites(vs) : \E i \in DOMAIN vs :
                 VariantWrites(vs)[k] \in {Put(vs[i].type.name, Whole(vs[i].type)),
                                           Put(EnvelopeName(vs[i]), Envelope(vs[i]))}
<1>1. DOMAIN VariantWrites(vs) = 1..(2 * n) /\ 2 * n \in Nat
  BY DEF VariantWrites
<1>2. ASSUME NEW k \in 1..(2 * n)
      PROVE  /\ (k + 1) \div 2 \in DOMAIN vs
             /\ VariantWrites(vs)[k] =
                   IF k % 2 = 1
                   THEN Put(vs[(k + 1) \div 2].type.name, Whole(vs[(k + 1) \div 2].type))
                   ELSE Put(EnvelopeName(vs[(k + 1) \div 2]), Envelope(vs[(k + 1) \div 2]))
  BY <1>2 DEF VariantWrites
<1>3. ASSUME NEW i \in DOMAIN vs
      PROVE  /\ vs[i].type.name \in DOMAIN Writes(VariantWrites(vs))
             /\ EnvelopeName(vs[i]) \in DOMAIN Writes(VariantWrites(vs))
  <2>4. i \in Nat /\ 1 <= i /\ i <= n
    BY <1>3
  <2>5. 2 * i - 1 \in 1..(2 * n) /\ (2 * i - 1 + 1) \div 2 = i /\ (2 * i - 1) % 2 = 1
    BY <2>4
  <2>6. 2 * i \in 1..(2 * n) /\ (2 * i + 1) \div 2 = i /\ (2 * i) % 2 # 1
    BY <2>4
  <2>1. /\ 2 * i - 1 \in 1..(2 * n) /\ (2 * i - 1 + 1) \div 2 = i /\ (2 * i - 1) % 2 = 1
        /\ 2 * i \in 1..(2 * n) /\ (2 * i + 1) \div 2 = i /\ (2 * i) % 2 # 1
    BY <2>5, <2>6
  <2>2. /\ VariantWrites(vs)[2 * i - 1] = Put(vs[i].type.name, Whole(vs[i].type))
        /\ VariantWrites(vs)[2 * i] = Put(EnvelopeName(vs[i]), Envelope(vs[i]))
    BY <1>2, <2>1
  <2>3. /\ VariantWrites(vs)[2 * i - 1].name = vs[i].type.name
        /\ VariantWrites(vs)[2 * i].name = EnvelopeName(vs[i])
    BY <2>2 DEF Put
  <2> QED BY <1>1, <2>1, <2>3 DEF Writes
<1> QED BY <1>1, <1>2, <1>3

(* Writing a channel into the AsyncAPI document leaves none open.           *)
LEMMA ChannelKeeps ==
    ASSUME DocInv, NEW path, NEW ep \in Endpoints, NEW n \in Nat,
           NEW errs, errs \in [1..n -> Range(errs)], addWSChannel(path, ep, errs)
    PROVE  DocInv'
<1> DEFINE vs == ep.sends \o ep.receives
           es == Writes(ErrorWrites(ErrorEntries(errs)))
           pw == Writes(PayloadWrites(vs))
           vw == Writes(VariantWrites(vs))
           mw == Writes(MessageWrites(vs))
           c  == [subscribe |-> {EnvelopeName(v) : v \in Range(ep.sends)},
                  publish   |-> {EnvelopeName(v) : v \in Range(ep.receives)},
                  xErrors   |-> XErrors(errs)]
<1>1. /\ schemas' = Over(es, Over(pw, schemas)) /\ asyncSchemas' = Over(es, Over(vw, asyncSchemas))
      /\ asyncMessages' = Over(mw, asyncMessages) /\ channels' = Over(Entry(path, c), channels)
      /\ UNCHANGED operations
  BY DEF addWSChannel
<1>2. Len(vs) \in Nat /\ DOMAIN vs = 1..Len(vs)
  BY VariantFacts
<1>3. \A v \in Range(ep.sends) \cup Range(ep.receives) : \E i \in DOMAIN vs : vs[i] = v
  BY VariantFacts
<1>4. \A i \in DOMAIN vs : vs[i].type.name \in DOMAIN pw /\ EnvelopeName(vs[i]) \in DOMAIN mw
  BY DEF PayloadWrites, MessageWrites, Writes, Put
<1>5. \A i \in DOMAIN vs : vs[i].type.name \in DOMAIN vw /\ EnvelopeName(vs[i]) \in DOMAIN vw
  BY <1>2, VariantWritesFacts
<1>6. \A m \in DOMAIN vw : \E i \in DOMAIN vs : vw[m] \in {Whole(vs[i].type), Envelope(vs[i])}
  <2> SUFFICES ASSUME NEW m \in DOMAIN vw
               PROVE  \E i \in DOMAIN vs : vw[m] \in {Whole(vs[i].type), Envelope(vs[i])}
    OBVIOUS
  <2>1. PICK k \in DOMAIN VariantWrites(vs) : vw[m] = VariantWrites(vs)[k].schema
    <3> DEFINE ws == VariantWrites(vs)
               k2 == 2 * Len(vs)
    <3>1. k2 \in Nat /\ DOMAIN ws \subseteq 1..k2
      BY <1>2, VariantWritesFacts
    <3> HIDE DEF ws, k2
    <3>2. \A x \in DOMAIN Writes(ws) :
             \E j \in DOMAIN ws : ws[j].name = x /\ Writes(ws)[x] = ws[j].schema
      BY <3>1, WritesFacts
    <3> QED BY <3>2 DEF ws
  <2>2. PICK i \in DOMAIN vs :
           VariantWrites(vs)[k] \in {Put(vs[i].type.name, Whole(vs[i].type)),
                                     Put(EnvelopeName(vs[i]), Envelope(vs[i]))}
    BY <1>2, VariantWritesFacts
  <2>3. VariantWrites(vs)[k].schema \in {Whole(vs[i].type), Envelope(vs[i])}
    BY <2>2 DEF Put
  <2> QED BY <2>1, <2>3
<1>7. \A m \in DOMAIN mw : \E i \in DOMAIN vs : mw[m].payload = EnvelopeName(vs[i])
  <2> DEFINE ws == MessageWrites(vs)
             k  == Len(vs)
  <2>1. DOMAIN ws = DOMAIN vs
    BY DEF MessageWrites
  <2>2. \A i \in DOMAIN ws : ws[i].schema.payload = EnvelopeName(vs[i])
    BY DEF MessageWrites, Put
  <2>3. k \in Nat /\ DOMAIN ws \subseteq 1..k
    BY <1>2, <2>1
  <2>4. mw = Writes(ws)
    OBVIOUS
  <2> HIDE DEF ws, k, mw, vs
  <2>5. \A m \in DOMAIN Writes(ws) :
           \E i \in DOMAIN ws : ws[i].name = m /\ Writes(ws)[m] = ws[i].schema
    BY <2>3, WritesFacts
  <2>6. \A m \in DOMAIN mw : \E i \in DOMAIN ws : mw[m] = ws[i].schema
    BY <2>4, <2>5
  <2> QED BY <2>1, <2>2, <2>6
<1>8. DOMAIN ErrorEntries(errs) \subseteq 1..(n + 1) /\ n + 1 \in Nat
  BY ErrorEntriesFacts
<1>9. \A m \in DOMAIN es : es[m].kind = "type"
  <2> DEFINE ws == ErrorWrites(ErrorEntries(errs))
             k  == n + 1
  <2>1. k \in Nat /\ DOMAIN ws \subseteq 1..k /\ \A i \in DOMAIN ws : ws[i].schema.kind = "type"
    BY <1>8 DEF ErrorWrites, Put, Whole, Schema
  <2> HIDE DEF ws, k
  <2>3. \A m \in DOMAIN Writes(ws) :
           \E i \in DOMAIN ws : ws[i].name = m /\ Writes(ws)[m] = ws[i].schema
    BY <2>1, WritesFacts
  <2>2. \A m \in DOMAIN Writes(ws) : Writes(ws)[m].kind = "type"
    BY <2>1, <2>3
  <2> QED BY <2>2 DEF ws
<1>10. Range(XErrors(errs)) \subseteq DOMAIN es
  <2> SUFFICES ASSUME NEW k \in DOMAIN XErrors(errs) PROVE XErrors(errs)[k] \in DOMAIN es
    BY DEF Range
  <2> DEFINE ee == ErrorEntries(errs)
             S  == {i \in DOMAIN ee : WSCode(ee[i].status) = k}
  <2>1. S \in SUBSET (1..(n + 1)) /\ S # {}
    BY <1>8 DEF XErrors
  <2>2. Max(S) \in S
    BY <1>8, <2>1, MaxIn
  <2>3. XErrors(errs)[k] = ee[Max(S)].type.name
    BY DEF XErrors
  <2>4. Max(S) \in DOMAIN ee
    BY <2>2
  <2> HIDE DEF S, ee
  <2>5. ee[Max(S)].type.name \in DOMAIN Writes(ErrorWrites(ee))
    BY <2>4 DEF Writes, ErrorWrites, Put
  <2> QED BY <2>3, <2>5 DEF ee
<1>11. Range(channels') \subseteq {c} \cup Range(channels)
  BY <1>1, OverEntry
<1>12. c.subscribe \cup c.publish \subseteq DOMAIN mw /\ c.xErrors = XErrors(errs)
  <2>1. \A v \in Range(ep.sends) \cup Range(ep.receives) : EnvelopeName(v) \in DOMAIN mw
    <3> HIDE DEF vs, mw
    <3> QED BY <1>3, <1>4
  <2> HIDE DEF vs, mw
  <2> QED BY <2>1
<1> HIDE DEF vs, es, pw, vw, mw, c
<1>13. /\ DOMAIN schemas' = DOMAIN es \cup DOMAIN pw \cup DOMAIN schemas
       /\ DOMAIN asyncSchemas' = DOMAIN es \cup DOMAIN vw \cup DOMAIN asyncSchemas
       /\ DOMAIN asyncMessages' = DOMAIN mw \cup DOMAIN asyncMessages
  <2> DEFINE inner  == Over(pw, schemas)
             innerA == Over(vw, asyncSchemas)
  <2>1. /\ DOMAIN inner = DOMAIN pw \cup DOMAIN schemas
        /\ DOMAIN innerA = DOMAIN vw \cup DOMAIN asyncSchemas
    BY DEF Over
  <2>2. schemas' = Over(es, inner) /\ asyncSchemas' = Over(es, innerA)
    BY <1>1
  <2> HIDE DEF inner, innerA
  <2>4. /\ DOMAIN schemas' = DOMAIN es \cup DOMAIN inner
        /\ DOMAIN asyncSchemas' = DOMAIN es \cup DOMAIN innerA
    BY <2>2, OverFacts
  <2>3. DOMAIN asyncMessages' = DOMAIN mw \cup DOMAIN asyncMessages
    BY <1>1, OverFacts
  <2> QED BY <2>1, <2>3, <2>4
<1>14. OperationRefsResolve' /\ BuiltInNames \subseteq DOMAIN schemas'
  BY <1>1, <1>13 DEF DocInv, RefsResolve, OperationRefsResolve
<1>15. ChannelRefsResolve'
  BY <1>10, <1>11, <1>12, <1>13 DEF DocInv, RefsResolve, ChannelRefsResolve
<1>16. \A msg \in Range(asyncMessages') : msg.payload \in DOMAIN asyncSchemas'
  <2>1. \A msg \in Range(mw) : msg.payload \in DOMAIN asyncSchemas'
    BY <1>5, <1>7, <1>13 DEF Range
  <2>2. \A msg \in Range(asyncMessages) : msg.payload \in DOMAIN asyncSchemas'
    BY <1>13 DEF DocInv, RefsResolve, EnvelopeRefsResolve
  <2> QED BY <1>1, <2>1, <2>2, OverFacts
<1>17. ASSUME NEW s \in Range(asyncSchemas'), s.kind = "envelope"
       PROVE  s.of.data \in DOMAIN asyncSchemas' \cap DOMAIN schemas'
  <2> DEFINE inner == Over(vw, asyncSchemas)
  <2>1. Range(inner) \subseteq Range(vw) \cup Range(asyncSchemas)
    BY OverFacts
  <2>2. asyncSchemas' = Over(es, inner)
    BY <1>1
  <2> HIDE DEF inner
  <2>3. Range(asyncSchemas') \subseteq Range(es) \cup Range(inner)
    BY <2>2, OverFacts
  <2>4. Range(asyncSchemas') \subseteq Range(es) \cup Range(vw) \cup Range(asyncSchemas)
    BY <2>1, <2>3
  <2>5. s \notin Range(es)
    BY <1>9, <1>17 DEF Range
  <2>6. CASE s \in Range(vw)
    <3>1. PICK i \in DOMAIN vs : s \in {Whole(vs[i].type), Envelope(vs[i])}
      BY <1>6, <2>6 DEF Range
    <3>2. Whole(vs[i].type).kind = "type" /\ Envelope(vs[i]).of.data = vs[i].type.name
      BY DEF Whole, Schema, Envelope
    <3>3. s.of.data = vs[i].type.name
      BY <1>17, <3>1, <3>2
    <3> QED BY <1>4, <1>5, <1>13, <3>3
  <2>7. CASE s \in Range(asyncSchemas)
    BY <1>13, <1>17, <2>7 DEF DocInv, RefsResolve, EnvelopeRefsResolve
  <2> QED BY <2>4, <2>5, <2>6, <2>7
<1>18. EnvelopeRefsResolve'
  BY <1>16, <1>17 DEF EnvelopeRefsResolve
<1> QED BY <1>14, <1>15, <1>18 DEF DocInv, RefsResolve

(* Registrations that document nothing leave the documents alone.           *)
LEMMA DocInvKept ==
    ASSUME RInv, RInv', DocInv, [NextDoc]_allVars
    PROVE  DocInv'
<1>1. CASE UNCHANGED docVars
  BY <1>1 DEF docVars, DocInv, RefsResolve, OperationRefsResolve, ChannelRefsResolve,
              EnvelopeRefsResolve
<1>2. ASSUME NEW r \in DOMAIN routers, NEW m \in 0..MaxPerRoute, NEW n \in 0..MaxPerRoute,
             NEW ep \in Endpoints, register(r, m, n, ep)
      PROVE  DocInv'
  <2> DEFINE rt   == routes'[Len(routes')]
             k    == rt.allErrors.len
             errs == Entries(Contents(heap', rt.allErrors))
  <2>1. rt \in Route
    <3>1. routes' \in Seq(Route)
      BY DEF RInv, Typed
    <3>2. routes' # <<>>
      <4>1. routes \in Seq(Route)
        BY DEF RInv, Typed
      <4>2. PICK x : routes' = Append(routes, x)
        BY <1>2 DEF register, prepareRoute
      <4> QED BY <4>1, <4>2
    <3> QED BY <3>1, <3>2
  <2>2. k \in Nat
    BY <2>1 DEF Route, Slice
  <2>3. DOMAIN errs = 1..k /\ errs \in [1..k -> Range(errs)]
    BY DEF Entries, Contents, Range
  <2>4. \/ \E h : updateSchema(Key(r, ep), ep, errs, h)
        \/ addWSChannel(Path(r, ep), ep, errs)
    BY <1>2 DEF register
  <2> HIDE DEF errs, k
  <2> QED BY <2>2, <2>3, <2>4, OperationKeeps, ChannelKeeps
<1> QED BY <1>1, <1>2 DEF NextDoc, allVars

(* Every reference of the documents names a component.                      *)
THEOREM DocRefsResolve == SpecDoc => []RefsResolve
<1>1. InitDoc => RInv /\ DocInv
  BY InitRInv, InitDocInv DEF InitDoc
<1>2. RInv /\ DocInv /\ [NextDoc]_allVars => (RInv /\ DocInv)'
  <2>1. RInv /\ [NextDoc]_allVars => RInv'
    BY DocStep, NextKeeps
  <2> QED BY <2>1, DocInvKept
<1>3. DocInv => RefsResolve
  BY DEF DocInv
<1> QED BY <1>1, <1>2, <1>3, PTL DEF SpecDoc

-----------------------------------------------------------------------------
(* What each route documents. *)

Served == [ep : Endpoints, key : {Key(r, ep) : r \in Nat, ep \in Endpoints}]

(* The history runs along with the routes, and no pattern is served twice.  *)
ServedInv ==
    /\ served \in Seq(Served) /\ Len(served) = Len(routes)
    /\ \A i, j \in DOMAIN served : served[i].key = served[j].key => i = j

OperationOf(i) ==
    [body      |-> RequestBody(served[i].ep),
     responses |-> Responses(served[i].ep, Documented(Entries(routes[i].errs)), routes[i].hdrs)]

ChannelOf(i) ==
    [subscribe |-> {EnvelopeName(v) : v \in Range(served[i].ep.sends)},
     publish   |-> {EnvelopeName(v) : v \in Range(served[i].ep.receives)},
     xErrors   |-> XErrors(Entries(routes[i].errs))]

(* A route's own operation, or channel, stands as it was written with the   *)
(* errors and headers that were declared for it, whatever came after.       *)
PlacesInv ==
    \A i \in DOMAIN served :
        /\ served[i].ep.kind # "ws" =>
              served[i].key \in DOMAIN operations /\ operations[served[i].key] = OperationOf(i)
        /\ served[i].ep.kind = "ws" /\ OwnEntry(i) =>
              /\ served[i].key[1] \in DOMAIN channels
              /\ channels[served[i].key[1]] = ChannelOf(i)

(* A registration appends the route to the history, and documents it with   *)
(* the errors and headers that were declared for it.                        *)
LEMMA RegisterFacts ==
    ASSUME RInv, ServedInv, NEW r \in DOMAIN routers, NEW m \in 0..MaxPerRoute,
           NEW n \in 0..MaxPerRoute, NEW ep \in Endpoints, register(r, m, n, ep)
    PROVE  LET k == Len(served) + 1
           IN  /\ DOMAIN served = 1..(k - 1) /\ DOMAIN served' = 1..k /\ k \in Nat
               /\ DOMAIN served' = DOMAIN served \cup {k}
               /\ served'[k] = [ep |-> ep, key |-> Key(r, ep)]
               /\ \A j \in DOMAIN served : served'[j] = served[j] /\ routes'[j] = routes[j]
               /\ \A j \in DOMAIN served : served[j].key # Key(r, ep)
               /\ \/ /\ ep.kind # "ws"
                     /\ updateSchema(Key(r, ep), ep, Entries(routes'[k].errs), routes'[k].hdrs)
                  \/ ep.kind = "ws" /\ addWSChannel(Path(r, ep), ep, Entries(routes'[k].errs))
               /\ routes'[k].errLookup = Range(routes'[k].errs)
               /\ \E q \in Nat : DOMAIN Entries(routes'[k].errs) = 1..q
               /\ ServedInv'
<1> DEFINE k == Len(served) + 1
           x == [ep |-> ep, key |-> Key(r, ep)]
<1>1. /\ served \in Seq(Served) /\ Len(served) = Len(routes)
      /\ \A i, j \in DOMAIN served : served[i].key = served[j].key => i = j
  BY DEF ServedInv
<1>2. prepareRoute(r, m, n) /\ served' = Append(served, x)
      /\ \A j \in DOMAIN served : served[j].key # Key(r, ep)
  BY DEF register
<1>3. /\ Len(routes) \in Nat /\ Len(routes') = k
      /\ \A j \in 1..Len(routes) : routes'[j] = routes[j]
      /\ Contents(heap', routes'[k].allErrors) = routes'[k].errs
      /\ Contents(heap', routes'[k].staticHeaders) = routes'[k].hdrs
      /\ routes'[k].errLookup = Range(routes'[k].errs) /\ routes'[k].allErrors.len \in Nat
  BY <1>1, <1>2, RouteCaptures
<1>4. x \in Served /\ x.key = Key(r, ep)
  <2>1. r \in Nat
    <3>1. routers \in Seq(Router)
      BY DEF RInv, Typed
    <3> QED BY <3>1
  <2> QED BY <2>1 DEF Served
<1> HIDE DEF x
<1>5. /\ DOMAIN served = 1..Len(served) /\ Len(served) \in Nat
      /\ served' \in Seq(Served) /\ Len(served') = Len(served) + 1
      /\ DOMAIN served' = 1..(Len(served) + 1) /\ served'[Len(served) + 1] = x
      /\ \A j \in 1..Len(served) : served'[j] = served[j]
  BY <1>1, <1>2, <1>4
<1>6. DOMAIN served' = DOMAIN served \cup {k}
  BY <1>5
<1>7. ServedInv'
  <2>1. \A j \in DOMAIN served' : served'[j].key = IF j = k THEN Key(r, ep) ELSE served[j].key
    BY <1>4, <1>5
  <2>2. \A i, j \in DOMAIN served' : served'[i].key = served'[j].key => i = j
    BY <1>1, <1>2, <1>6, <2>1
  <2> QED BY <1>3, <1>5, <2>2 DEF ServedInv
<1>8. \/ /\ ep.kind # "ws"
         /\ updateSchema(Key(r, ep), ep, Entries(routes'[k].errs), routes'[k].hdrs)
      \/ ep.kind = "ws" /\ addWSChannel(Path(r, ep), ep, Entries(routes'[k].errs))
  BY <1>3 DEF register
<1>9. k \in Nat /\ k - 1 = Len(served)
  BY <1>5
<1>10. \E q \in Nat : DOMAIN Entries(routes'[k].errs) = 1..q
  <2>1. DOMAIN Entries(routes'[k].errs) = DOMAIN Contents(heap', routes'[k].allErrors)
    BY <1>3 DEF Entries
  <2> QED BY <1>3, <2>1 DEF Contents
<1> QED BY <1>1, <1>2, <1>3, <1>5, <1>6, <1>7, <1>8, <1>9, <1>10 DEF x

(* A step that registers no route changes neither routes nor documents.     *)
LEMMA RouteOrNothing ==
    ASSUME [NextDoc]_allVars
    PROVE  \/ UNCHANGED docVars /\ UNCHANGED routes
           \/ \E r \in DOMAIN routers, m, n \in 0..MaxPerRoute, ep \in Endpoints :
                 register(r, m, n, ep)
<1>1. CASE UNCHANGED allVars
  BY <1>1 DEF allVars, vars
<1>2. CASE (addError \/ addStaticResponseHeader) /\ UNCHANGED docVars
  BY <1>2 DEF addError, addStaticResponseHeader
<1>3. ASSUME NEW r \in DOMAIN routers, NEW m \in 0..MaxPerRoute, NEW n \in 0..MaxPerRoute,
             Group(r, m, n) /\ UNCHANGED docVars
      PROVE  UNCHANGED docVars /\ UNCHANGED routes
  BY <1>3 DEF Group
<1> QED BY <1>1, <1>2, <1>3 DEF NextDoc

(* The errors of a route, as the properties and as the documents see them.  *)
LEMMA ErrorsOfRoute ==
    ASSUME RInv, NEW i \in DOMAIN routes
    PROVE  /\ ErrorsOf(i) = Range(Entries(routes[i].errs))
           /\ \E q \in Nat : DOMAIN Entries(routes[i].errs) = 1..q
<1>1. routes[i].errLookup = Range(routes[i].errs)
  BY DEF RInv, Captured, CapturedBy
<1>2. \E q \in Nat : DOMAIN routes[i].errs = 1..q
  <2>1. routes[i] \in Route
    BY DEF RInv, Typed
  <2>2. routes[i].errs \in Seq(Vals)
    BY <2>1 DEF Route
  <2> DEFINE es == routes[i].errs
  <2> HIDE DEF es
  <2>3. es \in Seq(Vals) => DOMAIN es = 1..Len(es) /\ Len(es) \in Nat
    OBVIOUS
  <2> QED BY <2>2, <2>3 DEF es
<1>3. ErrorsOf(i) = Range(Entries(routes[i].errs))
  <2>1. ErrorsOf(i) = {Declared[d] : d \in Range(routes[i].errs)}
    BY <1>1 DEF ErrorsOf, KnownErrors
  <2>2. \A es : {Declared[d] : d \in Range(es)} = Range(Entries(es))
    BY DEF Entries, Range
  <2> QED BY <2>1, <2>2
<1>4. DOMAIN Entries(routes[i].errs) = DOMAIN routes[i].errs
  BY DEF Entries
<1> QED BY <1>2, <1>3, <1>4

(* What a route documented is not touched by the next one: an operation has *)
(* its own method and path, and a channel is its own while OwnEntry holds.  *)
LEMMA PlacesKept ==
    ASSUME RInv, ServedInv, PlacesInv, NEW r \in DOMAIN routers, NEW m \in 0..MaxPerRoute,
           NEW n \in 0..MaxPerRoute, NEW ep \in Endpoints, register(r, m, n, ep)
    PROVE  PlacesInv'
<1> PICK k \in Nat : k = Len(served) + 1
  BY DEF ServedInv
<1> DEFINE errs == Entries(routes'[k].errs)
           op   == [body      |-> RequestBody(ep),
                    responses |-> Responses(ep, Documented(errs), routes'[k].hdrs)]
           ch   == [subscribe |-> {EnvelopeName(v) : v \in Range(ep.sends)},
                    publish   |-> {EnvelopeName(v) : v \in Range(ep.receives)},
                    xErrors   |-> XErrors(errs)]
<1>1. /\ DOMAIN served = 1..(k - 1) /\ k \in Nat /\ DOMAIN served' = DOMAIN served \cup {k}
      /\ served'[k] = [ep |-> ep, key |-> Key(r, ep)]
      /\ \A j \in DOMAIN served : served'[j] = served[j] /\ routes'[j] = routes[j]
      /\ \A j \in DOMAIN served : served[j].key # Key(r, ep)
      /\ \/ ep.kind # "ws" /\ updateSchema(Key(r, ep), ep, errs, routes'[k].hdrs)
         \/ ep.kind = "ws" /\ addWSChannel(Path(r, ep), ep, errs)
  BY RegisterFacts
<1>2. served'[k].ep = ep /\ served'[k].key = Key(r, ep) /\ Key(r, ep)[1] = Path(r, ep)
  BY <1>1 DEF Key
<1>3. OperationOf(k)' = op /\ ChannelOf(k)' = ch
  BY <1>2 DEF OperationOf, ChannelOf
<1>5. \/ ep.kind # "ws" /\ operations' = Over(Entry(Key(r, ep), op), operations)
                       /\ channels' = channels
      \/ ep.kind = "ws" /\ channels' = Over(Entry(Path(r, ep), ch), channels)
                       /\ operations' = operations
  BY <1>1 DEF updateSchema, addWSChannel
<1> HIDE DEF errs, op, ch
<1>6. ASSUME NEW j \in DOMAIN served
      PROVE  /\ served'[j].ep.kind # "ws" =>
                   /\ served'[j].key \in DOMAIN operations'
                   /\ operations'[served'[j].key] = OperationOf(j)'
             /\ served'[j].ep.kind = "ws" /\ OwnEntry(j)' =>
                   /\ served'[j].key[1] \in DOMAIN channels'
                   /\ channels'[served'[j].key[1]] = ChannelOf(j)'
  <2>1. /\ served'[j] = served[j] /\ routes'[j] = routes[j]
        /\ OperationOf(j)' = OperationOf(j) /\ ChannelOf(j)' = ChannelOf(j)
    BY <1>1, <1>6 DEF OperationOf, ChannelOf
  <2>2. CASE served[j].ep.kind # "ws"
    <3>1. served[j].key \in DOMAIN operations /\ operations[served[j].key] = OperationOf(j)
          /\ served[j].key # Key(r, ep)
      BY <1>1, <1>6, <2>2 DEF PlacesInv
    <3>2. served[j].key \in DOMAIN operations' /\ operations'[served[j].key] = OperationOf(j)
      BY <1>5, <3>1, OverOneEntry
    <3> QED BY <2>1, <2>2, <3>2
  <2>3. ASSUME served[j].ep.kind = "ws", OwnEntry(j)'
        PROVE  /\ served[j].key[1] \in DOMAIN channels'
               /\ channels'[served[j].key[1]] = ChannelOf(j)
    <3>1. \A i \in DOMAIN served' :
             served'[i].ep.kind = "ws" /\ served'[i].key[1] = served[j].key[1] => i <= j
      BY <2>1, <2>3 DEF OwnEntry
    <3>2. OwnEntry(j)
      BY <1>1, <2>3, <3>1 DEF OwnEntry
    <3>3. served[j].key[1] \in DOMAIN channels /\ channels[served[j].key[1]] = ChannelOf(j)
      BY <1>6, <2>3, <3>2 DEF PlacesInv
    <3>4. ep.kind = "ws" => served[j].key[1] # Path(r, ep)
      <4>1. ~ (k <= j)
        BY <1>1, <1>6
      <4> QED BY <1>1, <1>2, <3>1, <4>1
    <3> QED BY <1>5, <3>3, <3>4, OverOneEntry
  <2> QED BY <2>1, <2>2, <2>3
<1>7. ep.kind # "ws" => Key(r, ep) \in DOMAIN operations' /\ operations'[Key(r, ep)] = op
  BY <1>5, OverOneEntry
<1>8. ep.kind = "ws" => Path(r, ep) \in DOMAIN channels' /\ channels'[Path(r, ep)] = ch
  BY <1>5, OverOneEntry
<1> QED BY <1>1, <1>2, <1>3, <1>6, <1>7, <1>8 DEF PlacesInv

(* Nothing else touches it.                                                 *)
LEMMA PlacesQuiet ==
    ASSUME UNCHANGED docVars, UNCHANGED routes
    PROVE  (ServedInv => ServedInv') /\ (PlacesInv => PlacesInv')
<1>1. served' = served /\ operations' = operations /\ channels' = channels /\ routes' = routes
  BY DEF docVars
<1> QED BY <1>1 DEF ServedInv, PlacesInv, OperationOf, ChannelOf, OwnEntry, ErrorsOf, KnownErrors

-----------------------------------------------------------------------------
(* Errors. *)

(* The responses of an operation name an error that the route declares with *)
(* the status, the last one, or the built-in one.                           *)
LEMMA HttpErrors ==
    ASSUME NEW q \in Nat, NEW errs, DOMAIN errs = 1..q, NEW ep, NEW headers
    PROVE  LET resp  == Responses(ep, Documented(errs), headers)
               typed == {e \in Range(errs) : e.type.shape = "object"}
           IN  /\ \A e \in typed : \E f \in typed :
                    /\ f.status = e.status /\ e.status \in DOMAIN resp
                    /\ resp[e.status] = {Ref(f.type.name)}
               /\ \A s \in DOMAIN BuiltIn :
                    (\A e \in typed : e.status # s) =>
                         s \in DOMAIN resp /\ resp[s] = BuiltIn[s]
               /\ DOMAIN resp \subseteq
                    (DOMAIN BuiltIn \cup {e.status : e \in typed}) \cup {ep.status}
<1> DEFINE errors == Documented(errs)
           er     == ErrorResponses(errors)
           rest   == Over(BuiltIn, Success(ep, headers))
           resp   == Over(er, rest)
           typed  == {e \in Range(errs) : e.type.shape = "object"}
<1>1. /\ DOMAIN errors \subseteq 1..q
      /\ \A i \in DOMAIN errors : errors[i] \in typed
      /\ \A e \in typed : \E i \in DOMAIN errors : errors[i] = e
  BY DEF Documented, Range
<1>2. DOMAIN er = {errors[i].status : i \in DOMAIN errors}
  BY DEF ErrorResponses
<1>3. ASSUME NEW s \in DOMAIN er
      PROVE  \E f \in typed : f.status = s /\ er[s] = {Ref(f.type.name)}
  <2> DEFINE S == {i \in DOMAIN errors : errors[i].status = s}
  <2>1. S \in SUBSET (1..q) /\ S # {}
    BY <1>1, <1>2, <1>3
  <2>2. Max(S) \in DOMAIN errors /\ errors[Max(S)].status = s
    BY <2>1, MaxIn
  <2>3. er[s] = {Ref(errors[Max(S)].type.name)}
    BY <1>3 DEF ErrorResponses
  <2> HIDE DEF S
  <2> QED BY <1>1, <2>2, <2>3
<1>5. /\ \A s \in DOMAIN BuiltIn : s \in DOMAIN rest /\ rest[s] = BuiltIn[s]
      /\ DOMAIN rest \subseteq DOMAIN BuiltIn \cup {ep.status}
  <2>1. DOMAIN Success(ep, headers) \subseteq {ep.status}
    BY DEF Success, Entry
  <2> QED BY <2>1 DEF Over
<1>8. DOMAIN er \subseteq {e.status : e \in typed}
  BY <1>1, <1>2
<1> HIDE DEF errors, er, rest, typed
<1>4. /\ DOMAIN resp = DOMAIN er \cup DOMAIN rest
      /\ \A s \in DOMAIN er : resp[s] = er[s]
      /\ \A s \in DOMAIN rest : s \notin DOMAIN er => resp[s] = rest[s]
  BY OverFacts
<1> HIDE DEF resp
<1>6. \A e \in typed : \E f \in typed :
         f.status = e.status /\ e.status \in DOMAIN resp /\ resp[e.status] = {Ref(f.type.name)}
  <2> SUFFICES ASSUME NEW e \in typed
               PROVE  \E f \in typed : /\ f.status = e.status /\ e.status \in DOMAIN resp
                                       /\ resp[e.status] = {Ref(f.type.name)}
    OBVIOUS
  <2>1. e.status \in DOMAIN er
    BY <1>1, <1>2
  <2>2. PICK f \in typed : f.status = e.status /\ er[e.status] = {Ref(f.type.name)}
    BY <1>3, <2>1
  <2> QED BY <1>4, <2>1, <2>2
<1>7. \A s \in DOMAIN BuiltIn : (\A e \in typed : e.status # s) =>
         s \in DOMAIN resp /\ resp[s] = BuiltIn[s]
  BY <1>1, <1>2, <1>4, <1>5
<1>9. DOMAIN resp \subseteq (DOMAIN BuiltIn \cup {e.status : e \in typed}) \cup {ep.status}
  BY <1>4, <1>5, <1>8
<1> QED BY <1>6, <1>7, <1>9 DEF resp, rest, er, errors, typed, Responses

(* The x-errors of a channel name, for the close code of each error of the  *)
(* route, one of the route's errors with that code: the built-in entry comes*)
(* first, and whatever the route declares is later than it.                 *)
LEMMA SocketErrors ==
    ASSUME NEW q \in Nat, NEW errs, DOMAIN errs = 1..q, errs \in [1..q -> Range(errs)],
           NEW e \in Range(errs)
    PROVE  /\ WSCode(e.status) \in DOMAIN XErrors(errs)
           /\ \E f \in Range(errs) :
                 WSCode(f.status) = WSCode(e.status) /\ XErrors(errs)[WSCode(e.status)] = f.type.name
<1> DEFINE ee == ErrorEntries(errs)
           c  == WSCode(e.status)
           S  == {i \in DOMAIN ee : WSCode(ee[i].status) = c}
<1>1. PICK d \in 1..q : errs[d] = e
  BY DEF Range
<1>2. DOMAIN ee = 1..(q + 1) /\ \A i \in 1..q : ee[i + 1] = errs[i]
  BY <1>1, ErrorEntriesFacts
<1> HIDE DEF ee
<1>3. d + 1 \in S /\ S \in SUBSET (1..(q + 1))
  <2>1. d + 1 \in DOMAIN ee /\ ee[d + 1] = e
    BY <1>1, <1>2
  <2> QED BY <1>2, <2>1
<1>4. Max(S) \in S /\ d + 1 <= Max(S)
  <2>1. S # {} /\ q + 1 \in Nat
    BY <1>3
  <2> HIDE DEF S
  <2> QED BY <1>3, <2>1, MaxIn
<1>5. c \in DOMAIN XErrors(errs) /\ XErrors(errs)[c] = ee[Max(S)].type.name
  BY <1>3 DEF XErrors, ee
<1> DEFINE x == Max(S)
<1>6. x \in 1..(q + 1) /\ WSCode(ee[x].status) = c /\ d + 1 <= x /\ d \in 1..q
  BY <1>2, <1>4
<1> HIDE DEF x, S, c
<1>7. x - 1 \in 1..q /\ x - 1 + 1 = x
  BY <1>6
<1>8. ee[x] = errs[x - 1] /\ errs[x - 1] \in Range(errs)
  BY <1>2, <1>7 DEF Range
<1> QED BY <1>5, <1>6, <1>8 DEF c, x

(* The codes of these entries: those of the errors of the route, and that   *)
(* of a validation error beside them, or none at all.                       *)
LEMMA SocketCodes ==
    ASSUME NEW q \in Nat, NEW errs, DOMAIN errs = 1..q, errs \in [1..q -> Range(errs)]
    PROVE  LET codes == {WSCode(e.status) : e \in Range(errs)}
           IN  DOMAIN XErrors(errs) = IF codes = {} THEN {} ELSE codes \cup {WSCode(422)}
<1> DEFINE ee    == ErrorEntries(errs)
           codes == {WSCode(e.status) : e \in Range(errs)}
           v     == [status |-> 422, type |-> ValidationError]
<1>1. DOMAIN XErrors(errs) = {WSCode(ee[i].status) : i \in DOMAIN ee}
  BY DEF XErrors
<1>2. CASE q = 0
  <2>1. DOMAIN ee = {}
    BY <1>2, ErrorEntriesFacts
  <2>2. codes = {}
    <3>1. DOMAIN errs = {}
      BY <1>2
    <3> QED BY <3>1 DEF Range
  <2>3. DOMAIN XErrors(errs) = {}
    BY <1>1, <2>1
  <2> HIDE DEF codes
  <2>4. DOMAIN XErrors(errs) = IF codes = {} THEN {} ELSE codes \cup {WSCode(422)}
    BY <2>2, <2>3
  <2> QED BY <2>4 DEF codes
<1>3. CASE q # 0
  <2>1. /\ DOMAIN ee = 1..(q + 1) /\ ee[1] = v /\ \A i \in 1..q : ee[i + 1] = errs[i]
        /\ \A i \in DOMAIN ee : ee[i] = v \/ ee[i] \in Range(errs)
    BY <1>3, ErrorEntriesFacts
  <2>2. errs[1] \in Range(errs)
    BY <1>3 DEF Range
  <2>3. v.status = 422
    OBVIOUS
  <2> HIDE DEF ee, v
  <2>4. 1 \in DOMAIN ee /\ \A i \in 1..q : i + 1 \in DOMAIN ee
    BY <2>1
  <2>5. \A e \in Range(errs) : \E i \in DOMAIN ee : ee[i] = e
    BY <2>1, <2>4 DEF Range
  <2>6. WSCode(422) \in DOMAIN XErrors(errs)
    BY <1>1, <2>1, <2>3, <2>4
  <2>7. codes \subseteq DOMAIN XErrors(errs)
    BY <1>1, <2>5
  <2>8. \A c \in DOMAIN XErrors(errs) : c \in codes \cup {WSCode(422)}
    BY <1>1, <2>1, <2>3
  <2>9. codes # {}
    BY <2>2
  <2> HIDE DEF codes
  <2>10. DOMAIN XErrors(errs) = codes \cup {WSCode(422)}
    <3> DEFINE D == DOMAIN XErrors(errs)
               S == codes \cup {WSCode(422)}
    <3>1. D \subseteq S
      BY <2>8
    <3>2. S \subseteq D
      BY <2>6, <2>7
    <3> HIDE DEF D, S
    <3>3. D = S
      BY <3>1, <3>2
    <3> QED BY <3>3 DEF D, S
  <2>11. DOMAIN XErrors(errs) = IF codes = {} THEN {} ELSE codes \cup {WSCode(422)}
    BY <2>9, <2>10
  <2> QED BY <2>11 DEF codes
<1> QED BY <1>2, <1>3

(* Both, for a route whose operation or channel is as it was written.       *)
LEMMA PlacesDocumentErrors ==
    ASSUME RInv, ServedInv, PlacesInv
    PROVE  ErrorsDocumented
<1> SUFFICES ASSUME NEW i \in DOMAIN served
             PROVE  DocumentsErrors(i)
  BY DEF ErrorsDocumented
<1> DEFINE es    == ErrorsOf(i)
           errs  == Entries(routes[i].errs)
           ep    == served[i].ep
           typed == {e \in es : e.type.shape = "object"}
<1>1. i \in DOMAIN routes
  BY DEF ServedInv, RInv, Typed
<1>2. es = Range(errs)
  BY <1>1, ErrorsOfRoute
<1>3. PICK q \in Nat : DOMAIN errs = 1..q
  BY <1>1, ErrorsOfRoute
<1>4. errs \in [1..q -> Range(errs)]
  BY <1>3 DEF Entries, Range
<1>5. CASE ep.kind = "ws"
  <2>1. ASSUME OwnEntry(i)
        PROVE  channels[served[i].key[1]].xErrors = XErrors(errs)
    <3>1. channels[served[i].key[1]] = ChannelOf(i)
      BY <1>5, <2>1 DEF PlacesInv
    <3> QED BY <3>1 DEF ChannelOf
  <2> HIDE DEF es, errs
  <2>2. \A e \in es :
           /\ WSCode(e.status) \in DOMAIN XErrors(errs)
           /\ \E f \in es : /\ WSCode(f.status) = WSCode(e.status)
                            /\ XErrors(errs)[WSCode(e.status)] = f.type.name
    BY <1>2, <1>3, <1>4, SocketErrors
  <2>3. DOMAIN XErrors(errs) = ErrorStatuses(i)
    <3> DEFINE codes(S) == {WSCode(e.status) : e \in S}
    <3>1. ErrorStatuses(i) =
            IF codes(Range(errs)) = {} THEN {} ELSE codes(Range(errs)) \cup {WSCode(422)}
      BY <1>2, <1>5 DEF ErrorStatuses, es
    <3>2. DOMAIN XErrors(errs) =
            IF codes(Range(errs)) = {} THEN {} ELSE codes(Range(errs)) \cup {WSCode(422)}
      BY <1>3, <1>4, SocketCodes
    <3> QED BY <3>1, <3>2
  <2> QED BY <1>5, <2>1, <2>2, <2>3 DEF es, DocumentsErrors
<1>6. CASE ep.kind # "ws"
  <2> DEFINE resp == Responses(ep, Documented(errs), routes[i].hdrs)
             doc  == [s \in DOMAIN resp |-> {p.name : p \in resp[s]}]
  <2>1. operations[served[i].key].responses = resp
    <3>1. operations[served[i].key] = OperationOf(i)
      BY <1>6 DEF PlacesInv
    <3> QED BY <3>1 DEF OperationOf
  <2>2. /\ \A e \in typed : \E f \in typed :
              f.status = e.status /\ e.status \in DOMAIN resp /\ resp[e.status] = {Ref(f.type.name)}
        /\ \A s \in DOMAIN BuiltIn : (\A e \in typed : e.status # s) =>
              s \in DOMAIN resp /\ resp[s] = BuiltIn[s]
        /\ DOMAIN resp \subseteq
             (DOMAIN BuiltIn \cup {e.status : e \in typed}) \cup {ep.status}
    <3> HIDE DEF errs, es
    <3> QED BY <1>2, <1>3, HttpErrors
  <2> HIDE DEF resp, typed
  <2>3. \A n : {p.name : p \in {Ref(n)}} = {n}
    BY DEF Ref
  <2>5. DOMAIN doc = DOMAIN resp /\ \A s \in DOMAIN resp : doc[s] = {p.name : p \in resp[s]}
    OBVIOUS
  <2> HIDE DEF doc
  <2>6. \A e \in typed : \E f \in typed :
           f.status = e.status /\ e.status \in DOMAIN doc /\ doc[e.status] = {f.type.name}
    <3> SUFFICES ASSUME NEW e \in typed
                 PROVE  \E f \in typed : /\ f.status = e.status /\ e.status \in DOMAIN doc
                                         /\ doc[e.status] = {f.type.name}
      OBVIOUS
    <3>1. PICK f \in typed : f.status = e.status /\ e.status \in DOMAIN resp
                            /\ resp[e.status] = {Ref(f.type.name)}
      BY <2>2
    <3>2. doc[e.status] = {p.name : p \in {Ref(f.type.name)}}
      BY <2>5, <3>1
    <3> QED BY <2>3, <2>5, <3>1, <3>2
  <2>7. \A s \in DOMAIN BuiltIn : (\A e \in typed : e.status # s) =>
           s \in DOMAIN doc /\ doc[s] = {p.name : p \in BuiltIn[s]}
    BY <2>2, <2>5
  <2>8. DOMAIN doc \subseteq ErrorStatuses(i) \cup {ep.status}
    BY <1>6, <2>2, <2>5 DEF ErrorStatuses, typed
  <2> QED BY <1>6, <2>1, <2>6, <2>7, <2>8 DEF typed, doc, DocumentsErrors
<1> QED BY <1>5, <1>6

(* The documents of an API with no routes.                                  *)
LEMMA InitPlaces == InitDoc => ServedInv /\ PlacesInv
<1> SUFFICES ASSUME InitDoc PROVE ServedInv /\ PlacesInv
  OBVIOUS
<1>1. served = <<>> /\ routes = <<>>
  BY DEF InitDoc, Init
<1> QED BY <1>1 DEF ServedInv, PlacesInv

(* Every step keeps what the routes documented.                             *)
LEMMA PlacesStep ==
    ASSUME RInv, ServedInv, PlacesInv, [NextDoc]_allVars
    PROVE  ServedInv' /\ PlacesInv'
BY RouteOrNothing, RegisterFacts, PlacesKept, PlacesQuiet

(* An operation has entries for the errors of its route that are structs,   *)
(* which name an error of the route, and the built-in ones under the other  *)
(* statuses; a socket's channel for the close codes of all, if it has any.  *)
THEOREM DocErrorsDocumented == SpecDoc => []ErrorsDocumented
<1>1. InitDoc => RInv /\ ServedInv /\ PlacesInv
  BY InitRInv, InitPlaces DEF InitDoc
<1>2. RInv /\ ServedInv /\ PlacesInv /\ [NextDoc]_allVars => (RInv /\ ServedInv /\ PlacesInv)'
  BY DocStep, NextKeeps, PlacesStep
<1>3. RInv /\ ServedInv /\ PlacesInv => ErrorsDocumented
  BY PlacesDocumentErrors
<1> QED BY <1>1, <1>2, <1>3, PTL DEF SpecDoc

-----------------------------------------------------------------------------
(* The schemas of a route. *)

(* A map all of whose schemas are of A, under their own names.              *)
Holds(w, A) == \A n \in DOMAIN w : w[n] \in A /\ w[n].of.name = n

(* Two such maps written over each other are one.                           *)
LEMMA HoldsOver ==
    ASSUME NEW f, NEW g, NEW A, Holds(f, A), Holds(g, A)
    PROVE  Holds(Over(f, g), A)
BY DEF Holds, Over

(* Writing two maps over a third is writing the two as one.                 *)
LEMMA OverAssociates ==
    ASSUME NEW f, NEW g, NEW h
    PROVE  Over(f, Over(g, h)) = Over(Over(f, g), h)
BY DEF Over

(* What is left of writes that put schemas of A under their own names.      *)
LEMMA HoldsWrites ==
    ASSUME NEW n \in Nat, NEW ws, DOMAIN ws \subseteq 1..n, NEW A,
           \A i \in DOMAIN ws : ws[i].schema \in A /\ ws[i].schema.of.name = ws[i].name
    PROVE  Holds(Writes(ws), A) /\ \A i \in DOMAIN ws : ws[i].name \in DOMAIN Writes(ws)
<1>1. \A m \in DOMAIN Writes(ws) :
         \E i \in DOMAIN ws : ws[i].name = m /\ Writes(ws)[m] = ws[i].schema
  BY WritesFacts
<1>2. \A i \in DOMAIN ws : ws[i].name \in DOMAIN Writes(ws)
  BY DEF Writes
<1> QED BY <1>1, <1>2 DEF Holds

(* The schema of a type carries its name.                                   *)
LEMMA SchemaNames ==
    \A T, F : Schema(T, F).of.name = T.name /\ Whole(T).of.name = T.name
BY DEF Schema, Whole

(* The body, the errors and the response of an HTTP route are written with  *)
(* the fields the route needs, each under its name, and nothing else is.    *)
LEMMA HttpWrites ==
    ASSUME NEW ep \in Endpoints, ep.kind # "ws", NEW q \in Nat, NEW errs, DOMAIN errs = 1..q
    PROVE  LET ers == Documented(errs)
               W   == Over(BodyComponents(ep), Over(Writes(ErrorWrites(ers)),
                                                    Writes(ResponseWrites(ep))))
               A   == ContentOf(ep) \cup {Whole(e.type) :
                                             e \in {e \in Range(errs) : e.type.shape = "object"}}
           IN  Holds(W, A) /\ \A a \in A : a.of.name \in DOMAIN W
<1> DEFINE ers == Documented(errs)
           bc  == BodyComponents(ep)
           ew  == Writes(ErrorWrites(ers))
           rw  == Writes(ResponseWrites(ep))
           B   == {Schema(T, T.fields \cap {"json"}) : T \in {T \in ep.body : "json" \in T.fields}}
           R   == {Schema(Target(T), IF T.shape = "list" THEN T.elem.fields ELSE ShownFields(ep, T)) :
                     T \in {T \in Range(Shown(ep)) : Named(T) /\ HasContent(ep, T)}}
           E   == {Whole(e.type) : e \in {e \in Range(errs) : e.type.shape = "object"}}
           A   == ContentOf(ep) \cup E
<1>1. A = (B \cup R) \cup E
  BY DEF ContentOf
<1>2. Holds(bc, B) /\ \A a \in B : a.of.name \in DOMAIN bc
  <2>1. \A T \in ep.body : /\ ep.body = {T} /\ BodyFields(T) = T.fields \cap {"json"}
                          /\ ("json" \in T.fields <=> BodyFields(T) # {})
    BY EndpointAssumption DEF BodyFields
  <2>2. DOMAIN bc = {T.name : T \in {T \in ep.body : "json" \in T.fields}}
    BY <2>1 DEF BodyComponents
  <2>3. ASSUME NEW T \in ep.body, "json" \in T.fields
        PROVE  bc[T.name] = Schema(T, T.fields \cap {"json"})
    <3>1. T.name \in DOMAIN bc
      BY <2>2, <2>3
    <3>2. (CHOOSE U \in ep.body : TRUE) = T
      BY <2>1
    <3>3. bc[T.name] = Schema(CHOOSE U \in ep.body : TRUE, BodyFields(CHOOSE U \in ep.body : TRUE))
      BY <3>1 DEF BodyComponents
    <3> QED BY <2>1, <3>2, <3>3
  <2> HIDE DEF bc
  <2>4. ASSUME NEW n \in DOMAIN bc
        PROVE  bc[n] \in B /\ bc[n].of.name = n
    <3>1. PICK T \in ep.body : "json" \in T.fields /\ n = T.name
      BY <2>2, <2>4
    <3>2. bc[n] = Schema(T, T.fields \cap {"json"})
      BY <2>3, <3>1
    <3>3. Schema(T, T.fields \cap {"json"}) \in B
      BY <3>1
    <3> HIDE DEF B
    <3> QED BY <3>1, <3>2, <3>3, SchemaNames
  <2>5. ASSUME NEW a \in B
        PROVE  a.of.name \in DOMAIN bc
    <3>1. PICK T \in ep.body : "json" \in T.fields /\ a = Schema(T, T.fields \cap {"json"})
      BY <2>5
    <3>2. T.name \in DOMAIN bc
      BY <2>2, <3>1
    <3> HIDE DEF B
    <3> QED BY <3>1, <3>2, SchemaNames
  <2> QED BY <2>4, <2>5 DEF Holds
<1>3. Holds(ew, E) /\ \A a \in E : a.of.name \in DOMAIN ew
  <2> DEFINE ws == ErrorWrites(ers)
  <2>1. DOMAIN ws = {i \in 1..q : errs[i].type.shape = "object"}
    BY DEF ErrorWrites, Documented
  <2>2. \A i \in DOMAIN ws : /\ ws[i].schema = Whole(errs[i].type)
                            /\ ws[i].name = errs[i].type.name
    BY <2>1 DEF ErrorWrites, Documented, Put
  <2>3. \A i \in DOMAIN ws : ws[i].schema \in E /\ ws[i].schema.of.name = ws[i].name
    BY <2>1, <2>2, SchemaNames DEF Range
  <2>4. \A a \in E : \E i \in DOMAIN ws : ws[i].name = a.of.name
    BY <2>1, <2>2, SchemaNames DEF Range
  <2> HIDE DEF ws, E
  <2>5. Holds(Writes(ws), E) /\ \A i \in DOMAIN ws : ws[i].name \in DOMAIN Writes(ws)
    BY <2>1, <2>3, HoldsWrites
  <2> QED BY <2>4, <2>5 DEF ws
<1>4. Holds(rw, R) /\ \A a \in R : a.of.name \in DOMAIN rw
  <2> DEFINE ts == Shown(ep)
             ws == ResponseWrites(ep)
  <2>1. PICK k \in Nat : DOMAIN ts = 1..k
    <3>1. ep.sends \in Seq(Messages) /\ ep.shows \in Seq(Range(ep.shows))
      BY EndpointAssumption
    <3>2. DOMAIN ep.sends = 1..Len(ep.sends) /\ Len(ep.sends) \in Nat
      BY <3>1
    <3>3. DOMAIN ep.shows = 1..Len(ep.shows) /\ Len(ep.shows) \in Nat
      BY <3>1
    <3>4. ts = <<>> \/ DOMAIN ts = DOMAIN ep.sends \/ DOMAIN ts = DOMAIN ep.shows
      BY DEF Shown
    <3>5. ts = <<>> => DOMAIN ts = 1..0
      OBVIOUS
    <3> QED BY <3>2, <3>3, <3>4, <3>5
  <2>2. DOMAIN ws = {j \in 1..k : HasContent(ep, ts[j]) /\ Named(ts[j])}
    BY <2>1 DEF ResponseWrites
  <2>3. \A i \in DOMAIN ws :
           /\ ws[i].schema = Schema(Target(ts[i]), IF ts[i].shape = "list" THEN ts[i].elem.fields
                                                   ELSE ShownFields(ep, ts[i]))
           /\ ws[i].name = Target(ts[i]).name
    BY DEF ResponseWrites, Put, Whole, Target
  <2>4. \A i \in DOMAIN ws : ws[i].schema \in R /\ ws[i].schema.of.name = ws[i].name
    BY <2>1, <2>2, <2>3, SchemaNames DEF Range
  <2>5. \A a \in R : \E i \in DOMAIN ws : ws[i].name = a.of.name
    BY <2>1, <2>2, <2>3, SchemaNames DEF Range
  <2> HIDE DEF ws, R, ts
  <2>6. Holds(Writes(ws), R) /\ \A i \in DOMAIN ws : ws[i].name \in DOMAIN Writes(ws)
    BY <2>2, <2>4, HoldsWrites
  <2> QED BY <2>5, <2>6 DEF ws
<1> HIDE DEF bc, ew, rw, B, R, E, A
<1>5. Holds(bc, A) /\ Holds(ew, A) /\ Holds(rw, A)
  BY <1>1, <1>2, <1>3, <1>4 DEF Holds
<1>6. Holds(Over(bc, Over(ew, rw)), A)
  BY <1>5, HoldsOver
<1>7. DOMAIN Over(bc, Over(ew, rw)) = UNION {DOMAIN bc, DOMAIN ew, DOMAIN rw}
  BY DEF Over
<1>8. \A a \in A : a.of.name \in DOMAIN Over(bc, Over(ew, rw))
  BY <1>1, <1>2, <1>3, <1>4, <1>7
<1> QED BY <1>6, <1>8 DEF bc, ew, rw, A, E

(* So are the messages and the errors of a WebSocket.                       *)
LEMMA SocketWrites ==
    ASSUME NEW ep \in Endpoints, ep.kind = "ws", NEW q \in Nat, NEW errs,
           DOMAIN errs = 1..q, errs \in [1..q -> Range(errs)]
    PROVE  LET es == Writes(ErrorWrites(ErrorEntries(errs)))
               W  == Over(es, Writes(PayloadWrites(ep.sends \o ep.receives)))
               A  == ContentOf(ep) \cup {Whole(e.type) : e \in Range(errs)}
               B  == A \cup {Whole(ValidationError)}
           IN  Holds(W, B) /\ Holds(es, B) /\ \A a \in A : a.of.name \in DOMAIN W
<1> DEFINE ee == ErrorEntries(errs)
           vs == ep.sends \o ep.receives
           ew == ErrorWrites(ee)
           pw == PayloadWrites(vs)
           P  == {Whole(v.type) : v \in Variants(ep)}
           E  == {Whole(e.type) : e \in Range(errs)}
           B  == (P \cup E) \cup {Whole(ValidationError)}
<1>1. ContentOf(ep) = P
  BY DEF ContentOf
<1>2. /\ DOMAIN ee \subseteq 1..(q + 1) /\ q + 1 \in Nat
      /\ q # 0 => DOMAIN ee = 1..(q + 1)
      /\ \A i \in 1..q : ee[i + 1] = errs[i]
      /\ \A i \in DOMAIN ee :
            ee[i] = [status |-> 422, type |-> ValidationError] \/ ee[i] \in Range(errs)
  BY ErrorEntriesFacts
<1>3. /\ Len(vs) \in Nat /\ DOMAIN vs = 1..Len(vs)
      /\ \A v \in Variants(ep) : \E i \in DOMAIN vs : vs[i] = v
      /\ \A i \in DOMAIN vs : vs[i] \in Variants(ep)
  BY VariantFacts DEF Variants
<1>4. DOMAIN ew = DOMAIN ee /\ \A i \in DOMAIN ee :
         ew[i].schema = Whole(ee[i].type) /\ ew[i].name = ee[i].type.name
  BY DEF ErrorWrites, Put
<1>5. DOMAIN pw = DOMAIN vs /\ \A i \in DOMAIN vs :
         pw[i].schema = Whole(vs[i].type) /\ pw[i].name = vs[i].type.name
  BY DEF PayloadWrites, Put
<1>6. \A i \in DOMAIN ee : Whole(ee[i].type) \in B
  <2> HIDE DEF ee
  <2> QED BY <1>2
<1>7. \A i \in DOMAIN vs : Whole(vs[i].type) \in B
  <2> HIDE DEF vs
  <2> QED BY <1>3
<1> HIDE DEF ee, vs, ew, pw, B
<1>8. Holds(Writes(ew), B) /\ \A i \in DOMAIN ew : ew[i].name \in DOMAIN Writes(ew)
  <2>1. \A i \in DOMAIN ew : ew[i].schema \in B /\ ew[i].schema.of.name = ew[i].name
    BY <1>4, <1>6, SchemaNames
  <2> QED BY <1>2, <1>4, <2>1, HoldsWrites
<1>9. Holds(Writes(pw), B) /\ \A i \in DOMAIN pw : pw[i].name \in DOMAIN Writes(pw)
  <2>1. \A i \in DOMAIN pw : pw[i].schema \in B /\ pw[i].schema.of.name = pw[i].name
    BY <1>5, <1>7, SchemaNames
  <2> QED BY <1>3, <1>5, <2>1, HoldsWrites
<1>10. \A e \in Range(errs) : e.type.name \in DOMAIN Writes(ew)
  <2> SUFFICES ASSUME NEW e \in Range(errs) PROVE e.type.name \in DOMAIN Writes(ew)
    OBVIOUS
  <2>1. PICK i \in 1..q : errs[i] = e
    BY DEF Range
  <2>2. i + 1 \in DOMAIN ee /\ ee[i + 1] = e
    BY <1>2, <2>1
  <2> QED BY <1>4, <1>8, <2>2
<1>11. \A v \in Variants(ep) : v.type.name \in DOMAIN Writes(pw)
  BY <1>3, <1>5, <1>9
<1> DEFINE W == Over(Writes(ew), Writes(pw))
<1>12. Holds(W, B) /\ DOMAIN W = DOMAIN Writes(ew) \cup DOMAIN Writes(pw)
  BY <1>8, <1>9, HoldsOver, OverFacts
<1>13. \A a \in P \cup E : a.of.name \in DOMAIN W
  <2> HIDE DEF W
  <2>1. \A e \in Range(errs) : Whole(e.type).of.name \in DOMAIN W
    BY <1>10, <1>12, SchemaNames
  <2>2. \A v \in Variants(ep) : Whole(v.type).of.name \in DOMAIN W
    BY <1>11, <1>12, SchemaNames
  <2> QED BY <2>1, <2>2
<1> QED BY <1>1, <1>8, <1>12, <1>13 DEF B, ew, pw, ee, vs

(* The envelopes of the variants are there, and whatever the writes of the  *)
(* variants left under another name is the name of a payload.               *)
LEMMA EnvelopeWrites ==
    ASSUME NEW ep \in Endpoints
    PROVE  LET vw == Writes(VariantWrites(ep.sends \o ep.receives))
           IN  /\ \A v \in Variants(ep) : EnvelopeName(v) \in DOMAIN vw
               /\ \A n \in DOMAIN vw : \E v \in Variants(ep) :
                     \/ n = v.type.name
                     \/ n = EnvelopeName(v) /\ vw[n] = Envelope(v)
<1> DEFINE vs == ep.sends \o ep.receives
           ws == VariantWrites(vs)
           k  == 2 * Len(vs)
<1>1. /\ Len(vs) \in Nat /\ DOMAIN vs = 1..Len(vs)
      /\ \A v \in Variants(ep) : \E i \in DOMAIN vs : vs[i] = v
      /\ \A i \in DOMAIN vs : vs[i] \in Variants(ep)
  BY VariantFacts DEF Variants
<1>2. /\ DOMAIN ws = 1..k /\ k \in Nat
      /\ \A i \in DOMAIN vs : EnvelopeName(vs[i]) \in DOMAIN Writes(ws)
      /\ \A j \in DOMAIN ws : \E i \in DOMAIN vs :
            ws[j] \in {Put(vs[i].type.name, Whole(vs[i].type)), Put(EnvelopeName(vs[i]), Envelope(vs[i]))}
  BY <1>1, VariantWritesFacts
<1> HIDE DEF vs, ws, k
<1>3. \A v \in Variants(ep) : EnvelopeName(v) \in DOMAIN Writes(ws)
  BY <1>1, <1>2
<1>4. ASSUME NEW n \in DOMAIN Writes(ws)
      PROVE  \E v \in Variants(ep) :
                n = v.type.name \/ (n = EnvelopeName(v) /\ Writes(ws)[n] = Envelope(v))
  <2>1. PICK j \in DOMAIN ws : ws[j].name = n /\ Writes(ws)[n] = ws[j].schema
    BY <1>2, <1>4, WritesFacts
  <2>2. PICK i \in DOMAIN vs :
           ws[j] \in {Put(vs[i].type.name, Whole(vs[i].type)), Put(EnvelopeName(vs[i]), Envelope(vs[i]))}
    BY <1>2
  <2>3. n = vs[i].type.name \/ (n = EnvelopeName(vs[i]) /\ Writes(ws)[n] = Envelope(vs[i]))
    BY <2>1, <2>2 DEF Put
  <2> QED BY <1>1, <2>3
<1> QED BY <1>3, <1>4 DEF ws, vs

(* NoClash, taken apart.                                                    *)
ClashFree ==
    /\ \A i, j \in DOMAIN served : \A a \in Needs(i), b \in Needs(j) :
          a.of.name = b.of.name => a = b
    /\ \A i \in DOMAIN served : \A a \in Needs(i) : a.of.name \notin BuiltInNames
    /\ \A i, j \in DOMAIN served :
          served[i].ep.kind = "ws" /\ served[j].ep.kind = "ws" =>
             \A v \in Variants(served[i].ep), w \in Variants(served[j].ep) :
                EnvelopeName(v) = EnvelopeName(w) => Envelope(v) = Envelope(w)
    /\ \A i, j \in DOMAIN served : served[i].ep.kind = "ws" =>
          \A v \in Variants(served[i].ep) :
             /\ EnvelopeName(v) \notin BuiltInNames
             /\ \A a \in Needs(j) : EnvelopeName(v) # a.of.name

(* While no names clash, the schemas that a route needs are there, whoever  *)
(* registered after it, and so are the envelopes of its messages.           *)
SchemaInv ==
    ClashFree => \A i \in DOMAIN served : \A a \in Needs(i) :
        a.of.name \in DOMAIN schemas /\ schemas[a.of.name] = a

EnvelopeInv ==
    ClashFree => \A i \in DOMAIN served : served[i].ep.kind = "ws" =>
        \A v \in Variants(served[i].ep) :
            EnvelopeName(v) \in DOMAIN asyncSchemas /\ asyncSchemas[EnvelopeName(v)] = Envelope(v)

(* A message and its envelope have the same name.                           *)
MessageInv == \A e \in DOMAIN asyncMessages : asyncMessages[e].payload = e

NamesInv == SchemaInv /\ EnvelopeInv /\ MessageInv

LEMMA NoClashApart == NoClash => ClashFree
<1> SUFFICES ASSUME NoClash PROVE ClashFree
  OBVIOUS
<1> DEFINE all == UNION {Needs(i) : i \in DOMAIN served}
           vs  == UNION {Variants(served[i].ep) :
                           i \in {i \in DOMAIN served : served[i].ep.kind = "ws"}}
<1>1. /\ \A a, b \in all : a.of.name = b.of.name => a = b
      /\ \A a \in all : a.of.name \notin BuiltInNames
      /\ \A v, w \in vs : EnvelopeName(v) = EnvelopeName(w) =>
                               v.message = w.message /\ v.type.name = w.type.name
      /\ \A v \in vs : EnvelopeName(v) \notin {a.of.name : a \in all} \cup BuiltInNames
  BY DEF NoClash, EnvelopeName
<1>2. \A i \in DOMAIN served : \A a \in Needs(i) : a \in all
  OBVIOUS
<1>3. \A i \in DOMAIN served : served[i].ep.kind = "ws" =>
         \A v \in Variants(served[i].ep) : v \in vs
  OBVIOUS
<1>4. \A v, w \in vs : EnvelopeName(v) = EnvelopeName(w) => Envelope(v) = Envelope(w)
  BY <1>1 DEF Envelope
<1> HIDE DEF all, vs
<1> QED BY <1>1, <1>2, <1>3, <1>4 DEF ClashFree

(* What earlier routes need stays what it was, so that names which do not   *)
(* clash after a registration did not clash before it.                      *)
LEMMA ClashFreeBefore ==
    ASSUME RInv, ServedInv, NEW r \in DOMAIN routers, NEW m \in 0..MaxPerRoute,
           NEW n \in 0..MaxPerRoute, NEW ep \in Endpoints, register(r, m, n, ep)
    PROVE  /\ \A j \in DOMAIN served : Needs(j)' = Needs(j)
           /\ ClashFree' => ClashFree
<1> PICK k \in Nat : k = Len(served) + 1
  BY DEF ServedInv
<1>1. /\ DOMAIN served' = DOMAIN served \cup {k}
      /\ \A j \in DOMAIN served : served'[j] = served[j] /\ routes'[j] = routes[j]
  BY RegisterFacts
<1>2. ASSUME NEW j \in DOMAIN served
      PROVE  Needs(j)' = Needs(j)
  BY <1>1, <1>2 DEF Needs, ErrorsOf, KnownErrors
<1>3. ASSUME ClashFree'
      PROVE  ClashFree
  <2> DEFINE N(j) == Needs(j)'
  <2>1. \A j \in DOMAIN served : N(j) = Needs(j) /\ served'[j] = served[j] /\ j \in DOMAIN served'
    BY <1>1, <1>2
  <2>2. /\ \A i, j \in DOMAIN served' : \A a \in N(i), b \in N(j) :
              a.of.name = b.of.name => a = b
        /\ \A i \in DOMAIN served' : \A a \in N(i) : a.of.name \notin BuiltInNames
        /\ \A i, j \in DOMAIN served' :
              served'[i].ep.kind = "ws" /\ served'[j].ep.kind = "ws" =>
                 \A v \in Variants(served'[i].ep), w \in Variants(served'[j].ep) :
                    EnvelopeName(v) = EnvelopeName(w) => Envelope(v) = Envelope(w)
        /\ \A i, j \in DOMAIN served' : served'[i].ep.kind = "ws" =>
              \A v \in Variants(served'[i].ep) :
                 /\ EnvelopeName(v) \notin BuiltInNames
                 /\ \A a \in N(j) : EnvelopeName(v) # a.of.name
    BY <1>3 DEF ClashFree
  <2> HIDE DEF N
  <2> QED BY <2>1, <2>2 DEF ClashFree
<1> QED BY <1>2, <1>3

(* A registration writes, under their names, all schemas that the new route *)
(* needs, and no others but one that is built in.                           *)
LEMMA RouteSchemas ==
    ASSUME RInv, ServedInv, NEW r \in DOMAIN routers, NEW m \in 0..MaxPerRoute,
           NEW n \in 0..MaxPerRoute, NEW ep \in Endpoints, register(r, m, n, ep),
           NEW k \in Nat, k = Len(served) + 1
    PROVE  \E W : /\ schemas' = Over(W, schemas)
                 /\ Holds(W, Needs(k)' \cup {Whole(ValidationError)})
                 /\ \A a \in Needs(k)' : a.of.name \in DOMAIN W
<1> DEFINE errs == Entries(routes'[k].errs)
           E(S) == {Whole(e.type) : e \in S}
<1>1. /\ served'[k] = [ep |-> ep, key |-> Key(r, ep)]
      /\ \/ ep.kind # "ws" /\ updateSchema(Key(r, ep), ep, errs, routes'[k].hdrs)
         \/ ep.kind = "ws" /\ addWSChannel(Path(r, ep), ep, errs)
      /\ routes'[k].errLookup = Range(routes'[k].errs)
      /\ \E q \in Nat : DOMAIN errs = 1..q
  BY RegisterFacts
<1>2. PICK q \in Nat : DOMAIN errs = 1..q
  BY <1>1
<1>3. ErrorsOf(k)' = Range(errs)
  BY <1>1 DEF ErrorsOf, KnownErrors, Entries, Range
<1>4. Needs(k)' = ContentOf(ep) \cup
         E({e \in Range(errs) : e.type.shape = "object" \/ ep.kind = "ws"})
  BY <1>1, <1>3 DEF Needs
<1>5. errs \in [1..q -> Range(errs)]
  BY <1>2 DEF Entries, Range
<1> DEFINE A == Needs(k)'
<1>6. CASE ep.kind # "ws"
  <2> DEFINE W == Over(BodyComponents(ep), Over(Writes(ErrorWrites(Documented(errs))),
                                                Writes(ResponseWrites(ep))))
  <2>1. schemas' = Over(W, schemas)
    <3> DEFINE b == BodyComponents(ep)
               e == Writes(ErrorWrites(Documented(errs)))
               w == Writes(ResponseWrites(ep))
    <3>1. schemas' = Over(b, Over(e, Over(w, schemas)))
      BY <1>1, <1>6 DEF updateSchema
    <3> HIDE DEF b, e, w
    <3>2. Over(e, Over(w, schemas)) = Over(Over(e, w), schemas)
      BY OverAssociates
    <3>3. Over(b, Over(Over(e, w), schemas)) = Over(Over(b, Over(e, w)), schemas)
      BY OverAssociates
    <3> QED BY <3>1, <3>2, <3>3 DEF b, e, w
  <2>2. A = ContentOf(ep) \cup E({e \in Range(errs) : e.type.shape = "object"})
    BY <1>4, <1>6
  <2>3. Holds(W, A) /\ \A a \in A : a.of.name \in DOMAIN W
    <3> HIDE DEF errs, A
    <3> QED BY <1>2, <1>6, <2>2, HttpWrites
  <2> HIDE DEF W, A
  <2>4. Holds(W, A \cup {Whole(ValidationError)})
    BY <2>3 DEF Holds
  <2> QED BY <2>1, <2>3, <2>4 DEF A
<1>7. CASE ep.kind = "ws"
  <2> DEFINE es == Writes(ErrorWrites(ErrorEntries(errs)))
             pw == Writes(PayloadWrites(ep.sends \o ep.receives))
             W  == Over(es, pw)
  <2>1. schemas' = Over(W, schemas)
    <3>1. schemas' = Over(es, Over(pw, schemas))
      BY <1>1, <1>7 DEF addWSChannel
    <3> HIDE DEF es, pw
    <3> QED BY <3>1, OverAssociates
  <2>2. A = ContentOf(ep) \cup E(Range(errs))
    BY <1>4, <1>7
  <2>3. Holds(W, A \cup {Whole(ValidationError)}) /\ \A a \in A : a.of.name \in DOMAIN W
    <3> HIDE DEF errs, A
    <3> QED BY <1>2, <1>5, <1>7, <2>2, SocketWrites
  <2> HIDE DEF W, A
  <2> QED BY <2>1, <2>3 DEF A
<1> QED BY <1>6, <1>7

(* So the schemas that any route needs stay there, while no names clash.    *)
LEMMA SchemasKept ==
    ASSUME RInv, ServedInv, SchemaInv, NEW r \in DOMAIN routers, NEW m \in 0..MaxPerRoute,
           NEW n \in 0..MaxPerRoute, NEW ep \in Endpoints, register(r, m, n, ep)
    PROVE  SchemaInv'
<1> PICK k \in Nat : k = Len(served) + 1
  BY DEF ServedInv
<1> DEFINE A    == Needs(k)'
           N(i) == Needs(i)'
<1>1. PICK W : /\ schemas' = Over(W, schemas)
               /\ Holds(W, A \cup {Whole(ValidationError)})
               /\ \A a \in A : a.of.name \in DOMAIN W
  BY RouteSchemas
<1>2. DOMAIN served' = DOMAIN served \cup {k}
  BY RegisterFacts
<1>3. /\ \A j \in DOMAIN served : N(j) = Needs(j)
      /\ ClashFree' => ClashFree
  BY ClashFreeBefore
<1> SUFFICES ASSUME ClashFree'
             PROVE  \A i \in DOMAIN served' : \A a \in N(i) :
                       a.of.name \in DOMAIN schemas' /\ schemas'[a.of.name] = a
  BY DEF SchemaInv
<1>4. /\ \A i, j \in DOMAIN served' : \A a \in N(i), b \in N(j) :
            a.of.name = b.of.name => a = b
      /\ \A i \in DOMAIN served' : \A a \in N(i) : a.of.name \notin BuiltInNames
  BY DEF ClashFree
<1>5. N(k) = A
  OBVIOUS
<1> HIDE DEF N, A
<1> TAKE i \in DOMAIN served'
<1> TAKE a \in N(i)
<1>6. CASE a.of.name \in DOMAIN W
  <2>1. W[a.of.name] \in A \cup {Whole(ValidationError)} /\ W[a.of.name].of.name = a.of.name
    BY <1>1, <1>6 DEF Holds
  <2>2. Whole(ValidationError).of.name \in BuiltInNames
    BY SchemaNames DEF BuiltInNames
  <2>3. W[a.of.name] \in A
    BY <1>4, <2>1, <2>2
  <2>4. W[a.of.name] = a
    BY <1>2, <1>4, <1>5, <2>1, <2>3
  <2> QED BY <1>1, <1>6, <2>4 DEF Over
<1>7. CASE a.of.name \notin DOMAIN W
  <2>1. i \in DOMAIN served
    BY <1>1, <1>2, <1>5, <1>7
  <2>2. a.of.name \in DOMAIN schemas /\ schemas[a.of.name] = a
    BY <1>3, <2>1 DEF SchemaInv
  <2> QED BY <1>1, <1>7, <2>2 DEF Over
<1> QED BY <1>6, <1>7

(* And so do the envelopes.                                                 *)
LEMMA EnvelopesKept ==
    ASSUME RInv, ServedInv, EnvelopeInv, NEW r \in DOMAIN routers, NEW m \in 0..MaxPerRoute,
           NEW n \in 0..MaxPerRoute, NEW ep \in Endpoints, register(r, m, n, ep)
    PROVE  EnvelopeInv'
<1> PICK k \in Nat : k = Len(served) + 1
  BY DEF ServedInv
<1> DEFINE errs == Entries(routes'[k].errs)
           N(i) == Needs(i)'
           es   == Writes(ErrorWrites(ErrorEntries(errs)))
           vw   == Writes(VariantWrites(ep.sends \o ep.receives))
<1>1. /\ DOMAIN served' = DOMAIN served \cup {k} /\ served'[k] = [ep |-> ep, key |-> Key(r, ep)]
      /\ \A j \in DOMAIN served : served'[j] = served[j]
      /\ \/ ep.kind # "ws" /\ updateSchema(Key(r, ep), ep, errs, routes'[k].hdrs)
         \/ ep.kind = "ws" /\ addWSChannel(Path(r, ep), ep, errs)
      /\ routes'[k].errLookup = Range(routes'[k].errs)
      /\ \E q \in Nat : DOMAIN errs = 1..q
  BY RegisterFacts
<1>2. ClashFree' => ClashFree
  BY ClashFreeBefore
<1> SUFFICES ASSUME ClashFree'
             PROVE  \A i \in DOMAIN served' : served'[i].ep.kind = "ws" =>
                       \A v \in Variants(served'[i].ep) :
                          /\ EnvelopeName(v) \in DOMAIN asyncSchemas'
                          /\ asyncSchemas'[EnvelopeName(v)] = Envelope(v)
  BY DEF EnvelopeInv
<1>3. /\ \A i, j \in DOMAIN served' :
            served'[i].ep.kind = "ws" /\ served'[j].ep.kind = "ws" =>
               \A v \in Variants(served'[i].ep), w \in Variants(served'[j].ep) :
                  EnvelopeName(v) = EnvelopeName(w) => Envelope(v) = Envelope(w)
      /\ \A i, j \in DOMAIN served' : served'[i].ep.kind = "ws" =>
            \A v \in Variants(served'[i].ep) :
               /\ EnvelopeName(v) \notin BuiltInNames
               /\ \A a \in N(j) : EnvelopeName(v) # a.of.name
  BY DEF ClashFree
<1>4. /\ \A v \in Variants(ep) : EnvelopeName(v) \in DOMAIN vw
      /\ \A x \in DOMAIN vw : \E v \in Variants(ep) :
            x = v.type.name \/ (x = EnvelopeName(v) /\ vw[x] = Envelope(v))
  BY EnvelopeWrites
<1>5. \/ ep.kind # "ws" /\ asyncSchemas' = asyncSchemas
      \/ ep.kind = "ws" /\ asyncSchemas' = Over(es, Over(vw, asyncSchemas))
  BY <1>1 DEF updateSchema, addWSChannel
<1>6. ASSUME ep.kind = "ws"
      PROVE  /\ \A v \in Variants(ep) : Whole(v.type) \in N(k)
             /\ \A x \in DOMAIN es : x \in BuiltInNames \/ \E a \in N(k) : a.of.name = x
  <2>1. PICK q \in Nat : DOMAIN errs = 1..q
    BY <1>1
  <2>2. errs \in [1..q -> Range(errs)]
    BY <2>1 DEF Entries, Range
  <2>3. ErrorsOf(k)' = Range(errs)
    BY <1>1 DEF ErrorsOf, KnownErrors, Entries, Range
  <2>4. N(k) = ContentOf(ep) \cup {Whole(e.type) : e \in Range(errs)}
    BY <1>1, <1>6, <2>3 DEF Needs
  <2>5. \A v \in Variants(ep) : Whole(v.type) \in ContentOf(ep)
    BY <1>6 DEF ContentOf
  <2> HIDE DEF errs, N
  <2>6. Holds(es, N(k) \cup {Whole(ValidationError)})
    BY <1>6, <2>1, <2>2, <2>4, SocketWrites
  <2>7. Whole(ValidationError).of.name \in BuiltInNames
    BY SchemaNames DEF BuiltInNames
  <2> HIDE DEF es
  <2>8. \A x \in DOMAIN es : x \in BuiltInNames \/ \E a \in N(k) : a.of.name = x
    BY <2>6, <2>7 DEF Holds
  <2> QED BY <2>4, <2>5, <2>8
<1> HIDE DEF errs, es, vw, N
<1> TAKE i \in DOMAIN served'
<1> HAVE served'[i].ep.kind = "ws"
<1> TAKE v \in Variants(served'[i].ep)
<1> DEFINE x == EnvelopeName(v)
<1>7. /\ x \notin BuiltInNames /\ \A a \in N(k) : x # a.of.name
  BY <1>1, <1>3
<1>8. i \in DOMAIN served => x \in DOMAIN asyncSchemas /\ asyncSchemas[x] = Envelope(v)
  BY <1>1, <1>2 DEF EnvelopeInv
<1>9. CASE ep.kind # "ws"
  <2>1. i # k
    BY <1>1, <1>9
  <2> QED BY <1>1, <1>5, <1>8, <1>9, <2>1
<1>10. CASE ep.kind = "ws"
  <2> HIDE DEF x
  <2>1. x \notin DOMAIN es
    BY <1>6, <1>7, <1>10
  <2>2. CASE x \in DOMAIN vw
    <3>1. PICK w \in Variants(ep) : x = w.type.name \/ (x = EnvelopeName(w) /\ vw[x] = Envelope(w))
      BY <1>4, <2>2
    <3>2. x # w.type.name
      <4>1. Whole(w.type) \in N(k) /\ Whole(w.type).of.name = w.type.name
        BY <1>6, <1>10, SchemaNames
      <4> QED BY <1>7, <4>1
    <3>3. vw[x] = Envelope(v)
      BY <1>1, <1>3, <1>10, <3>1, <3>2 DEF x
    <3> DEFINE inner == Over(vw, asyncSchemas)
    <3>4. x \in DOMAIN inner /\ inner[x] = Envelope(v)
      BY <2>2, <3>3 DEF Over
    <3> HIDE DEF inner
    <3>5. x \in DOMAIN Over(es, inner) /\ Over(es, inner)[x] = Envelope(v)
      BY <2>1, <3>4 DEF Over
    <3> QED BY <1>5, <1>10, <3>5 DEF inner, x
  <2>3. CASE x \notin DOMAIN vw
    <3>1. i \in DOMAIN served
      BY <1>1, <1>4, <1>10, <2>3 DEF x
    <3> DEFINE inner == Over(vw, asyncSchemas)
    <3>4. x \in DOMAIN inner /\ inner[x] = Envelope(v)
      BY <1>8, <2>3, <3>1 DEF Over
    <3> HIDE DEF inner
    <3>5. x \in DOMAIN Over(es, inner) /\ Over(es, inner)[x] = Envelope(v)
      BY <2>1, <3>4 DEF Over
    <3> QED BY <1>5, <1>10, <3>5 DEF inner, x
  <2> QED BY <2>2, <2>3
<1> QED BY <1>9, <1>10

(* A message is written under the name of its envelope.                     *)
LEMMA MessagesKept ==
    ASSUME MessageInv, NEW path, NEW ep \in Endpoints, NEW errs, addWSChannel(path, ep, errs)
    PROVE  MessageInv'
<1> DEFINE vs == ep.sends \o ep.receives
           ws == MessageWrites(vs)
           k  == Len(vs)
<1>1. k \in Nat /\ DOMAIN ws = 1..k
  BY VariantFacts DEF MessageWrites
<1>2. \A i \in DOMAIN ws : ws[i].schema.payload = ws[i].name
  BY DEF MessageWrites, Put
<1>3. asyncMessages' = Over(Writes(ws), asyncMessages)
  BY DEF addWSChannel
<1> HIDE DEF ws, k
<1>4. \A e \in DOMAIN Writes(ws) :
         \E i \in DOMAIN ws : ws[i].name = e /\ Writes(ws)[e] = ws[i].schema
  BY <1>1, WritesFacts
<1>5. \A e \in DOMAIN Writes(ws) : Writes(ws)[e].payload = e
  BY <1>2, <1>4
<1> QED BY <1>3, <1>5 DEF MessageInv, Over

(* Every step keeps the names.                                              *)
LEMMA NamesStep ==
    ASSUME RInv, ServedInv, NamesInv, [NextDoc]_allVars
    PROVE  NamesInv'
<1>1. CASE UNCHANGED docVars /\ UNCHANGED routes
  <2>1. /\ schemas' = schemas /\ asyncSchemas' = asyncSchemas /\ asyncMessages' = asyncMessages
        /\ served' = served /\ routes' = routes
    BY <1>1 DEF docVars
  <2>2. ClashFree' <=> ClashFree
    BY <2>1 DEF ClashFree, Needs, ErrorsOf, KnownErrors
  <2>3. SchemaInv'
    BY <2>1, <2>2 DEF NamesInv, SchemaInv, Needs, ErrorsOf, KnownErrors
  <2>4. EnvelopeInv' /\ MessageInv'
    BY <2>1, <2>2 DEF NamesInv, EnvelopeInv, MessageInv
  <2> QED BY <2>3, <2>4 DEF NamesInv
<1>2. ASSUME NEW r \in DOMAIN routers, NEW m \in 0..MaxPerRoute, NEW n \in 0..MaxPerRoute,
             NEW ep \in Endpoints, register(r, m, n, ep)
      PROVE  NamesInv'
  <2>1. SchemaInv' /\ EnvelopeInv'
    BY <1>2, SchemasKept, EnvelopesKept DEF NamesInv
  <2>2. \/ \E key, declared, headers : updateSchema(key, ep, declared, headers)
        \/ \E path, errs : addWSChannel(path, ep, errs)
    BY <1>2 DEF register
  <2>3. MessageInv'
    <3>1. ASSUME NEW key, NEW declared, NEW headers, updateSchema(key, ep, declared, headers)
          PROVE  MessageInv'
      BY <3>1 DEF updateSchema, NamesInv, MessageInv
    <3> QED BY <2>2, <3>1, MessagesKept DEF NamesInv
  <2> QED BY <2>1, <2>3 DEF NamesInv
<1> QED BY <1>1, <1>2, RouteOrNothing

(* The documents of an API with no routes.                                  *)
LEMMA InitNames == InitDoc => NamesInv
<1> SUFFICES ASSUME InitDoc PROVE NamesInv
  OBVIOUS
<1>1. served = <<>> /\ asyncMessages = <<>>
  BY DEF InitDoc
<1> QED BY <1>1 DEF NamesInv, SchemaInv, EnvelopeInv, MessageInv

(* Everything that is known of the documents of an API.                     *)
PagesInv == RInv /\ DocInv /\ ServedInv /\ PlacesInv /\ NamesInv

LEMMA SpecPagesInv == SpecDoc => []PagesInv
<1>1. InitDoc => PagesInv
  BY InitRInv, InitDocInv, InitPlaces, InitNames DEF InitDoc, PagesInv
<1>2. PagesInv /\ [NextDoc]_allVars => PagesInv'
  <2> SUFFICES ASSUME PagesInv, [NextDoc]_allVars PROVE PagesInv'
    OBVIOUS
  <2>1. RInv /\ DocInv /\ ServedInv /\ PlacesInv /\ NamesInv
    BY DEF PagesInv
  <2>2. RInv'
    BY <2>1, DocStep, NextKeeps
  <2>3. DocInv' /\ ServedInv' /\ PlacesInv' /\ NamesInv'
    BY <2>1, <2>2, DocInvKept, PlacesStep, NamesStep
  <2> QED BY <2>2, <2>3 DEF PagesInv
<1> QED BY <1>1, <1>2, PTL DEF SpecDoc

(* What the channel of a route leads to, through the messages, is the       *)
(* envelopes of its variants.                                               *)
LEMMA ChannelLeads ==
    ASSUME PagesInv, NoClash, NEW i \in DOMAIN served, served[i].ep.kind = "ws", OwnEntry(i)
    PROVE  /\ channels[served[i].key[1]] = ChannelOf(i)
           /\ \A v \in Variants(served[i].ep) :
                 asyncSchemas[asyncMessages[EnvelopeName(v)].payload] = Envelope(v)
<1>1. /\ served[i].key[1] \in DOMAIN channels
      /\ channels[served[i].key[1]] = ChannelOf(i)
  BY DEF PagesInv, PlacesInv
<1>2. ChannelOf(i) \in Range(channels)
  BY <1>1 DEF Range
<1>3. ChannelOf(i).subscribe \cup ChannelOf(i).publish \subseteq DOMAIN asyncMessages
  BY <1>2 DEF PagesInv, DocInv, RefsResolve, ChannelRefsResolve
<1>4. \A v \in Variants(served[i].ep) : EnvelopeName(v) \in DOMAIN asyncMessages
  BY <1>3 DEF ChannelOf, Variants
<1>5. \A v \in Variants(served[i].ep) : asyncMessages[EnvelopeName(v)].payload = EnvelopeName(v)
  BY <1>4 DEF PagesInv, NamesInv, MessageInv
<1>6. \A v \in Variants(served[i].ep) : asyncSchemas[EnvelopeName(v)] = Envelope(v)
  BY NoClashApart DEF PagesInv, NamesInv, EnvelopeInv
<1> QED BY <1>1, <1>5, <1>6

(* The documentation of a route refers to the types it receives and shows.  *)
LEMMA RefersToContent ==
    ASSUME PagesInv, NoClash, NEW i \in DOMAIN served, OwnEntry(i),
           NEW a \in ContentOf(served[i].ep)
    PROVE  a.of.name \in Refers(i)
<1> DEFINE ep   == served[i].ep
           errs == Entries(routes[i].errs)
           resp == Responses(ep, Documented(errs), routes[i].hdrs)
<1>1. CASE ep.kind = "ws"
  <2> DEFINE c == channels[served[i].key[1]]
  <2>1. PICK v \in Variants(ep) : a = Whole(v.type)
    BY <1>1 DEF ContentOf
  <2>2. /\ c.subscribe \cup c.publish = {EnvelopeName(w) : w \in Variants(ep)}
        /\ asyncSchemas[asyncMessages[EnvelopeName(v)].payload] = Envelope(v)
    <3>1. c = ChannelOf(i) /\ asyncSchemas[asyncMessages[EnvelopeName(v)].payload] = Envelope(v)
      BY <1>1, ChannelLeads
    <3>2. /\ c.subscribe = {EnvelopeName(w) : w \in Range(ep.sends)}
          /\ c.publish = {EnvelopeName(w) : w \in Range(ep.receives)}
      BY <3>1 DEF ChannelOf
    <3> HIDE DEF c
    <3> QED BY <3>1, <3>2 DEF Variants
  <2>3. Envelope(v).of.data = a.of.name
    BY <2>1, SchemaNames DEF Envelope
  <2>4. Refers(i) = {asyncSchemas[asyncMessages[e].payload].of.data : e \in c.subscribe \cup c.publish}
    BY <1>1 DEF Refers
  <2> HIDE DEF c
  <2>5. EnvelopeName(v) \in c.subscribe \cup c.publish
    BY <2>2
  <2> QED BY <2>2, <2>3, <2>4, <2>5
<1>2. CASE ep.kind # "ws"
  <2>1. operations[served[i].key] = [body |-> RequestBody(ep), responses |-> resp]
    BY <1>2 DEF PagesInv, PlacesInv, OperationOf
  <2>2. Refers(i) = {p.name : p \in RequestBody(ep) \cup UNION Range(resp)}
    BY <1>2, <2>1 DEF Refers
  <2>3. CASE \E T \in ep.body : "json" \in T.fields /\ a = Schema(T, T.fields \cap {"json"})
    <3>1. PICK T \in ep.body : "json" \in T.fields /\ a = Schema(T, T.fields \cap {"json"})
      BY <2>3
    <3>2. Ref(T.name) \in RequestBody(ep)
      BY <3>1 DEF RequestBody, BodyFields
    <3>3. Ref(T.name).name = a.of.name
      BY <3>1, SchemaNames DEF Ref
    <3> QED BY <2>2, <3>2, <3>3
  <2>4. CASE \E T \in Range(Shown(ep)) : /\ Named(T) /\ HasContent(ep, T)
                                        /\ a.of.name = Target(T).name
    <3>1. PICK T \in Range(Shown(ep)) : Named(T) /\ HasContent(ep, T) /\ a.of.name = Target(T).name
      BY <2>4
    <3>2. PlaceOf(T).name = a.of.name
      BY <3>1 DEF PlaceOf, Target, Items, Ref
    <3>3. ~ (ep.kind = "raw" /\ ~ep.custom)
      <4>1. ep.kind = "raw" /\ ~ep.custom => Shown(ep) = <<>>
        BY DEF Shown
      <4>2. Shown(ep) # <<>>
        BY <3>1 DEF Range
      <4> QED BY <4>1, <4>2
    <3> DEFINE su == Success(ep, routes[i].hdrs)
               er == ErrorResponses(Documented(errs))
    <3>4. ep.status \in DOMAIN su /\ PlaceOf(T) \in su[ep.status]
      BY <3>1, <3>3 DEF Success, Entry
    <3>5. ep.status \notin DOMAIN BuiltIn /\ \A e \in Range(errs) : e.status # ep.status
      <4>1. i \in DOMAIN routes
        BY DEF PagesInv, ServedInv, RInv, Typed
      <4>2. ErrorsOf(i) = Range(errs)
        BY <4>1, ErrorsOfRoute DEF PagesInv
      <4> QED BY <1>2, <4>2 DEF OwnEntry
    <3>6. ep.status \notin DOMAIN er
      BY <3>5 DEF ErrorResponses, Documented, Range
    <3>7. resp = Over(er, Over(BuiltIn, su))
      BY DEF Responses
    <3> HIDE DEF su, er, resp
    <3>8. ep.status \in DOMAIN resp /\ resp[ep.status] = su[ep.status]
      BY <3>4, <3>5, <3>6, <3>7 DEF Over
    <3>9. PlaceOf(T) \in UNION Range(resp)
      BY <3>4, <3>8 DEF Range
    <3> QED BY <2>2, <3>2, <3>9
  <2>5. \/ \E T \in ep.body : "json" \in T.fields /\ a = Schema(T, T.fields \cap {"json"})
        \/ \E T \in Range(Shown(ep)) : Named(T) /\ HasContent(ep, T) /\ a.of.name = Target(T).name
    BY <1>2, SchemaNames DEF ContentOf
  <2> QED BY <2>3, <2>4, <2>5
<1> QED BY <1>1, <1>2

(* The client's unions of a channel are the messages that its server sends  *)
(* and reads, with the payload types it sends and reads them as.            *)
LEMMA UnionsAreTheMessages ==
    ASSUME PagesInv, NoClash, NEW i \in DOMAIN served, served[i].ep.kind = "ws", OwnEntry(i)
    PROVE  /\ ClientTypes(i).send = TypesOf(served[i].ep.sends)
           /\ ClientTypes(i).receive = TypesOf(served[i].ep.receives)
<1> DEFINE ep == served[i].ep
           c  == channels[served[i].key[1]]
<1>1. c = ChannelOf(i)
  BY ChannelLeads
<1>2. \A v \in Variants(ep) : resolveEnvelopeType(EnvelopeName(v)) =
                                 {[type |-> v.message, data |-> v.type.name]}
  <2> SUFFICES ASSUME NEW v \in Variants(ep)
               PROVE  resolveEnvelopeType(EnvelopeName(v)) =
                         {[type |-> v.message, data |-> v.type.name]}
    OBVIOUS
  <2>1. asyncSchemas[asyncMessages[EnvelopeName(v)].payload] = Envelope(v)
    BY ChannelLeads
  <2>2. /\ Envelope(v).kind = "envelope" /\ Envelope(v).of.message = v.message
        /\ Envelope(v).of.data = v.type.name
    BY DEF Envelope
  <2> QED BY <2>1, <2>2 DEF resolveEnvelopeType
<1>3. ASSUME NEW S, S \subseteq Variants(ep)
      PROVE  resolveMessageType({EnvelopeName(v) : v \in S}) =
                {[type |-> v.message, data |-> v.type.name] : v \in S}
  BY <1>2, <1>3 DEF resolveMessageType
<1>4. Range(ep.sends) \subseteq Variants(ep) /\ Range(ep.receives) \subseteq Variants(ep)
  BY DEF Variants
<1>5. /\ c.subscribe = {EnvelopeName(v) : v \in Range(ep.sends)}
      /\ c.publish = {EnvelopeName(v) : v \in Range(ep.receives)}
  BY <1>1 DEF ChannelOf
<1> HIDE DEF c
<1> QED BY <1>3, <1>4, <1>5 DEF c, ClientTypes, buildWSChannelsType, TypesOf

(* Unless two types, or two uses of one, want one name, a route refers to   *)
(* the schemas of its own types, with the fields its handler has, whatever  *)
(* is registered before and after; and the two unions generated for a       *)
(* socket are those of the messages of its server's two directions.         *)
THEOREM DocDescribesItsTypes == SpecDoc => []DescribesItsTypes
<1>1. PagesInv => DescribesItsTypes
  <2> SUFFICES ASSUME PagesInv, NoClash, NEW i \in DOMAIN served
               PROVE  /\ \A a \in Needs(i) : a.of.name \in DOMAIN schemas /\ schemas[a.of.name] = a
                      /\ OwnEntry(i) => \A a \in ContentOf(served[i].ep) : a.of.name \in Refers(i)
                      /\ OwnEntry(i) /\ served[i].ep.kind = "ws" =>
                            {ClientTypes(i).send, ClientTypes(i).receive}
                              = {TypesOf(served[i].ep.sends), TypesOf(served[i].ep.receives)}
    BY DEF DescribesItsTypes
  <2>1. \A a \in Needs(i) : a.of.name \in DOMAIN schemas /\ schemas[a.of.name] = a
    BY NoClashApart DEF PagesInv, NamesInv, SchemaInv
  <2>2. OwnEntry(i) => \A a \in ContentOf(served[i].ep) : a.of.name \in Refers(i)
    BY RefersToContent
  <2>3. OwnEntry(i) /\ served[i].ep.kind = "ws" =>
           {ClientTypes(i).send, ClientTypes(i).receive}
             = {TypesOf(served[i].ep.sends), TypesOf(served[i].ep.receives)}
    BY UnionsAreTheMessages
  <2> QED BY <2>1, <2>2, <2>3
<1> QED BY <1>1, SpecPagesInv, PTL
=============================================================================
