------------------------- MODULE RouteRegistryProofs -------------------------
(***************************************************************************)
(* What the API, its groups and its routes declare stays what it was, for  *)
(* any number of declarations, groups and routes.                          *)
(*                                                                         *)
(* An append writes in place, behind the slice it extends, or makes a new  *)
(* array (GoAppendWrites).  So a slice keeps its contents as long as no    *)
(* other router appends to its array and its own router appends behind it: *)
(* each router owns its arrays (Owned), and a route that shares one with   *)
(* its router starts with all of the router's list (Behind).               *)
(***************************************************************************)
EXTENDS RouteRegistry, SequenceTheorems, TLAPS

OkSlice(h, s) == s \in Slice /\ s.arr \in 0..Len(h) /\ s.len <= Room(h, s)

(* Slices that an append to s leaves alone.                                 *)
Apart(s, t) == t.arr # s.arr \/ t.len <= s.len

(* A function on 1..k is a sequence of k elements.                          *)
LEMMA FunctionIsSequence ==
    ASSUME NEW V, NEW k \in Nat, NEW f \in [1..k -> V]
    PROVE  f \in Seq(V) /\ Len(f) = k
OBVIOUS

(* A slice of the heap ends within its array, and its contents are as long. *)
LEMMA SliceFacts ==
    ASSUME NEW V, NEW h \in Seq(Seq(V)), NEW s, OkSlice(h, s)
    PROVE  /\ s.arr \in 0..Len(h) /\ Len(h) \in Nat /\ s.len \in Nat
           /\ Room(h, s) \in Nat /\ s.len <= Room(h, s)
           /\ s.len = 0 \/ (s.arr \in 1..Len(h) /\ h[s.arr] \in Seq(V) /\ s.len <= Len(h[s.arr]))
           /\ Contents(h, s) \in Seq(V) /\ Len(Contents(h, s)) = s.len
<1>1. s.arr \in 0..Len(h) /\ Len(h) \in Nat /\ s.len \in Nat /\ s.len <= Room(h, s)
  BY DEF OkSlice, Slice
<1>2. CASE s.arr = 0
  <2>1. Room(h, s) = 0 /\ s.len = 0
    BY <1>1, <1>2 DEF Room
  <2>2. Contents(h, s) \in [1..s.len -> V]
    BY <2>1 DEF Contents
  <2> QED BY <1>1, <2>1, <2>2, FunctionIsSequence
<1>3. CASE s.arr # 0
  <2>1. s.arr \in 1..Len(h) /\ h[s.arr] \in Seq(V) /\ Room(h, s) = Len(h[s.arr])
    BY <1>1, <1>3 DEF Room
  <2>2. Len(h[s.arr]) \in Nat /\ DOMAIN h[s.arr] = 1..Len(h[s.arr])
    BY <2>1
  <2>3. Contents(h, s) \in [1..s.len -> V]
    BY <1>1, <2>1, <2>2 DEF Contents
  <2> QED BY <1>1, <2>1, <2>2, <2>3, FunctionIsSequence
<1> QED BY <1>2, <1>3

(* An append to a slice with room: the array is written behind the slice.   *)
LEMMA AppendInPlace ==
    ASSUME NEW V, NEW h \in Seq(Seq(V)), NEW s, OkSlice(h, s), NEW vals \in Seq(V),
           vals # <<>>, s.len + Len(vals) <= Room(h, s),
           NEW g, g = GoAppend(h, s, vals)
    PROVE  /\ g.heap \in Seq(Seq(V)) /\ Len(g.heap) = Len(h)
           /\ OkSlice(g.heap, g.slice)
           /\ g.slice = [arr |-> s.arr, len |-> s.len + Len(vals)]
           /\ Contents(g.heap, g.slice) = Contents(h, s) \o vals
           /\ \A t : OkSlice(h, t) => OkSlice(g.heap, t)
           /\ \A t : OkSlice(h, t) /\ Apart(s, t) => Contents(g.heap, t) = Contents(h, t)
<1> DEFINE n == s.len + Len(vals)
           a == [i \in DOMAIN h[s.arr] |->
                    IF i \in (s.len + 1)..n THEN vals[i - s.len] ELSE h[s.arr][i]]
<1>1. s.arr \in 1..Len(h) /\ s.len \in Nat /\ Len(vals) \in Nat \ {0}
  BY DEF OkSlice, Slice, Room
<1>2. g.heap = [h EXCEPT ![s.arr] = a] /\ g.slice = [arr |-> s.arr, len |-> n]
  BY <1>1 DEF GoAppend
<1>3. /\ h[s.arr] \in Seq(V) /\ n <= Len(h[s.arr])
      /\ DOMAIN h[s.arr] = 1..Len(h[s.arr]) /\ Len(h[s.arr]) \in Nat
  BY <1>1 DEF Room
<1>4. a \in Seq(V) /\ Len(a) = Len(h[s.arr])
  <2>1. a \in [1..Len(h[s.arr]) -> V]
    BY <1>1, <1>3, SMTT(30)
  <2> HIDE DEF a
  <2> QED BY <1>3, <2>1, FunctionIsSequence
<1>0. n = s.len + Len(vals) /\ n \in Nat /\ n >= s.len
  BY <1>1
<1>5. /\ \A i \in (s.len + 1)..n : a[i] = vals[i - s.len]
      /\ \A i \in 1..s.len : a[i] = h[s.arr][i]
  <2>1. \A i \in 1..Len(h[s.arr]) :
           a[i] = IF i \in (s.len + 1)..n THEN vals[i - s.len] ELSE h[s.arr][i]
    BY <1>3
  <2> HIDE DEF a
  <2>2. (s.len + 1)..n \subseteq 1..Len(h[s.arr]) /\ 1..s.len \subseteq 1..Len(h[s.arr])
    <3> HIDE DEF n
    <3> QED BY <1>0, <1>1, <1>3, SMTT(30)
  <2>3. \A i \in 1..s.len : i \notin (s.len + 1)..n
    BY <1>1
  <2> HIDE DEF n
  <2> QED BY <2>1, <2>2, <2>3
<1> HIDE DEF a, n
<1>6. g.heap \in Seq(Seq(V)) /\ Len(g.heap) = Len(h) /\ g.heap[s.arr] = a
  BY <1>1, <1>2, <1>4
<1>7. \A t : OkSlice(h, t) => OkSlice(g.heap, t)
  BY <1>1, <1>2, <1>4, <1>6 DEF OkSlice, Room, Slice
<1>8. OkSlice(g.heap, g.slice)
  BY <1>0, <1>1, <1>2, <1>3, <1>4, <1>6 DEF OkSlice, Room, Slice
<1>9. Contents(g.heap, g.slice) = Contents(h, s) \o vals
  <2> DEFINE c == Contents(h, s)
  <2>1. Contents(g.heap, g.slice) = [i \in 1..n |-> a[i]]
    BY <1>1, <1>2, <1>6 DEF Contents
  <2>2. /\ c \in Seq(V) /\ Len(c) = s.len
        /\ \A i \in 1..s.len : c[i] = h[s.arr][i]
    <3>1. c \in [1..s.len -> V]
      BY <1>0, <1>1, <1>3, SMTT(30) DEF Contents
    <3>2. \A i \in 1..s.len : c[i] = h[s.arr][i]
      BY DEF Contents
    <3> HIDE DEF c
    <3> QED BY <1>1, <3>1, <3>2, FunctionIsSequence
  <2> HIDE DEF c
  <2>3. /\ c \o vals \in Seq(V) /\ Len(c \o vals) = n
        /\ \A i \in 1..n : (c \o vals)[i] = IF i <= s.len THEN c[i] ELSE vals[i - s.len]
    <3>1. /\ c \o vals \in Seq(V) /\ Len(c \o vals) = Len(c) + Len(vals)
          /\ \A i \in 1..(Len(c) + Len(vals)) :
                (c \o vals)[i] = IF i <= Len(c) THEN c[i] ELSE vals[i - Len(c)]
      BY <2>2, ConcatProperties, Zenon
    <3> QED BY <1>0, <2>2, <3>1
  <2>4. \A i \in 1..n : (c \o vals)[i] = a[i]
    BY <1>0, <1>1, <1>5, <2>2, <2>3, SMTT(30)
  <2>5. DOMAIN (c \o vals) = 1..n /\ c \o vals = [i \in DOMAIN (c \o vals) |-> (c \o vals)[i]]
    BY <2>3, LenProperties
  <2> QED BY <2>1, <2>4, <2>5 DEF c
<1>10. ASSUME NEW t, OkSlice(h, t), Apart(s, t)
       PROVE  Contents(g.heap, t) = Contents(h, t)
  <2>1. CASE t.arr # s.arr
    <3>1. t.len = 0 \/ g.heap[t.arr] = h[t.arr]
      BY <1>1, <1>2, <1>10, <2>1 DEF OkSlice, Slice, Room
    <3> QED BY <3>1, <1>10 DEF Contents, OkSlice, Slice
  <2>2. CASE t.arr = s.arr
    <3>1. t.len \in Nat /\ t.len <= s.len
      BY <1>10, <2>2 DEF OkSlice, Slice, Apart
    <3>2. \A i \in 1..t.len : i \in 1..s.len
      BY <1>1, <3>1
    <3>3. \A i \in 1..t.len : g.heap[t.arr][i] = h[t.arr][i]
      BY <1>5, <1>6, <2>2, <3>2
    <3> QED BY <3>3 DEF Contents
  <2> QED BY <2>1, <2>2
<1> QED BY <1>0, <1>2, <1>6, <1>7, <1>8, <1>9, <1>10

(* An append to a slice without room: a new array, larger than needed.      *)
LEMMA AppendElsewhere ==
    ASSUME NEW V, 0 \in V, NEW h \in Seq(Seq(V)), NEW s, OkSlice(h, s), NEW vals \in Seq(V),
           vals # <<>>, s.len + Len(vals) > Room(h, s),
           NEW g, g = GoAppend(h, s, vals)
    PROVE  /\ g.heap \in Seq(Seq(V)) /\ Len(g.heap) = Len(h) + 1
           /\ OkSlice(g.heap, g.slice)
           /\ g.slice = [arr |-> Len(h) + 1, len |-> s.len + Len(vals)]
           /\ Contents(g.heap, g.slice) = Contents(h, s) \o vals
           /\ \A t : OkSlice(h, t) => OkSlice(g.heap, t)
           /\ \A t : OkSlice(h, t) => Contents(g.heap, t) = Contents(h, t)
<1> DEFINE n == s.len + Len(vals)
           c == Contents(h, s)
           k == Capacity(Room(h, s), n)
           a == [i \in 1..k |-> IF i <= n THEN (c \o vals)[i] ELSE 0]
<1>1. /\ s.arr \in 0..Len(h) /\ Len(h) \in Nat /\ s.len \in Nat
      /\ Len(vals) \in Nat \ {0} /\ Room(h, s) \in Nat /\ n \in Nat
  <2>1. s.arr \in 0..Len(h) /\ Len(h) \in Nat /\ s.len \in Nat /\ Room(h, s) \in Nat
    BY SliceFacts, Zenon
  <2>2. Len(vals) \in Nat \ {0}
    OBVIOUS
  <2> QED BY <2>1, <2>2
<1>2. g.heap = Append(h, a) /\ g.slice = [arr |-> Len(h) + 1, len |-> n]
  <2>1. ~(s.len + Len(vals) <= Room(h, s))
    BY <1>1
  <2> QED BY <2>1 DEF GoAppend
<1>3. k \in Nat /\ k >= n
  BY <1>1 DEF Capacity
<1>4. c \in Seq(V) /\ Len(c) = s.len
  BY SliceFacts
<1> HIDE DEF c, k
<1>5. c \o vals \in Seq(V) /\ Len(c \o vals) = n
  <2>1. c \o vals \in Seq(V) /\ Len(c \o vals) = Len(c) + Len(vals)
    BY <1>4, ConcatProperties, Zenon
  <2> QED BY <1>4, <2>1
<1>6. a \in Seq(V) /\ Len(a) = k
  <2>1. a \in [1..k -> V]
    BY <1>1, <1>3, <1>5, SMTT(30)
  <2> HIDE DEF a
  <2> QED BY <1>3, <2>1, FunctionIsSequence
<1>7. \A i \in 1..n : a[i] = (c \o vals)[i]
  <2>1. \A i \in 1..n : i \in 1..k /\ i <= n
    BY <1>1, <1>3
  <2> HIDE DEF n
  <2> QED BY <2>1
<1> HIDE DEF a, n
<1>8. /\ g.heap \in Seq(Seq(V)) /\ Len(g.heap) = Len(h) + 1 /\ g.heap[Len(h) + 1] = a
      /\ \A i \in 1..Len(h) : g.heap[i] = h[i]
  BY <1>1, <1>2, <1>6
<1>9. OkSlice(g.heap, g.slice)
  BY <1>1, <1>2, <1>3, <1>6, <1>8 DEF OkSlice, Room, Slice
<1>10. \A t : OkSlice(h, t) => OkSlice(g.heap, t)
  <2> SUFFICES ASSUME NEW t, OkSlice(h, t) PROVE OkSlice(g.heap, t)
    OBVIOUS
  <2>1. t.arr \in 0..Len(h) /\ Len(h) \in Nat
    BY SliceFacts, Zenon
  <2>2. t.arr = 0 \/ t.arr \in 1..Len(h)
    BY <2>1
  <2>3. t.arr \in 0..Len(g.heap) /\ (t.arr = 0 \/ g.heap[t.arr] = h[t.arr])
    BY <1>8, <2>1, <2>2, SMTT(30)
  <2> QED BY <2>3 DEF OkSlice, Room
<1>11. \A t : OkSlice(h, t) => Contents(g.heap, t) = Contents(h, t)
  <2> SUFFICES ASSUME NEW t, OkSlice(h, t) PROVE Contents(g.heap, t) = Contents(h, t)
    OBVIOUS
  <2>1. t.len = 0 \/ g.heap[t.arr] = h[t.arr]
    <3>1. t.arr \in 0..Len(h) /\ Len(h) \in Nat
      BY SliceFacts, Zenon
    <3>2. CASE t.arr = 0
      <4>1. t.len \in Nat /\ t.len <= 0
        BY <3>2 DEF OkSlice, Room, Slice
      <4> QED BY <4>1
    <3>3. CASE t.arr \in 1..Len(h)
      BY <1>8, <3>3
    <3> QED BY <3>1, <3>2, <3>3
  <2> QED BY <2>1 DEF Contents, OkSlice, Slice
<1>12. Contents(g.heap, g.slice) = c \o vals
  <2>1. Contents(g.heap, g.slice) = [i \in 1..n |-> a[i]]
    BY <1>2, <1>8 DEF Contents
  <2>2. DOMAIN (c \o vals) = 1..n /\ c \o vals = [i \in DOMAIN (c \o vals) |-> (c \o vals)[i]]
    BY <1>5, LenProperties
  <2> QED BY <1>7, <2>1, <2>2
<1> QED BY <1>2, <1>8, <1>9, <1>10, <1>11, <1>12 DEF c, n

(* What an append does in every case: the slice it returns has the old      *)
(* contents and the new, lies in the old array or in a new one, and every   *)
(* slice apart from the one it extends keeps its contents.                  *)
Appended(V, h, s, vals, g) ==
    /\ g.heap \in Seq(Seq(V)) /\ Len(g.heap) >= Len(h)
    /\ OkSlice(g.heap, g.slice)
    /\ g.slice.arr = s.arr \/ g.slice.arr > Len(h)
    /\ g.slice.len = s.len + Len(vals)
    /\ Contents(g.heap, g.slice) = Contents(h, s) \o vals
    /\ \A t : OkSlice(h, t) => OkSlice(g.heap, t)
    /\ \A t : OkSlice(h, t) /\ Apart(s, t) => Contents(g.heap, t) = Contents(h, t)

(* GoAppend does so, for a slice that lies in the heap.                     *)
LEMMA GoAppendWrites ==
    ASSUME NEW V, 0 \in V, NEW h \in Seq(Seq(V)), NEW s, OkSlice(h, s), NEW vals \in Seq(V)
    PROVE  Appended(V, h, s, vals, GoAppend(h, s, vals))
<1> DEFINE g == GoAppend(h, s, vals)
<1>0. g = GoAppend(h, s, vals)
  OBVIOUS
<1> HIDE DEF g
<1> SUFFICES Appended(V, h, s, vals, g)
  BY <1>0
<1>1. CASE vals = <<>>
  <2>1. g.heap = h /\ g.slice = s /\ Len(vals) = 0
    BY <1>0, <1>1 DEF GoAppend
  <2>2. s.len \in Nat /\ Contents(h, s) \in Seq(V)
    BY SliceFacts
  <2>3. Contents(h, s) \o vals = Contents(h, s)
    BY <1>1, <2>2, ConcatEmptySeq
  <2> QED BY <2>1, <2>2, <2>3 DEF Appended
<1>2. CASE vals # <<>> /\ s.len + Len(vals) <= Room(h, s)
  <2>1. /\ g.heap \in Seq(Seq(V)) /\ Len(g.heap) = Len(h)
        /\ OkSlice(g.heap, g.slice)
        /\ g.slice = [arr |-> s.arr, len |-> s.len + Len(vals)]
        /\ Contents(g.heap, g.slice) = Contents(h, s) \o vals
        /\ \A t : OkSlice(h, t) => OkSlice(g.heap, t)
        /\ \A t : OkSlice(h, t) /\ Apart(s, t) => Contents(g.heap, t) = Contents(h, t)
    BY <1>0, <1>2, AppendInPlace
  <2>2. Len(h) \in Nat
    OBVIOUS
  <2> QED BY <2>1, <2>2 DEF Appended
<1>3. CASE vals # <<>> /\ s.len + Len(vals) > Room(h, s)
  <2>1. /\ g.heap \in Seq(Seq(V)) /\ Len(g.heap) = Len(h) + 1
        /\ OkSlice(g.heap, g.slice)
        /\ g.slice = [arr |-> Len(h) + 1, len |-> s.len + Len(vals)]
        /\ Contents(g.heap, g.slice) = Contents(h, s) \o vals
        /\ \A t : OkSlice(h, t) => OkSlice(g.heap, t)
        /\ \A t : OkSlice(h, t) => Contents(g.heap, t) = Contents(h, t)
    BY <1>0, <1>3, AppendElsewhere, SMTT(30)
  <2>2. Len(h) \in Nat
    OBVIOUS
  <2> QED BY <2>1, <2>2 DEF Appended
<1>4. s.len + Len(vals) \in Nat /\ Room(h, s) \in Nat
  BY SliceFacts
<1> QED BY <1>1, <1>2, <1>3, <1>4

(* A group's list: the clone has an array of its own, and so has whatever   *)
(* is appended to it.                                                       *)
Cloned(V, h, s, own, g) ==
    /\ g.heap \in Seq(Seq(V)) /\ Len(g.heap) >= Len(h)
    /\ OkSlice(g.heap, g.slice)
    /\ g.slice.arr = 0 \/ g.slice.arr > Len(h)
    /\ Contents(g.heap, g.slice) = Contents(h, s) \o own
    /\ \A t : OkSlice(h, t) => OkSlice(g.heap, t)
    /\ \A t : OkSlice(h, t) => Contents(g.heap, t) = Contents(h, t)

(* Inherit does so.                                                         *)
LEMMA InheritWrites ==
    ASSUME NEW V, 0 \in V, NEW h \in Seq(Seq(V)), NEW s, OkSlice(h, s), NEW own \in Seq(V)
    PROVE  Cloned(V, h, s, own, Inherit(h, s, own))
<1> DEFINE c == Clone(h, s)
           u == Contents(h, s)
           g == Inherit(h, s, own)
<1>1. OkSlice(h, NilSlice) /\ Contents(h, NilSlice) = <<>>
  BY DEF OkSlice, NilSlice, Slice, Room, Contents
<1>2. u \in Seq(V) /\ Len(h) \in Nat
  BY SliceFacts, Zenon
<1>3. c = GoAppend(h, NilSlice, u) /\ g = GoAppend(c.heap, c.slice, own)
  BY DEF Clone, Inherit
<1> HIDE DEF c, u, g
<1>4. Appended(V, h, NilSlice, u, c)
  BY <1>1, <1>2, <1>3, GoAppendWrites
<1>5. c.heap \in Seq(Seq(V)) /\ OkSlice(c.heap, c.slice) /\ Contents(c.heap, c.slice) = u
  BY <1>1, <1>2, <1>4, ConcatEmptySeq DEF Appended
<1>6. Appended(V, c.heap, c.slice, own, g)
  BY <1>3, <1>5, GoAppendWrites
<1>7. ASSUME NEW t, OkSlice(h, t)
      PROVE  Apart(NilSlice, t) /\ Apart(c.slice, t)
  <2>1. t.arr \in 0..Len(h) /\ t.len \in Nat /\ t.len <= Room(h, t)
    BY <1>7 DEF OkSlice, Slice
  <2>2. t.arr = 0 => t.len = 0
    BY <2>1 DEF Room
  <2>3. c.slice.len \in Nat /\ (c.slice.arr = 0 \/ c.slice.arr > Len(h))
    BY <1>4 DEF Appended, OkSlice, Slice, NilSlice
  <2> QED BY <1>2, <2>1, <2>2, <2>3 DEF Apart, NilSlice
<1>8. Len(g.heap) \in Nat /\ Len(c.heap) \in Nat
  BY <1>5, <1>6 DEF Appended
<1>9. g.slice.arr = 0 \/ g.slice.arr > Len(h)
  <2>1. g.slice.arr \in Nat /\ c.slice.arr \in Nat
    BY <1>5, <1>6 DEF Appended, OkSlice, Slice
  <2> QED BY <1>2, <1>4, <1>6, <1>8, <2>1 DEF Appended, NilSlice
<1>10. Cloned(V, h, s, own, g)
  BY <1>2, <1>4, <1>5, <1>6, <1>7, <1>8, <1>9 DEF Appended, Cloned, u
<1> QED BY <1>10 DEF g

-----------------------------------------------------------------------------
(* The inductive invariant. *)

Vals   == 0..MaxDecls
Router == [errors : Slice, headers : Slice, errs : Seq(Vals), hdrs : Seq(Vals)]
Route  == [allErrors : Slice, errLookup : SUBSET Vals, staticHeaders : Slice,
           errs : Seq(Vals), hdrs : Seq(Vals), own : Nat]

Typed ==
    /\ heap \in Seq(Seq(Vals))
    /\ routers \in Seq(Router) /\ Len(routers) >= 1
    /\ routes \in Seq(Route)
    /\ decls \in 0..MaxDecls

(* The slices of a router hold what was declared on it and above it.        *)
Lists ==
    \A i \in DOMAIN routers :
        /\ OkSlice(heap, routers[i].errors)  /\ Contents(heap, routers[i].errors) = routers[i].errs
        /\ OkSlice(heap, routers[i].headers) /\ Contents(heap, routers[i].headers) = routers[i].hdrs

Disjoint(s, t) == s.arr # t.arr \/ s.arr = 0

(* No two lists of the routers share an array.                              *)
Owned ==
    \A i, j \in DOMAIN routers :
        /\ Disjoint(routers[i].errors, routers[j].headers)
        /\ i # j => /\ Disjoint(routers[i].errors, routers[j].errors)
                    /\ Disjoint(routers[i].headers, routers[j].headers)

(* The part of a route's headers that it has from its router.               *)
Inherited(rt) == [arr |-> rt.staticHeaders.arr, len |-> Len(rt.hdrs) - rt.own]

CapturedBy(h, rt) ==
    /\ OkSlice(h, rt.allErrors) /\ OkSlice(h, rt.staticHeaders)
    /\ rt.errLookup = Range(rt.errs)
    /\ rt.staticHeaders.len = Len(rt.hdrs)
    /\ OkSlice(h, Inherited(rt))
    /\ Contents(h, Inherited(rt)) = SubSeq(rt.hdrs, 1, Len(rt.hdrs) - rt.own)

Captured == \A k \in DOMAIN routes : CapturedBy(heap, routes[k])

(* No append of a router reaches that part.                                 *)
Behind ==
    \A k \in DOMAIN routes, i \in DOMAIN routers :
        /\ Apart(routers[i].errors, Inherited(routes[k]))
        /\ Apart(routers[i].headers, Inherited(routes[k]))

RInv == Typed /\ Lists /\ Owned /\ Captured /\ Behind

-----------------------------------------------------------------------------
(* Slices that lie apart. *)

(* A slice with no array is empty.                                          *)
LEMMA NoArray ==
    ASSUME NEW h, NEW t, OkSlice(h, t), t.arr = 0
    PROVE  t.len = 0
BY DEF OkSlice, Slice, Room

(* Slices of different arrays are apart, and so are slices with none.       *)
LEMMA DisjointApart ==
    ASSUME NEW h, NEW s, NEW t, OkSlice(h, s), OkSlice(h, t), Disjoint(s, t)
    PROVE  Apart(s, t)
<1>1. CASE s.arr = t.arr
  <2>1. t.len = 0 /\ s.len \in Nat
    BY <1>1, NoArray DEF Disjoint, OkSlice, Slice
  <2> QED BY <2>1 DEF Apart
<1> QED BY <1>1 DEF Apart

(* A slice of an array made after h is apart from every slice of h.         *)
LEMMA NewApart ==
    ASSUME NEW V, NEW h \in Seq(V), NEW s, s.arr \in Nat, s.len \in Nat,
           s.arr = 0 \/ s.arr > Len(h), NEW t, OkSlice(h, t)
    PROVE  Apart(s, t) /\ Disjoint(s, t) /\ Disjoint(t, s)
<1>1. t.arr \in 0..Len(h) /\ Len(h) \in Nat
  BY DEF OkSlice
<1>2. CASE s.arr = t.arr
  <2>1. s.arr = 0 /\ t.arr = 0
    BY <1>1, <1>2
  <2>2. t.len = 0
    BY <2>1, NoArray
  <2> QED BY <2>1, <2>2 DEF Apart, Disjoint
<1> QED BY <1>2 DEF Apart, Disjoint

(* What a route captured is kept by a heap that keeps its inherited part.   *)
LEMMA CapturedKept ==
    ASSUME NEW h, NEW g, NEW rt, CapturedBy(h, rt),
           \A t : OkSlice(h, t) => OkSlice(g, t),
           Contents(g, Inherited(rt)) = Contents(h, Inherited(rt))
    PROVE  CapturedBy(g, rt)
BY DEF CapturedBy

-----------------------------------------------------------------------------
(* The invariant is inductive. *)

(* New declarations, within the bound.                                      *)
LEMMA FreshFacts ==
    ASSUME NEW k \in Nat, NEW m \in Nat, decls \in Nat, decls + k + m <= MaxDecls
    PROVE  Fresh(k, m) \in Seq(Vals) /\ Len(Fresh(k, m)) = m
<1>1. Fresh(k, m) \in [1..m -> Vals]
  BY RegistryAssumption DEF Fresh, Vals
<1> QED BY <1>1, FunctionIsSequence

(* The elements of a sequence are of its type.                              *)
LEMMA RangeFacts ==
    ASSUME NEW V, NEW q \in Seq(V)
    PROVE  Range(q) \subseteq V
BY DEF Range

(* A sequence with one element replaced.                                    *)
LEMMA ExceptFacts ==
    ASSUME NEW V, NEW q \in Seq(V), NEW i \in 1..Len(q), NEW x \in V
    PROVE  /\ [q EXCEPT ![i] = x] \in Seq(V) /\ Len([q EXCEPT ![i] = x]) = Len(q)
           /\ [q EXCEPT ![i] = x][i] = x
OBVIOUS

(* The first state: one router with empty lists.                            *)
LEMMA InitRInv == Init => RInv
<1> SUFFICES ASSUME Init PROVE RInv
  OBVIOUS
<1>1. /\ heap = <<>> /\ routes = <<>> /\ decls = 0
      /\ routers = <<[errors |-> NilSlice, headers |-> NilSlice, errs |-> <<>>, hdrs |-> <<>>]>>
  BY DEF Init
<1>2. OkSlice(heap, NilSlice) /\ Contents(heap, NilSlice) = <<>>
  BY <1>1 DEF OkSlice, NilSlice, Slice, Room, Contents
<1>3. NilSlice \in Slice /\ NilSlice.arr = 0 /\ <<>> \in Seq(Vals)
  BY DEF NilSlice, Slice
<1> HIDE DEF NilSlice
<1>4. Typed
  BY <1>1, <1>3, RegistryAssumption DEF Typed, Router
<1>5. DOMAIN routers = {1} /\ routers[1].errors = NilSlice /\ routers[1].headers = NilSlice
      /\ routers[1].errs = <<>> /\ routers[1].hdrs = <<>>
  BY <1>1
<1>6. Lists /\ Owned
  BY <1>2, <1>3, <1>5 DEF Lists, Owned, Disjoint
<1>7. DOMAIN routes = {}
  BY <1>1
<1>8. Captured /\ Behind
  BY <1>7 DEF Captured, Behind
<1> QED BY <1>4, <1>6, <1>8 DEF RInv

(* An option of New that declares an error.                                 *)
LEMMA AddErrorKeeps == RInv /\ addError => RInv'
<1> SUFFICES ASSUME RInv, addError PROVE RInv'
  OBVIOUS
<1> DEFINE s == routers[API].errors
           x == routers[API].headers
           f == Fresh(0, 1)
           a == GoAppend(heap, s, f)
<1>1. /\ Len(routers) = 1 /\ routes = <<>> /\ decls < MaxDecls
      /\ heap' = a.heap /\ decls' = decls + 1 /\ routes' = routes
      /\ routers' = [routers EXCEPT ![API] =
                        [errors |-> a.slice, headers |-> @.headers,
                         errs |-> @.errs \o f, hdrs |-> @.hdrs]]
  BY DEF addError
<1>2. Typed /\ Lists /\ Owned
  BY DEF RInv
<1>3. /\ heap \in Seq(Seq(Vals)) /\ routers \in Seq(Router) /\ decls \in Nat /\ 0 \in Vals
      /\ DOMAIN routers = {API} /\ routers[API] \in Router /\ Len(heap) \in Nat
  <2>1. heap \in Seq(Seq(Vals)) /\ routers \in Seq(Router) /\ decls \in Nat /\ 0 \in Vals
    BY <1>2, RegistryAssumption DEF Typed, Vals
  <2>2. DOMAIN routers = 1..1
    BY <1>1, <2>1
  <2>3. 1..1 = {API}
    BY DEF API
  <2>4. API \in 1..Len(routers)
    BY <1>1 DEF API
  <2>5. routers[API] \in Router /\ Len(heap) \in Nat
    BY <2>1, <2>4
  <2> QED BY <2>1, <2>2, <2>3, <2>5
<1>4. f \in Seq(Vals)
  <2>1. 0 \in Nat /\ 1 \in Nat /\ decls + 0 + 1 <= MaxDecls
    BY <1>1, <1>3, RegistryAssumption
  <2> QED BY <1>3, <2>1, FreshFacts
<1>5. /\ OkSlice(heap, s) /\ Contents(heap, s) = routers[API].errs
      /\ OkSlice(heap, x) /\ Contents(heap, x) = routers[API].hdrs /\ Disjoint(s, x)
  <2>1. API \in DOMAIN routers
    BY <1>3
  <2> QED BY <1>2, <2>1 DEF Lists, Owned
<1>6. Appended(Vals, heap, s, f, a)
  BY <1>3, <1>4, <1>5, GoAppendWrites
<1>7. Apart(s, x)
  BY <1>5, DisjointApart
<1> HIDE DEF a, f
<1>8. /\ DOMAIN routers' = {API} /\ Len(routers') = 1
      /\ routers'[API].errors = a.slice /\ routers'[API].errs = routers[API].errs \o f
      /\ routers'[API].headers = x /\ routers'[API].hdrs = routers[API].hdrs
      /\ routers' \in Seq(Router)
  <2>1. a.slice \in Slice
    BY <1>6 DEF Appended, OkSlice
  <2>2. routers[API].errs \o f \in Seq(Vals)
    BY <1>3, <1>4, ConcatProperties DEF Router
  <2> DEFINE q == [errors |-> a.slice, headers |-> x,
                  errs |-> routers[API].errs \o f, hdrs |-> routers[API].hdrs]
  <2>3. /\ q \in Router /\ q.errors = a.slice /\ q.errs = routers[API].errs \o f
        /\ q.headers = x /\ q.hdrs = routers[API].hdrs
    BY <1>3, <2>1, <2>2 DEF Router
  <2>4. routers' = [routers EXCEPT ![API] = q]
    BY <1>1
  <2>5. API \in 1..Len(routers)
    BY <1>1 DEF API
  <2> HIDE DEF q
  <2>6. routers' \in Seq(Router) /\ Len(routers') = Len(routers) /\ routers'[API] = q
    BY <1>3, <2>3, <2>4, <2>5, ExceptFacts
  <2> QED BY <1>1, <2>3, <2>6 DEF API
<1>9. Typed'
  <2>1. decls + 1 \in 0..MaxDecls /\ routes \in Seq(Route)
    BY <1>1, <1>2, <1>3, RegistryAssumption DEF Typed
  <2> QED BY <1>1, <1>6, <1>8, <2>1 DEF Typed, Appended
<1>10. Lists'
  <2>1. OkSlice(a.heap, a.slice) /\ Contents(a.heap, a.slice) = routers[API].errs \o f
    BY <1>5, <1>6 DEF Appended
  <2>2. OkSlice(a.heap, x) /\ Contents(a.heap, x) = routers[API].hdrs
    BY <1>5, <1>6, <1>7 DEF Appended
  <2> QED BY <1>1, <1>8, <2>1, <2>2 DEF Lists
<1>11. Disjoint(a.slice, x)
  <2>1. x.arr \in 0..Len(heap) /\ (a.slice.arr = s.arr \/ a.slice.arr > Len(heap))
        /\ a.slice.arr \in Nat
    BY <1>5, <1>6 DEF OkSlice, Appended, Slice
  <2> QED BY <1>3, <1>5, <2>1 DEF Disjoint
<1>12. Owned'
  BY <1>8, <1>11 DEF Owned
<1>13. DOMAIN routes' = {}
  BY <1>1
<1>14. Captured' /\ Behind'
  BY <1>13 DEF Captured, Behind
<1> QED BY <1>9, <1>10, <1>12, <1>14 DEF RInv
(* An option of New that declares a header.                                *)
LEMMA AddHeaderKeeps == RInv /\ addStaticResponseHeader => RInv'
<1> SUFFICES ASSUME RInv, addStaticResponseHeader PROVE RInv'
  OBVIOUS
<1> DEFINE s == routers[API].headers
           x == routers[API].errors
           f == Fresh(0, 1)
           a == GoAppend(heap, s, f)
<1>1. /\ Len(routers) = 1 /\ routes = <<>> /\ decls < MaxDecls
      /\ heap' = a.heap /\ decls' = decls + 1 /\ routes' = routes
      /\ routers' = [routers EXCEPT ![API] =
                        [errors |-> @.errors, headers |-> a.slice,
                         errs |-> @.errs, hdrs |-> @.hdrs \o f]]
  BY DEF addStaticResponseHeader
<1>2. Typed /\ Lists /\ Owned
  BY DEF RInv
<1>3. /\ heap \in Seq(Seq(Vals)) /\ routers \in Seq(Router) /\ decls \in Nat /\ 0 \in Vals
      /\ DOMAIN routers = {API} /\ routers[API] \in Router /\ Len(heap) \in Nat
  <2>1. heap \in Seq(Seq(Vals)) /\ routers \in Seq(Router) /\ decls \in Nat /\ 0 \in Vals
    BY <1>2, RegistryAssumption DEF Typed, Vals
  <2>2. DOMAIN routers = 1..1
    BY <1>1, <2>1
  <2>3. 1..1 = {API}
    BY DEF API
  <2>4. API \in 1..Len(routers)
    BY <1>1 DEF API
  <2>5. routers[API] \in Router /\ Len(heap) \in Nat
    BY <2>1, <2>4
  <2> QED BY <2>1, <2>2, <2>3, <2>5
<1>4. f \in Seq(Vals)
  <2>1. 0 \in Nat /\ 1 \in Nat /\ decls + 0 + 1 <= MaxDecls
    BY <1>1, <1>3, RegistryAssumption
  <2> QED BY <1>3, <2>1, FreshFacts
<1>5. /\ OkSlice(heap, s) /\ Contents(heap, s) = routers[API].hdrs
      /\ OkSlice(heap, x) /\ Contents(heap, x) = routers[API].errs /\ Disjoint(x, s)
  <2>1. API \in DOMAIN routers
    BY <1>3
  <2> QED BY <1>2, <2>1 DEF Lists, Owned
<1>6. Appended(Vals, heap, s, f, a)
  BY <1>3, <1>4, <1>5, GoAppendWrites
<1>7. Apart(s, x)
  <2>1. Disjoint(s, x)
    BY <1>5 DEF Disjoint
  <2> QED BY <1>5, <2>1, DisjointApart
<1> HIDE DEF a, f
<1>8. /\ DOMAIN routers' = {API} /\ Len(routers') = 1
      /\ routers'[API].headers = a.slice /\ routers'[API].hdrs = routers[API].hdrs \o f
      /\ routers'[API].errors = x /\ routers'[API].errs = routers[API].errs
      /\ routers' \in Seq(Router)
  <2>1. a.slice \in Slice
    BY <1>6 DEF Appended, OkSlice
  <2>2. routers[API].hdrs \o f \in Seq(Vals)
    BY <1>3, <1>4, ConcatProperties DEF Router
  <2> DEFINE q == [errors |-> x, headers |-> a.slice,
                  errs |-> routers[API].errs, hdrs |-> routers[API].hdrs \o f]
  <2>3. /\ q \in Router /\ q.headers = a.slice /\ q.hdrs = routers[API].hdrs \o f
        /\ q.errors = x /\ q.errs = routers[API].errs
    BY <1>3, <2>1, <2>2 DEF Router
  <2>4. routers' = [routers EXCEPT ![API] = q]
    BY <1>1
  <2>5. API \in 1..Len(routers)
    BY <1>1 DEF API
  <2> HIDE DEF q
  <2>6. routers' \in Seq(Router) /\ Len(routers') = Len(routers) /\ routers'[API] = q
    BY <1>3, <2>3, <2>4, <2>5, ExceptFacts
  <2> QED BY <1>1, <2>3, <2>6 DEF API
<1>9. Typed'
  <2>1. decls + 1 \in 0..MaxDecls /\ routes \in Seq(Route)
    BY <1>1, <1>2, <1>3, RegistryAssumption DEF Typed
  <2> QED BY <1>1, <1>6, <1>8, <2>1 DEF Typed, Appended
<1>10. Lists'
  <2>1. OkSlice(a.heap, a.slice) /\ Contents(a.heap, a.slice) = routers[API].hdrs \o f
    BY <1>5, <1>6 DEF Appended
  <2>2. OkSlice(a.heap, x) /\ Contents(a.heap, x) = routers[API].errs
    BY <1>5, <1>6, <1>7 DEF Appended
  <2> QED BY <1>1, <1>8, <2>1, <2>2 DEF Lists
<1>11. Disjoint(x, a.slice)
  <2>1. x.arr \in 0..Len(heap) /\ (a.slice.arr = s.arr \/ a.slice.arr > Len(heap))
        /\ a.slice.arr \in Nat
    BY <1>5, <1>6 DEF OkSlice, Appended, Slice
  <2> QED BY <1>3, <1>5, <2>1 DEF Disjoint
<1>12. Owned'
  BY <1>8, <1>11 DEF Owned
<1>13. DOMAIN routes' = {}
  BY <1>1
<1>14. Captured' /\ Behind'
  BY <1>13 DEF Captured, Behind
<1> QED BY <1>9, <1>10, <1>12, <1>14 DEF RInv

(* A registration appends twice: the errors, then the headers, which leaves *)
(* the errors of the route as they are.                                     *)
LEMMA RouteAppends ==
    ASSUME RInv, NEW r \in DOMAIN routers, NEW m \in 0..MaxPerRoute, NEW n \in 0..MaxPerRoute,
           prepareRoute(r, m, n)
    PROVE  LET s == routers[r].errors
               x == routers[r].headers
               f == Fresh(0, m)
               k == Fresh(m, n)
               e == GoAppend(heap, s, f)
               h == GoAppend(e.heap, x, k)
           IN  /\ f \in Seq(Vals) /\ k \in Seq(Vals) /\ Len(k) = n
               /\ Appended(Vals, heap, s, f, e) /\ Appended(Vals, e.heap, x, k, h)
               /\ OkSlice(e.heap, x) /\ Contents(e.heap, x) = routers[r].hdrs
               /\ Contents(h.heap, e.slice) = Contents(e.heap, e.slice)
<1> DEFINE s == routers[r].errors
           x == routers[r].headers
           f == Fresh(0, m)
           k == Fresh(m, n)
           e == GoAppend(heap, s, f)
           h == GoAppend(e.heap, x, k)
<1>1. decls + m + n <= MaxDecls
  BY DEF prepareRoute
<1>2. Typed /\ Lists /\ Owned
  BY DEF RInv
<1>3. /\ heap \in Seq(Seq(Vals)) /\ decls \in Nat /\ 0 \in Vals /\ m \in Nat /\ n \in Nat
      /\ Len(heap) \in Nat
  BY <1>2, RegistryAssumption DEF Typed, Vals
<1>4. f \in Seq(Vals) /\ k \in Seq(Vals) /\ Len(k) = n
  <2>1. decls + 0 + m <= MaxDecls /\ 0 \in Nat
    BY <1>1, <1>3, RegistryAssumption
  <2>2. f \in Seq(Vals)
    BY <1>3, <2>1, FreshFacts
  <2> QED BY <1>1, <1>3, <2>2, FreshFacts
<1>5. /\ OkSlice(heap, s) /\ OkSlice(heap, x) /\ Contents(heap, x) = routers[r].hdrs
      /\ Disjoint(s, x)
  BY <1>2 DEF Lists, Owned
<1>6. Appended(Vals, heap, s, f, e)
  BY <1>3, <1>4, <1>5, GoAppendWrites
<1>7. Apart(s, x)
  BY <1>5, DisjointApart
<1>8. e.heap \in Seq(Seq(Vals)) /\ OkSlice(e.heap, x) /\ Contents(e.heap, x) = routers[r].hdrs
  BY <1>5, <1>6, <1>7 DEF Appended
<1>9. Appended(Vals, e.heap, x, k, h)
  BY <1>3, <1>4, <1>8, GoAppendWrites
<1> HIDE DEF e, h, f, k
<1>10. Disjoint(x, e.slice)
  <2>1. x.arr \in 0..Len(heap) /\ (e.slice.arr = s.arr \/ e.slice.arr > Len(heap))
        /\ e.slice.arr \in Nat
    BY <1>5, <1>6 DEF OkSlice, Appended, Slice
  <2> QED BY <1>3, <1>5, <2>1 DEF Disjoint
<1>11. Contents(h.heap, e.slice) = Contents(e.heap, e.slice)
  <2>1. OkSlice(e.heap, e.slice)
    BY <1>6 DEF Appended
  <2>2. Apart(x, e.slice)
    BY <1>8, <1>10, <2>1, DisjointApart
  <2> QED BY <1>9, <2>1, <2>2 DEF Appended
<1> QED BY <1>4, <1>6, <1>8, <1>9, <1>11 DEF e, h, f, k

(* What registration captured for the new route is what was declared.       *)
LEMMA RouteCaptures ==
    ASSUME RInv, NEW r \in DOMAIN routers, NEW m \in 0..MaxPerRoute, NEW n \in 0..MaxPerRoute,
           prepareRoute(r, m, n)
    PROVE  LET rt == routes'[Len(routes) + 1]
           IN  /\ Contents(heap', rt.allErrors) = rt.errs
               /\ Contents(heap', rt.staticHeaders) = rt.hdrs
               /\ rt.errLookup = Range(rt.errs)
               /\ rt.allErrors.len \in Nat
               /\ Len(routes) \in Nat /\ Len(routes') = Len(routes) + 1
               /\ \A j \in 1..Len(routes) : routes'[j] = routes[j]
<1> DEFINE s  == routers[r].errors
           x  == routers[r].headers
           f  == Fresh(0, m)
           k  == Fresh(m, n)
           e  == GoAppend(heap, s, f)
           h  == GoAppend(e.heap, x, k)
           rt == [allErrors |-> e.slice, errLookup |-> Range(Contents(e.heap, e.slice)),
                  staticHeaders |-> h.slice, errs |-> routers[r].errs \o f,
                  hdrs |-> routers[r].hdrs \o k, own |-> n]
<1>1. heap' = h.heap /\ routes' = Append(routes, rt)
  BY DEF prepareRoute
<1>2. routes \in Seq(Route)
  BY DEF RInv, Typed
<1>3. Contents(heap, s) = routers[r].errs
  BY DEF RInv, Lists
<1>4. /\ Appended(Vals, heap, s, f, e) /\ Appended(Vals, e.heap, x, k, h)
      /\ Contents(e.heap, x) = routers[r].hdrs
      /\ Contents(h.heap, e.slice) = Contents(e.heap, e.slice)
  BY RouteAppends
<1>5. /\ rt.allErrors = e.slice /\ rt.staticHeaders = h.slice
      /\ rt.errLookup = Range(Contents(e.heap, e.slice))
      /\ rt.errs = routers[r].errs \o f /\ rt.hdrs = routers[r].hdrs \o k
  OBVIOUS
<1> HIDE DEF e, h, f, k, rt
<1>6. /\ Contents(e.heap, e.slice) = routers[r].errs \o f
      /\ Contents(h.heap, h.slice) = routers[r].hdrs \o k
      /\ e.slice.len \in Nat
  BY <1>3, <1>4 DEF Appended, OkSlice, Slice
<1>7. /\ routes'[Len(routes) + 1] = rt /\ Len(routes) \in Nat /\ Len(routes') = Len(routes) + 1
      /\ \A j \in 1..Len(routes) : routes'[j] = routes[j]
  BY <1>1, <1>2
<1> QED BY <1>1, <1>4, <1>5, <1>6, <1>7

(* A route: its declarations go behind those of its router, or elsewhere.   *)
LEMMA RouteKeeps ==
    ASSUME RInv, NEW r \in DOMAIN routers, NEW m \in 0..MaxPerRoute, NEW n \in 0..MaxPerRoute,
           prepareRoute(r, m, n)
    PROVE  RInv'
<1> DEFINE s  == routers[r].errors
           x  == routers[r].headers
           f  == Fresh(0, m)
           k  == Fresh(m, n)
           e  == GoAppend(heap, s, f)
           h  == GoAppend(e.heap, x, k)
           rt == [allErrors |-> e.slice, errLookup |-> Range(Contents(e.heap, e.slice)),
                  staticHeaders |-> h.slice, errs |-> routers[r].errs \o f,
                  hdrs |-> routers[r].hdrs \o k, own |-> n]
<1>1. /\ decls + m + n <= MaxDecls /\ heap' = h.heap /\ routes' = Append(routes, rt)
      /\ decls' = decls + m + n /\ routers' = routers
  BY DEF prepareRoute
<1>2. Typed /\ Lists /\ Owned /\ Captured /\ Behind
  BY DEF RInv
<1>3. /\ heap \in Seq(Seq(Vals)) /\ routers \in Seq(Router) /\ routes \in Seq(Route)
      /\ decls \in Nat /\ 0 \in Vals /\ m \in Nat /\ n \in Nat
      /\ routers[r] \in Router /\ Len(heap) \in Nat
  BY <1>2, RegistryAssumption DEF Typed, Vals
<1>4. f \in Seq(Vals) /\ k \in Seq(Vals) /\ Len(k) = n
  BY RouteAppends
<1>5. /\ OkSlice(heap, s) /\ Contents(heap, s) = routers[r].errs
      /\ OkSlice(heap, x) /\ Contents(heap, x) = routers[r].hdrs
  BY <1>2 DEF Lists
<1>6. Disjoint(s, x) /\ Disjoint(x, s) /\ Apart(s, x)
  <2>1. Disjoint(s, x)
    BY <1>2 DEF Owned
  <2>2. Disjoint(x, s)
    BY <2>1 DEF Disjoint
  <2> QED BY <1>5, <2>1, <2>2, DisjointApart
<1>7. Appended(Vals, heap, s, f, e)
  BY RouteAppends
<1>8. e.heap \in Seq(Seq(Vals)) /\ OkSlice(e.heap, x) /\ Contents(e.heap, x) = routers[r].hdrs
  BY <1>7, RouteAppends DEF Appended
<1>9. Appended(Vals, e.heap, x, k, h)
  BY RouteAppends
<1>10. /\ Contents(e.heap, e.slice) = routers[r].errs \o f
       /\ Contents(h.heap, h.slice) = routers[r].hdrs \o k
       /\ OkSlice(e.heap, e.slice) /\ OkSlice(h.heap, e.slice) /\ OkSlice(h.heap, h.slice)
       /\ h.heap \in Seq(Seq(Vals))
  BY <1>5, <1>7, <1>8, <1>9 DEF Appended
<1>11. /\ rt.allErrors = e.slice /\ rt.errLookup = Range(routers[r].errs \o f)
       /\ rt.staticHeaders = h.slice /\ rt.errs = routers[r].errs \o f
       /\ rt.hdrs = routers[r].hdrs \o k /\ rt.own = n
  BY <1>10
<1>12. rt \in Route
  <2>1. routers[r].errs \o f \in Seq(Vals) /\ routers[r].hdrs \o k \in Seq(Vals)
    BY <1>3, <1>4, ConcatProperties DEF Router
  <2>2. e.slice \in Slice /\ h.slice \in Slice
    BY <1>10 DEF OkSlice
  <2>3. Range(Contents(e.heap, e.slice)) \in SUBSET Vals
    <3>1. Contents(e.heap, e.slice) \in Seq(Vals)
      BY <1>10, <2>1
    <3> HIDE DEF e
    <3> QED BY <3>1, RangeFacts
  <2> HIDE DEF e, h, f, k
  <2> QED BY <1>3, <2>1, <2>2, <2>3 DEF Route
<1> HIDE DEF f, k, e, h, rt
<1>13. \A t : OkSlice(heap, t) => OkSlice(heap', t)
  BY <1>1, <1>7, <1>9 DEF Appended
<1>14. \A t : OkSlice(heap, t) /\ Apart(s, t) /\ Apart(x, t) => Contents(heap', t) = Contents(heap, t)
  BY <1>1, <1>7, <1>9 DEF Appended
<1>15. Typed'
  <2>1. Append(routes, rt) \in Seq(Route)
    BY <1>3, <1>12
  <2>2. decls + m + n \in 0..MaxDecls
    BY <1>1, <1>3, RegistryAssumption
  <2> QED BY <1>1, <1>2, <1>10, <2>1, <2>2 DEF Typed
<1>16. Lists'
  <2>1. ASSUME NEW i \in DOMAIN routers
        PROVE  /\ OkSlice(heap, routers[i].errors) /\ OkSlice(heap, routers[i].headers)
               /\ Apart(s, routers[i].errors) /\ Apart(x, routers[i].errors)
               /\ Apart(s, routers[i].headers) /\ Apart(x, routers[i].headers)
    <3>1. OkSlice(heap, routers[i].errors) /\ OkSlice(heap, routers[i].headers)
      BY <1>2, <2>1 DEF Lists
    <3>2. Disjoint(s, routers[i].headers) /\ Disjoint(x, routers[i].errors)
      BY <1>2, <2>1 DEF Owned, Disjoint
    <3>3. CASE i = r
      <4>1. Apart(s, s) /\ Apart(x, x)
        BY <1>5 DEF Apart, OkSlice, Slice
      <4> QED BY <1>5, <3>1, <3>2, <3>3, <4>1, DisjointApart
    <3>4. CASE i # r
      <4>1. Disjoint(s, routers[i].errors) /\ Disjoint(x, routers[i].headers)
        BY <1>2, <2>1, <3>4 DEF Owned
      <4> QED BY <1>5, <3>1, <3>2, <4>1, DisjointApart
    <3> QED BY <3>3, <3>4
  <2> QED BY <1>1, <1>2, <1>13, <1>14, <2>1 DEF Lists
<1>17. Owned'
  BY <1>1, <1>2 DEF Owned
<1>18. ASSUME NEW j \in DOMAIN routes
       PROVE  CapturedBy(heap', routes[j])
  <2>1. CapturedBy(heap, routes[j])
    BY <1>2, <1>18 DEF Captured
  <2>2. Apart(s, Inherited(routes[j])) /\ Apart(x, Inherited(routes[j]))
    BY <1>2, <1>18 DEF Behind
  <2>3. Contents(heap', Inherited(routes[j])) = Contents(heap, Inherited(routes[j]))
    BY <1>14, <2>1, <2>2 DEF CapturedBy
  <2> QED BY <1>13, <2>1, <2>3, CapturedKept
<1>19. /\ x.len \in Nat /\ Len(routers[r].hdrs) = x.len /\ routers[r].hdrs \in Seq(Vals)
       /\ Len(rt.hdrs) = x.len + n /\ rt.hdrs \in Seq(Vals) /\ Len(rt.hdrs) - rt.own = x.len
       /\ Inherited(rt) = [arr |-> h.slice.arr, len |-> x.len]
       /\ h.slice.len = x.len + n
  <2>1. Len(Contents(heap, x)) = x.len /\ x.len \in Nat
    BY <1>3, <1>5, SliceFacts
  <2>2. routers[r].hdrs \in Seq(Vals)
    BY <1>3 DEF Router
  <2>3. Len(rt.hdrs) = Len(routers[r].hdrs) + Len(k) /\ rt.hdrs \in Seq(Vals)
    <3>1. k \in Seq(Vals) /\ rt.hdrs = routers[r].hdrs \o k
      BY <1>4, <1>11
    <3> QED BY <2>2, <3>1, ConcatProperties, Zenon
  <2>4. Len(rt.hdrs) = x.len + n /\ Len(rt.hdrs) - rt.own = x.len
    BY <1>3, <1>4, <1>5, <1>11, <2>1, <2>3
  <2>5. h.slice.len = x.len + n
    BY <1>4, <1>9 DEF Appended
  <2> QED BY <1>5, <1>11, <2>1, <2>2, <2>3, <2>4, <2>5 DEF Inherited
<1>20. CapturedBy(heap', rt)
  <2>1. OkSlice(heap', Inherited(rt))
    <3> DEFINE t == h.slice
               u == Inherited(rt)
    <3>1. /\ t \in Slice /\ t.arr \in 0..Len(heap') /\ t.len <= Room(heap', t)
          /\ Room(heap', t) \in Nat /\ t.arr \in Nat
      <4>1. OkSlice(heap', t) /\ heap' \in Seq(Seq(Vals))
        BY <1>1, <1>10
      <4> QED BY <4>1, SliceFacts DEF OkSlice, Slice
    <3>2. u \in Slice /\ u.arr = t.arr /\ u.len = x.len /\ t.len = x.len + n
      BY <1>19, <3>1 DEF Slice
    <3>3. Room(heap', u) = Room(heap', t)
      BY <3>2 DEF Room
    <3> HIDE DEF t, u
    <3>4. u.len <= Room(heap', u)
      <4>1. u.len \in Nat /\ n \in Nat /\ t.len = u.len + n
        BY <1>3, <1>19, <3>2
      <4> QED BY <3>1, <3>3, <4>1
    <3>5. OkSlice(heap', u)
      BY <3>1, <3>2, <3>4 DEF OkSlice
    <3> QED BY <3>5 DEF u
  <2>2. Contents(heap', Inherited(rt)) = SubSeq(rt.hdrs, 1, x.len)
    <3> DEFINE c == Contents(heap', h.slice)
    <3>1. \A i \in 1..x.len : i \in 1..(x.len + n)
      BY <1>3, <1>19
    <3>2. \A i \in 1..x.len : c[i] = heap'[h.slice.arr][i]
      BY <1>19, <3>1 DEF Contents
    <3>3. c = rt.hdrs
      BY <1>1, <1>10, <1>11
    <3>4. Contents(heap', Inherited(rt)) = [i \in 1..x.len |-> heap'[h.slice.arr][i]]
      BY <1>19 DEF Contents
    <3> HIDE DEF c
    <3>5. SubSeq(rt.hdrs, 1, x.len) = [i \in 1..x.len |-> rt.hdrs[i]]
      BY <1>3, <1>19
    <3> QED BY <3>2, <3>3, <3>4, <3>5
  <2> QED BY <1>1, <1>3, <1>10, <1>11, <1>19, <2>1, <2>2 DEF CapturedBy
<1>21. /\ DOMAIN routes' = DOMAIN routes \cup {Len(routes) + 1}
       /\ \A j \in DOMAIN routes : routes'[j] = routes[j]
       /\ routes'[Len(routes) + 1] = rt
  BY <1>1, <1>3
<1>22. Captured'
  BY <1>18, <1>20, <1>21 DEF Captured
<1>23. ASSUME NEW i \in DOMAIN routers
       PROVE  Apart(routers[i].errors, Inherited(rt)) /\ Apart(routers[i].headers, Inherited(rt))
  <2> DEFINE t == Inherited(rt)
             a == routers[i].errors
             b == routers[i].headers
  <2>1. t.arr = h.slice.arr /\ t.len = x.len
    BY <1>19
  <2>2. /\ OkSlice(heap, a) /\ OkSlice(heap, b)
        /\ a.arr \in 0..Len(heap) /\ b.arr \in 0..Len(heap)
    BY <1>2, <1>23 DEF Lists, OkSlice
  <2> HIDE DEF t
  <2>3. CASE h.slice.arr > Len(e.heap)
    <3>1. Len(e.heap) \in Nat /\ Len(e.heap) >= Len(heap) /\ h.slice.arr \in Nat
      BY <1>7, <1>8, <1>10 DEF Appended, OkSlice, Slice
    <3>2. a.arr # t.arr /\ b.arr # t.arr
      BY <1>3, <2>1, <2>2, <2>3, <3>1, SMTT(30)
    <3> QED BY <3>2 DEF Apart, t
  <2>4. CASE h.slice.arr = x.arr
    <3>1. Apart(a, x)
      <4>1. Disjoint(a, x)
        BY <1>2, <1>23 DEF Owned
      <4> QED BY <1>5, <2>2, <4>1, DisjointApart
    <3>2. Apart(b, x)
      <4>1. CASE i = r
        BY <1>19, <4>1 DEF Apart
      <4>2. CASE i # r
        <5>1. Disjoint(b, x)
          BY <1>2, <1>23, <4>2 DEF Owned
        <5> QED BY <1>5, <2>2, <5>1, DisjointApart
      <4> QED BY <4>1, <4>2
    <3> QED BY <2>1, <2>4, <3>1, <3>2 DEF Apart, t
  <2> QED BY <1>9, <2>3, <2>4 DEF Appended, t
<1>24. Behind'
  BY <1>1, <1>2, <1>21, <1>23 DEF Behind
<1> QED BY <1>15, <1>16, <1>17, <1>22, <1>24 DEF RInv

(* A group: its lists start as clones, so none of its arrays is anyone's.   *)
LEMMA GroupKeeps ==
    ASSUME RInv, NEW r \in DOMAIN routers, NEW m \in 0..MaxPerRoute, NEW n \in 0..MaxPerRoute,
           Group(r, m, n)
    PROVE  RInv'
<1> DEFINE s  == routers[r].errors
           x  == routers[r].headers
           f  == Fresh(0, m)
           k  == Fresh(m, n)
           e  == Inherit(heap, s, f)
           h  == Inherit(e.heap, x, k)
           gr == [errors |-> e.slice, headers |-> h.slice,
                  errs |-> routers[r].errs \o f, hdrs |-> routers[r].hdrs \o k]
           l  == Len(routers) + 1
<1>1. /\ decls + m + n <= MaxDecls /\ heap' = h.heap /\ routers' = Append(routers, gr)
      /\ decls' = decls + m + n /\ routes' = routes
  BY DEF Group
<1>2. Typed /\ Lists /\ Owned /\ Captured /\ Behind
  BY DEF RInv
<1>3. /\ heap \in Seq(Seq(Vals)) /\ routers \in Seq(Router) /\ routes \in Seq(Route)
      /\ decls \in Nat /\ 0 \in Vals /\ m \in Nat /\ n \in Nat
      /\ routers[r] \in Router /\ Len(heap) \in Nat
  BY <1>2, RegistryAssumption DEF Typed, Vals
<1>4. f \in Seq(Vals) /\ k \in Seq(Vals)
  <2>1. decls + 0 + m <= MaxDecls /\ 0 \in Nat
    BY <1>1, <1>3, RegistryAssumption
  <2>2. f \in Seq(Vals)
    BY <1>3, <2>1, FreshFacts
  <2> QED BY <1>1, <1>3, <2>2, FreshFacts
<1>5. /\ OkSlice(heap, s) /\ Contents(heap, s) = routers[r].errs
      /\ OkSlice(heap, x) /\ Contents(heap, x) = routers[r].hdrs
  BY <1>2 DEF Lists
<1>6. Cloned(Vals, heap, s, f, e)
  BY <1>3, <1>4, <1>5, InheritWrites
<1>7. /\ e.heap \in Seq(Seq(Vals)) /\ OkSlice(e.heap, e.slice)
      /\ OkSlice(e.heap, x) /\ Contents(e.heap, x) = routers[r].hdrs
  BY <1>5, <1>6 DEF Cloned
<1>8. Cloned(Vals, e.heap, x, k, h)
  BY <1>3, <1>4, <1>7, InheritWrites
<1>9. /\ Contents(h.heap, e.slice) = routers[r].errs \o f
      /\ Contents(h.heap, h.slice) = routers[r].hdrs \o k
      /\ OkSlice(h.heap, e.slice) /\ OkSlice(h.heap, h.slice)
      /\ h.heap \in Seq(Seq(Vals))
  BY <1>5, <1>6, <1>7, <1>8 DEF Cloned
<1>10. /\ gr.errors = e.slice /\ gr.errs = routers[r].errs \o f
       /\ gr.headers = h.slice /\ gr.hdrs = routers[r].hdrs \o k
  OBVIOUS
<1>11. gr \in Router
  <2>1. routers[r].errs \o f \in Seq(Vals) /\ routers[r].hdrs \o k \in Seq(Vals)
    BY <1>3, <1>4, ConcatProperties DEF Router
  <2>2. e.slice \in Slice /\ h.slice \in Slice
    BY <1>9 DEF OkSlice
  <2> HIDE DEF e, h, f, k
  <2> QED BY <2>1, <2>2 DEF Router
<1> HIDE DEF f, k, e, h, gr
<1>12. \A t : OkSlice(heap, t) => OkSlice(heap', t) /\ Contents(heap', t) = Contents(heap, t)
  BY <1>1, <1>6, <1>8 DEF Cloned
<1>13. Typed'
  <2>1. Append(routers, gr) \in Seq(Router) /\ Len(Append(routers, gr)) >= 1
    BY <1>3, <1>11
  <2>2. decls + m + n \in 0..MaxDecls
    BY <1>1, <1>3, RegistryAssumption
  <2> QED BY <1>1, <1>2, <1>9, <2>1, <2>2 DEF Typed
<1>14. /\ DOMAIN routers' = DOMAIN routers \cup {l}
       /\ \A i \in DOMAIN routers : routers'[i] = routers[i] /\ i # l
       /\ routers'[l] = gr
  BY <1>1, <1>3
<1> HIDE DEF l
<1>15. Lists'
  <2>1. \A i \in DOMAIN routers :
           /\ OkSlice(heap', routers[i].errors)
           /\ Contents(heap', routers[i].errors) = routers[i].errs
           /\ OkSlice(heap', routers[i].headers)
           /\ Contents(heap', routers[i].headers) = routers[i].hdrs
    BY <1>2, <1>12 DEF Lists
  <2>2. /\ OkSlice(heap', gr.errors) /\ Contents(heap', gr.errors) = gr.errs
        /\ OkSlice(heap', gr.headers) /\ Contents(heap', gr.headers) = gr.hdrs
    BY <1>1, <1>9, <1>10
  <2> QED BY <1>14, <2>1, <2>2 DEF Lists
<1>16. /\ gr.errors.arr \in Nat /\ gr.errors.len \in Nat
       /\ gr.errors.arr = 0 \/ gr.errors.arr > Len(heap)
       /\ gr.headers.arr \in Nat /\ gr.headers.len \in Nat
       /\ gr.headers.arr = 0 \/ gr.headers.arr > Len(heap)
  <2>1. Len(e.heap) \in Nat /\ Len(e.heap) >= Len(heap) /\ h.slice.arr \in Nat
    BY <1>6, <1>7, <1>9 DEF Cloned, OkSlice, Slice
  <2>2. h.slice.arr = 0 \/ h.slice.arr > Len(heap)
    BY <1>3, <1>8, <2>1 DEF Cloned
  <2> QED BY <1>6, <1>9, <1>10, <2>2 DEF Cloned, OkSlice, Slice
<1>17. \A t : OkSlice(heap, t) =>
          /\ Apart(gr.errors, t) /\ Disjoint(gr.errors, t) /\ Disjoint(t, gr.errors)
          /\ Apart(gr.headers, t) /\ Disjoint(gr.headers, t) /\ Disjoint(t, gr.headers)
  BY <1>3, <1>16, NewApart
<1>18. Disjoint(gr.errors, gr.headers)
  <2>1. OkSlice(e.heap, gr.errors)
    BY <1>7, <1>10
  <2>2. gr.headers.arr = 0 \/ gr.headers.arr > Len(e.heap)
    BY <1>8, <1>10 DEF Cloned
  <2> QED BY <1>7, <1>16, <2>1, <2>2, NewApart
<1>19. Owned'
  <2>1. \A i \in DOMAIN routers :
           OkSlice(heap, routers[i].errors) /\ OkSlice(heap, routers[i].headers)
    BY <1>2 DEF Lists
  <2> SUFFICES ASSUME NEW i \in DOMAIN routers', NEW j \in DOMAIN routers'
               PROVE  /\ Disjoint(routers'[i].errors, routers'[j].headers)
                      /\ i # j => /\ Disjoint(routers'[i].errors, routers'[j].errors)
                                  /\ Disjoint(routers'[i].headers, routers'[j].headers)
    BY DEF Owned
  <2>2. CASE i \in DOMAIN routers /\ j \in DOMAIN routers
    BY <1>2, <1>14, <2>2 DEF Owned
  <2>3. CASE i \in DOMAIN routers /\ j = l
    BY <1>14, <1>17, <2>1, <2>3
  <2>4. CASE i = l /\ j \in DOMAIN routers
    BY <1>14, <1>17, <2>1, <2>4
  <2>5. CASE i = l /\ j = l
    BY <1>14, <1>18, <2>5
  <2> QED BY <1>14, <2>2, <2>3, <2>4, <2>5
<1>20. ASSUME NEW j \in DOMAIN routes
       PROVE  CapturedBy(heap', routes[j])
  <2>1. CapturedBy(heap, routes[j])
    BY <1>2, <1>20 DEF Captured
  <2>2. Contents(heap', Inherited(routes[j])) = Contents(heap, Inherited(routes[j]))
    BY <1>12, <2>1 DEF CapturedBy
  <2> QED BY <1>12, <2>1, <2>2, CapturedKept
<1>21. Captured'
  BY <1>1, <1>20 DEF Captured
<1>22. Behind'
  <2>1. \A j \in DOMAIN routes : OkSlice(heap, Inherited(routes[j]))
    BY <1>2 DEF Captured, CapturedBy
  <2>2. \A j \in DOMAIN routes, i \in DOMAIN routers' :
           /\ Apart(routers'[i].errors, Inherited(routes[j]))
           /\ Apart(routers'[i].headers, Inherited(routes[j]))
    BY <1>2, <1>14, <1>17, <2>1 DEF Behind
  <2> QED BY <1>1, <2>2 DEF Behind
<1> QED BY <1>13, <1>15, <1>19, <1>21, <1>22 DEF RInv

(* Every step keeps the invariant.                                          *)
LEMMA NextKeeps == RInv /\ [Next]_vars => RInv'
<1> SUFFICES ASSUME RInv, [Next]_vars PROVE RInv'
  OBVIOUS
<1>1. CASE addError
  BY <1>1, AddErrorKeeps
<1>2. CASE addStaticResponseHeader
  BY <1>2, AddHeaderKeeps
<1>3. ASSUME NEW r \in DOMAIN routers, NEW m \in 0..MaxPerRoute, NEW n \in 0..MaxPerRoute,
             Group(r, m, n)
      PROVE  RInv'
  BY <1>3, GroupKeeps
<1>4. ASSUME NEW r \in DOMAIN routers, NEW m \in 0..MaxPerRoute, NEW n \in 0..MaxPerRoute,
             prepareRoute(r, m, n)
      PROVE  RInv'
  BY <1>4, RouteKeeps
<1>5. CASE UNCHANGED vars
  BY <1>5 DEF vars, RInv, Typed, Lists, Owned, Captured, Behind
<1> QED BY <1>1, <1>2, <1>3, <1>4, <1>5 DEF Next

(* The invariant holds in every reachable state.                            *)
THEOREM SpecRInv == Spec => []RInv
BY InitRInv, NextKeeps, PTL DEF Spec

-----------------------------------------------------------------------------
(* The properties of RouteRegistry. *)

(* Slices lie in the heap, and each router owns its arrays.                 *)
THEOREM SpecTypeOK == Spec => []TypeOK
<1>1. RInv => TypeOK
  <2> SUFFICES ASSUME RInv PROVE TypeOK
    OBVIOUS
  <2>1. Typed /\ Lists /\ Owned /\ Captured
    BY DEF RInv
  <2>2. \A r \in Range(routers) : SliceOK(r.errors) /\ SliceOK(r.headers)
    BY <2>1 DEF Lists, Range, SliceOK, OkSlice
  <2>3. \A r \in Range(routes) : SliceOK(r.allErrors) /\ SliceOK(r.staticHeaders)
    BY <2>1 DEF Captured, CapturedBy, Range, SliceOK, OkSlice
  <2>4. ASSUME NEW i \in DOMAIN routers, NEW j \in DOMAIN routers, i # j
        PROVE  Arrays(routers[i]) \cap Arrays(routers[j]) = {}
    <3>1. /\ Disjoint(routers[i].errors, routers[j].errors)
          /\ Disjoint(routers[i].headers, routers[j].headers)
          /\ Disjoint(routers[i].errors, routers[j].headers)
          /\ Disjoint(routers[j].errors, routers[i].headers)
      BY <2>1, <2>4 DEF Owned
    <3> QED BY <3>1 DEF Disjoint, Arrays, NilSlice
  <2> QED BY <2>1, <2>2, <2>3, <2>4 DEF TypeOK, Typed, Vals
<1> QED BY <1>1, SpecRInv, PTL

(* What the API and its groups declare never changes.                       *)
THEOREM SpecRouterListsStable == Spec => []RouterListsStable
<1>1. RInv => RouterListsStable
  BY DEF RInv, Lists, RouterListsStable, Range
<1> QED BY <1>1, SpecRInv, PTL

(* A route knows exactly the errors declared on it and above it.            *)
THEOREM SpecErrorsApplyToTheirRoute == Spec => []ErrorsApplyToTheirRoute
<1>1. RInv => ErrorsApplyToTheirRoute
  BY DEF RInv, Captured, CapturedBy, ErrorsApplyToTheirRoute, KnownErrors, Range
<1> QED BY <1>1, SpecRInv, PTL

(* Whatever is registered later, the inherited headers of a route stay.     *)
THEOREM SpecInheritedHeadersFirst == Spec => []InheritedHeadersFirst
<1>1. RInv => InheritedHeadersFirst
  <2> SUFFICES ASSUME RInv, NEW j \in DOMAIN routes
               PROVE  LET rt == routes[j]
                          k  == Len(rt.hdrs) - rt.own
                      IN  /\ Len(ResponseHeaders(rt)) = Len(rt.hdrs)
                          /\ SubSeq(ResponseHeaders(rt), 1, k) = SubSeq(rt.hdrs, 1, k)
    BY DEF InheritedHeadersFirst, Range
  <2> DEFINE rt == routes[j]
             t  == rt.staticHeaders
             k  == Len(rt.hdrs) - rt.own
             c  == Contents(heap, t)
  <2>1. CapturedBy(heap, rt) /\ heap \in Seq(Seq(Vals))
    BY DEF RInv, Captured, Typed
  <2>2. c \in Seq(Vals) /\ Len(c) = t.len /\ t.len = Len(rt.hdrs)
    BY <2>1, SliceFacts DEF CapturedBy
  <2>3. k \in Nat /\ k <= t.len
    <3>1. Inherited(rt) \in Slice
      BY <2>1 DEF CapturedBy, OkSlice
    <3>2. rt.own \in Nat /\ Len(rt.hdrs) \in Nat
      <4>1. routes[j] \in Route
        BY DEF RInv, Typed
      <4>2. rt.own \in Nat /\ rt.hdrs \in Seq(Vals)
        BY <4>1 DEF Route
      <4> HIDE DEF rt
      <4> QED BY <4>2
    <3> QED BY <2>2, <3>1, <3>2 DEF Inherited, Slice
  <2>4. Contents(heap, Inherited(rt)) = [i \in 1..k |-> heap[t.arr][i]]
    BY DEF Contents, Inherited
  <2>5. \A i \in 1..k : c[i] = heap[t.arr][i]
    BY <2>2, <2>3 DEF Contents
  <2>6. Contents(heap, Inherited(rt)) = SubSeq(rt.hdrs, 1, k)
    BY <2>1 DEF CapturedBy
  <2> HIDE DEF c, k, t, rt
  <2>7. SubSeq(c, 1, k) = [i \in 1..k |-> c[i]]
    BY <2>2, <2>3
  <2>8. SubSeq(c, 1, k) = SubSeq(rt.hdrs, 1, k)
    BY <2>4, <2>5, <2>6, <2>7
  <2> QED BY <2>2, <2>8 DEF ResponseHeaders, c, k, t, rt
<1> QED BY <1>1, SpecRInv, PTL
=============================================================================
