---------------------------- MODULE RouteRegistry ----------------------------
(***************************************************************************)
(* Registration of routes (handlerFuncs.go, group.go, router.go): what the *)
(* API, its groups and each route declare with WithError and               *)
(* WithResponseHeader, and what a request to a route is served with.       *)
(*                                                                         *)
(* The lists are Go slices, and slices that share a backing array see each *)
(* other's writes: a slice is [arr, len], heap holds the arrays, and append*)
(* writes in place as long as the array has room.  A declaration is a      *)
(* number, given in the order of the declarations; 0 fills the room behind *)
(* a slice.                                                                *)
(*                                                                         *)
(* Prefixes, middleware (applied at registration, from lists that are never*)
(* appended to in place) and the specification documents are left out.     *)
(***************************************************************************)
EXTENDS Naturals, Sequences, SequencesExt

CONSTANTS
    MaxDecls,      \* bound: declarations of errors and headers
    MaxPerRoute,   \* bound: declarations of one kind at one place
    MaxGroups,     \* bound: groups, at any depth
    MaxRoutes      \* bound: routes

ASSUME RegistryAssumption ==
    MaxDecls \in Nat /\ MaxPerRoute \in Nat /\ MaxGroups \in Nat /\ MaxRoutes \in Nat

VARIABLES
    heap,      \* the backing arrays
    routers,   \* the API (the first) and its groups, with their slices
    routes,    \* what registration captured for each route
    decls      \* number of declarations so far

vars == <<heap, routers, routes, decls>>

Slice    == [arr : Nat, len : Nat]
NilSlice == [arr |-> 0, len |-> 0]

Room(h, s)     == IF s.arr = 0 THEN 0 ELSE Len(h[s.arr])
Contents(h, s) == [i \in 1..s.len |-> h[s.arr][i]]

(* Go's append: the new slice and the heap it leaves.  A full array is      *)
(* replaced by one of twice its size, or of the size needed if that is      *)
(* more (both element types fill their allocation classes exactly here).    *)
Capacity(room, n) == IF n > 2 * room THEN n ELSE 2 * room

GoAppend(h, s, vals) ==
    LET n == s.len + Len(vals)
    IN  IF vals = <<>> THEN [heap |-> h, slice |-> s]
        ELSE IF n <= Room(h, s)
        THEN [heap  |-> [h EXCEPT ![s.arr] =
                           [i \in DOMAIN @ |->
                              IF i \in (s.len + 1)..n THEN vals[i - s.len] ELSE @[i]]],
              slice |-> [arr |-> s.arr, len |-> n]]
        ELSE [heap  |-> Append(h, [i \in 1..Capacity(Room(h, s), n) |->
                           IF i <= n THEN (Contents(h, s) \o vals)[i] ELSE 0]),
              slice |-> [arr |-> Len(h) + 1, len |-> n]]

Clone(h, s) == GoAppend(h, NilSlice, Contents(h, s))

SliceOK(s) == s \in Slice /\ s.len <= Room(heap, s)
Arrays(r)  == {r.errors.arr, r.headers.arr} \ {NilSlice.arr}

TypeOK ==
    /\ heap \in Seq(Seq(0..MaxDecls))
    /\ \A r \in Range(routers) : SliceOK(r.errors) /\ SliceOK(r.headers)
    /\ \A i, j \in DOMAIN routers :          \* each router owns its arrays
          i # j => Arrays(routers[i]) \cap Arrays(routers[j]) = {}
    /\ \A r \in Range(routes) : SliceOK(r.allErrors) /\ SliceOK(r.staticHeaders)
    /\ decls \in 0..MaxDecls

API == 1

Init ==
    /\ heap = <<>>
    /\ routers = <<[errors |-> NilSlice, headers |-> NilSlice, errs |-> <<>>, hdrs |-> <<>>]>>
    /\ routes = <<>>
    /\ decls = 0

-----------------------------------------------------------------------------
(* m new declarations, after the first k.                                   *)
Fresh(k, m) == [i \in 1..m |-> decls + k + i]

(* An option of New: the API's lists grow by one entry at a time.           *)
addError ==
    LET a == GoAppend(heap, routers[API].errors, Fresh(0, 1))
    IN  /\ Len(routers) = 1 /\ routes = <<>> /\ decls < MaxDecls
        /\ heap' = a.heap
        /\ routers' = [routers EXCEPT ![API] =
                          [errors |-> a.slice, headers |-> @.headers,
                           errs |-> @.errs \o Fresh(0, 1), hdrs |-> @.hdrs]]
        /\ decls' = decls + 1
        /\ UNCHANGED routes

addStaticResponseHeader ==
    LET a == GoAppend(heap, routers[API].headers, Fresh(0, 1))
    IN  /\ Len(routers) = 1 /\ routes = <<>> /\ decls < MaxDecls
        /\ heap' = a.heap
        /\ routers' = [routers EXCEPT ![API] =
                          [errors |-> @.errors, headers |-> a.slice,
                           errs |-> @.errs, hdrs |-> @.hdrs \o Fresh(0, 1)]]
        /\ decls' = decls + 1
        /\ UNCHANGED routes

(* The lists of a group start as clones of its parent's.                    *)
Inherit_Shares(h, s, own) == GoAppend(h, s, own)

Inherit(h, s, own) ==
    LET c == Clone(h, s) IN GoAppend(c.heap, c.slice, own)

Group(parent, m, n) ==
    LET p == routers[parent]
        e == Inherit(heap, p.errors, Fresh(0, m))
        h == Inherit(e.heap, p.headers, Fresh(m, n))
    IN  /\ Len(routers) <= MaxGroups /\ decls + m + n <= MaxDecls
        /\ heap' = h.heap
        /\ routers' = Append(routers, [errors |-> e.slice, headers |-> h.slice,
                                       errs |-> p.errs \o Fresh(0, m),
                                       hdrs |-> p.hdrs \o Fresh(m, n)])
        /\ decls' = decls + m + n
        /\ UNCHANGED routes

(* prepareRoute appends the route's declarations to its router's lists, in  *)
(* place if they have room; the errors become a map at once, the headers    *)
(* stay a slice that every request reads.                                   *)
prepareRoute(r, m, n) ==
    LET e == GoAppend(heap, routers[r].errors, Fresh(0, m))
        h == GoAppend(e.heap, routers[r].headers, Fresh(m, n))
    IN  /\ Len(routes) < MaxRoutes /\ decls + m + n <= MaxDecls
        /\ heap' = h.heap
        /\ routes' = Append(routes,
              [allErrors     |-> e.slice,
               errLookup     |-> Range(Contents(e.heap, e.slice)),
               staticHeaders |-> h.slice,
               errs          |-> routers[r].errs \o Fresh(0, m),
               hdrs          |-> routers[r].hdrs \o Fresh(m, n),
               own           |-> n])
        /\ decls' = decls + m + n
        /\ UNCHANGED routers

Next ==
    \/ addError \/ addStaticResponseHeader
    \/ \E r \in DOMAIN routers, m, n \in 0..MaxPerRoute : Group(r, m, n)
    \/ \E r \in DOMAIN routers, m, n \in 0..MaxPerRoute : prepareRoute(r, m, n)

Spec == Init /\ [][Next]_vars

(* What a request to a route is served with. *)
ResponseHeaders(rt) == Contents(heap, rt.staticHeaders)

KnownErrors_Late(rt) == Range(Contents(heap, rt.allErrors))
KnownErrors(rt)      == rt.errLookup

-----------------------------------------------------------------------------
(* Properties *)

(* What the API or a group gives to its routes never changes after it was   *)
(* made, whatever is registered on it, beside it or under it (group.go: the *)
(* clones; handlerFuncs.go 109-110: appends behind the router's length).    *)
RouterListsStable ==
    \A r \in Range(routers) :
        Contents(heap, r.errors) = r.errs /\ Contents(heap, r.headers) = r.hdrs

(* A route knows the errors of its API, its groups and its own, and no      *)
(* other route's, although the list they come from may be overwritten by    *)
(* the next registration.                                                   *)
ErrorsApplyToTheirRoute ==
    \A rt \in Range(routes) : KnownErrors(rt) = Range(rt.errs)

(* A request gets the inherited headers first, unchanged and in order, and  *)
(* as many of its route's own as were declared.                             *)
InheritedHeadersFirst ==
    \A rt \in Range(routes) :
        LET k == Len(rt.hdrs) - rt.own
        IN  /\ Len(ResponseHeaders(rt)) = Len(rt.hdrs)
            /\ SubSeq(ResponseHeaders(rt), 1, k) = SubSeq(rt.hdrs, 1, k)

(* options.go, WithResponseHeader: "[Handle], applies to a single route".   *)
(* The code lets a later route overwrite the headers of an earlier one.     *)
HeadersApplyToTheirRoute ==
    \A rt \in Range(routes) : ResponseHeaders(rt) = rt.hdrs
=============================================================================
