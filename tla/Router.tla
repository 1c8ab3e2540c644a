------------------------------- MODULE Router -------------------------------
(***************************************************************************)
(* Routes: registration through groups, the table of static routes and the *)
(* radix tree, and the two-tier lookup (src/src/http/Router.h,             *)
(* RouteGroup.h, RadixTree.cpp).  A path is a sequence of letters, of      *)
(* which "/" is one; in a pattern a parameter or wildcard segment is one   *)
(* letter of Params or Wilds.  A handler is the number of the              *)
(* registration that made it, 0 is none.                                   *)
(***************************************************************************)
EXTENDS Integers, FiniteSetsExt, SequencesExt

CONSTANTS
    Patterns,       \* <<prefix of the group, pattern>> pairs registered
    Paths,          \* paths asked for
    Methods,
    Params, Wilds,  \* letters for :name and *name
    MaxRoutes,      \* registrations
    MAX             \* StackRouteParams::MAX, parameters bound per request

RouterAssumption == MaxRoutes \in Nat /\ MAX \in Nat /\ Params \cap Wilds = {} /\ "/" \notin Params \cup Wilds

VARIABLES
    routes,         \* the registrations, in order: [method, pattern]
    root_,          \* the radix tree
    static_routes_  \* normalised pattern -> handler per method

vars == <<routes, root_, static_routes_>>
Static(t) == t \notin Params \cup Wilds
NoHandler == [m \in Methods |-> 0]
Node(type, prefix) == [type |-> type, prefix |-> prefix, kids |-> <<>>, handlers |-> NoHandler]
has_any_handler(n) == n.handlers # NoHandler
Drop(s, n) == SubSeq(s, n + 1, Len(s))

\* One trailing slash is dropped.
normalize_path(p) ==
    IF p = <<>> THEN <<"/">> ELSE IF Len(p) > 1 /\ Last(p) = "/" THEN Front(p) ELSE p

join_paths(a, b) ==
    LET rooted(p) == p # <<>> /\ Head(p) = "/"
    IN CASE a \in {<<>>, <<"/">>} -> IF b = <<>> THEN <<"/">> ELSE IF rooted(b) THEN b ELSE <<"/">> \o b
         [] a \notin {<<>>, <<"/">>} /\ Last(a) = "/" -> IF rooted(b) THEN a \o Tail(b) ELSE a \o b
         [] OTHER -> IF rooted(b) THEN a \o b ELSE a \o <<"/">> \o b

-----------------------------------------------------------------------------
(* RadixTree::insert *)
common_prefix_length(a, b) ==
    Max({n \in 0 .. Min({Len(a), Len(b)}) : SubSeq(a, 1, n) = SubSeq(b, 1, n)})

\* Mutant: the shortened node keeps its handlers.
Split_Kept(kid, cpl) ==
    LET rest == [kid EXCEPT !.prefix = Drop(kid.prefix, cpl)]
    IN IF cpl = Len(kid.prefix) THEN kid
       ELSE [Node("Static", SubSeq(kid.prefix, 1, cpl)) EXCEPT !.kids = <<rest>>, !.handlers = kid.handlers]
\* Mutant: the children stay with the shortened node.
Split_Children(kid, cpl) ==
    LET rest == [kid EXCEPT !.prefix = Drop(kid.prefix, cpl), !.kids = <<>>]
    IN IF cpl = Len(kid.prefix) THEN kid
       ELSE [Node("Static", SubSeq(kid.prefix, 1, cpl)) EXCEPT !.kids = kid.kids \o <<rest>>]
\* A child sharing only a part of its prefix is split.
Split(kid, cpl) ==
    LET rest == [kid EXCEPT !.prefix = Drop(kid.prefix, cpl)]
    IN IF cpl = Len(kid.prefix) THEN kid
       ELSE [Node("Static", SubSeq(kid.prefix, 1, cpl)) EXCEPT !.kids = <<rest>>]

\* A parameter child is found by its name, a wildcard child whatever its name;
\* a parameter's name is kept in prefix.
ParamChild(node, t) == SelectInSeq(node.kids, LAMBDA c : c.type = "Param" /\ c.prefix = <<t>>)
WildChild(node) == SelectInSeq(node.kids, LAMBDA c : c.type = "Wildcard")
StaticChild(node, chunk) ==
    SelectInSeq(node.kids, LAMBDA c : c.type = "Static" /\ common_prefix_length(c.prefix, chunk) > 0)
StaticChunk(remaining) ==
    SubSeq(remaining, 1, Min({i \in DOMAIN remaining : ~Static(remaining[i])} \cup {Len(remaining) + 1}) - 1)

Put(kids, i, kid) == IF i = 0 THEN Append(kids, kid) ELSE [kids EXCEPT ![i] = kid]

RECURSIVE Insert(_, _, _, _)
Insert(node, remaining, m, h) ==
    IF remaining = <<>> THEN [node EXCEPT !.handlers[m] = h]
    ELSE LET t == Head(remaining)
             chunk == StaticChunk(remaining)
             i == CASE t \in Params -> ParamChild(node, t)
                    [] t \in Wilds -> WildChild(node)
                    [] OTHER -> StaticChild(node, chunk)
             cpl == common_prefix_length(node.kids[i].prefix, chunk)
             kid == CASE i = 0 -> Node(CASE t \in Params -> "Param" [] t \in Wilds -> "Wildcard" [] OTHER -> "Static",
                                       IF Static(t) THEN chunk ELSE <<t>>)
                      [] i # 0 /\ Static(t) -> Split(node.kids[i], cpl)
                      [] OTHER -> node.kids[i]
             left == CASE t \in Params -> Tail(remaining)
                       [] t \in Wilds -> <<>>
                       [] OTHER -> Drop(remaining, Len(kid.prefix))
         IN [node EXCEPT !.kids = Put(node.kids, i, Insert(kid, left, m, h))]

insert(m, pattern, h) ==
    LET p == normalize_path(pattern)
    IN IF p = <<"/">> THEN [root_ EXCEPT !.handlers[m] = h]
       ELSE Insert(root_, IF Head(p) = "/" THEN Tail(p) ELSE p, m, h)

-----------------------------------------------------------------------------
(* RadixTree::match; a lookup ends with [node, params], node = <<>> for none *)
push_back(params, kv) == IF Len(params) < MAX THEN Append(params, kv) ELSE params
pop_back(params) == IF params = <<>> THEN params ELSE Front(params)
Failed(params) == [node |-> <<>>, params |-> params]
Matched(node, params) == [node |-> <<node>>, params |-> params]
Segment(path) == SubSeq(path, 1, Min({i \in DOMAIN path : path[i] = "/"} \cup {Len(path) + 1}) - 1)

RECURSIVE match_node(_, _, _)
\* The children one after the other until one matches.
Try(kids, path, params) ==
    FoldLeft(LAMBDA r, c : IF r.node # <<>> THEN r ELSE match_node(c, path, r.params), Failed(params), kids)
\* Mutant: children in the order they were registered.
InOrder_Registered(node, path) == node.kids
\* Static children that may match, then parameters, then wildcards.
InOrder(node, path) ==
       SelectSeq(node.kids, LAMBDA c : c.type = "Static" /\ (path = <<>> \/ c.prefix[1] = path[1]))
    \o SelectSeq(node.kids, LAMBDA c : c.type = "Param")
    \o SelectSeq(node.kids, LAMBDA c : c.type = "Wildcard")

match_static(node, path, params) ==
    LET rest == Drop(path, Len(node.prefix))
        slash == SelectInSeq(node.kids, LAMBDA c : c.type = "Static" /\ c.prefix = <<"/">> /\ has_any_handler(c))
    IN CASE ~IsPrefix(node.prefix, path) -> Failed(params)
         [] IsPrefix(node.prefix, path) /\ rest = <<>> /\ has_any_handler(node) -> Matched(node, params)
         [] IsPrefix(node.prefix, path) /\ rest = <<>> /\ ~has_any_handler(node) /\ slash # 0 ->
              Matched(node.kids[slash], params)
         [] OTHER -> Try(InOrder(node, rest), rest, params)

\* Mutant: a parameter that led nowhere stays bound.
match_param_NoBacktrack(node, path, params) ==
    LET val == Segment(path)
        rest == Drop(path, Len(val))
        bound == push_back(params, <<node.prefix[1], val>>)
        r == Try(node.kids, rest, bound)
    IN CASE val = <<>> -> Failed(params)
         [] val # <<>> /\ rest \in {<<>>, <<"/">>} /\ has_any_handler(node) -> Matched(node, bound)
         [] OTHER -> r
match_param(node, path, params) ==
    LET val == Segment(path)
        rest == Drop(path, Len(val))
        bound == push_back(params, <<node.prefix[1], val>>)
        r == Try(node.kids, rest, bound)
    IN CASE val = <<>> -> Failed(params)
         [] val # <<>> /\ rest \in {<<>>, <<"/">>} /\ has_any_handler(node) -> Matched(node, bound)
         [] OTHER -> IF r.node # <<>> THEN r ELSE Failed(pop_back(r.params))
match_wildcard(node, path, params) ==
    LET bound == push_back(params, <<node.prefix[1], path>>)
    IN IF has_any_handler(node) THEN Matched(node, bound) ELSE Failed(pop_back(bound))
match_node(node, path, params) ==
    CASE node.type = "Static" -> match_static(node, path, params)
      [] node.type = "Param" -> match_param(node, path, params)
      [] node.type = "Wildcard" -> match_wildcard(node, path, params)

\* A handler, or the methods the route allows, or nothing.
Answer(handlers, params, m) ==
    IF handlers[m] # 0 THEN [found |-> TRUE, handler |-> handlers[m], allowed |-> {}, params |-> params]
    ELSE [found |-> TRUE, handler |-> 0, allowed |-> {n \in Methods : handlers[n] # 0}, params |-> <<>>]
NotFound == [found |-> FALSE, handler |-> 0, allowed |-> {}, params |-> <<>>]
TreeMatch(m, path) ==
    LET r == match_node(root_, normalize_path(path), <<>>)
    IN IF r.node = <<>> THEN NotFound ELSE Answer(r.node[1].handlers, r.params, m)

\* Router::match: the table of static routes first.
match(m, path) ==
    LET p == normalize_path(path)
    IN IF p \in DOMAIN static_routes_ THEN Answer(static_routes_[p], <<>>, m) ELSE TreeMatch(m, path)

-----------------------------------------------------------------------------
Init ==
    /\ routes = <<>>
    /\ root_ = Node("Static", <<"/">>)
    /\ static_routes_ = <<>>

\* Mutant: a second method replaces the entry of the first.
Entry_Fresh(key) == NoHandler
Entry(key) == IF key \in DOMAIN static_routes_ THEN static_routes_[key] ELSE NoHandler

\* RouteGroup::add_route and Router::add_route.
add_route(m, prefix, sub) ==
    LET pattern == join_paths(prefix, sub)
        h == Len(routes) + 1
        key == normalize_path(pattern)
    IN /\ h <= MaxRoutes
       /\ routes' = Append(routes, [method |-> m, pattern |-> pattern])
       /\ root_' = insert(m, pattern, h)
       /\ static_routes_' = IF \A i \in DOMAIN pattern : Static(pattern[i])
                            THEN [k \in DOMAIN static_routes_ \cup {key} |->
                                     IF k = key THEN [Entry(key) EXCEPT ![m] = h] ELSE static_routes_[k]]
                            ELSE static_routes_

Serve == Len(routes) = MaxRoutes /\ UNCHANGED vars
Next == (\E m \in Methods, p \in Patterns : add_route(m, p[1], p[2])) \/ Serve

-----------------------------------------------------------------------------
(* The reference: one pattern against one path, letter by letter *)
RECURSIVE Fits(_, _)
\* The values the parameters take, as a set with at most one member.
Fits(pattern, path) ==
    IF pattern = <<>> THEN (IF path = <<>> THEN {<<>>} ELSE {})
    ELSE CASE Head(pattern) \in Wilds -> {<<path>>}
           [] Head(pattern) \in Params ->
                LET val == Segment(path)
                IN {<<val>> \o b : b \in IF val = <<>> THEN {} ELSE Fits(Tail(pattern), Drop(path, Len(val)))}
           [] OTHER -> IF path # <<>> /\ Head(path) = Head(pattern) THEN Fits(Tail(pattern), Tail(path)) ELSE {}

Loosely(pattern, path) ==
    Fits(pattern, path) \cup Fits(pattern, path \o <<"/">>)
    \cup (IF path # <<>> /\ Last(path) = "/" THEN Fits(pattern, Front(path)) ELSE {})
\* Patterns that differ in the name of their wildcard are one route.
Shape(i) == [k \in DOMAIN routes[i].pattern |->
                IF routes[i].pattern[k] \in Wilds THEN "*" ELSE routes[i].pattern[k]]
Same(i) == {j \in DOMAIN routes : normalize_path(Shape(j)) = normalize_path(Shape(i))}
Latest(i, m) == Max({j \in Same(i) : routes[j].method = m} \cup {0})
\* Where two patterns first differ, a letter is more specific than a
\* parameter, and a parameter than a wildcard.
Rank(t) == IF Static(t) THEN 2 ELSE IF t \in Params THEN 1 ELSE 0
MoreSpecific(p, q) ==
    \E k \in DOMAIN p \cap DOMAIN q : SubSeq(p, 1, k - 1) = SubSeq(q, 1, k - 1) /\ Rank(p[k]) > Rank(q[k])
Few == \A i \in DOMAIN routes : Cardinality({k \in DOMAIN routes[i].pattern : ~Static(routes[i].pattern[k])}) <= MAX

(***************************************************************************)
(* Whatever was registered in whatever order, match answers for a route    *)
(* whose pattern fits the path, with the latest handler of that route for  *)
(* the method, or else with exactly the methods the route has; it finds    *)
(* one whenever one fits, it never passes over a more specific one, and    *)
(* the parameters are the parts of the path, when no route has more than   *)
(* MAX of them.                                                            *)
(***************************************************************************)
RoutesRight ==
    \A path \in Paths, m \in Methods :
        LET at == normalize_path(path)
            Pattern(i) == normalize_path(routes[i].pattern)
            r == match(m, path)
            fit == {i \in DOMAIN routes : Fits(Pattern(i), at) # {}}
            chosen == {i \in DOMAIN routes :
                          /\ Loosely(Pattern(i), at) # {}
                          /\ r.handler = Latest(i, m)
                          /\ r.handler = 0 => r.allowed = {n \in Methods : Latest(i, n) # 0}}
        IN /\ fit # {} => r.found
           /\ r.found => \E i \in chosen :
                 /\ \A j \in fit : ~MoreSpecific(Pattern(j), Pattern(i))
                 /\ (r.handler # 0 /\ Few) => [k \in DOMAIN r.params |-> r.params[k][2]] \in Loosely(Pattern(i), at)

=============================================================================
