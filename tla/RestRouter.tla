----------------------------- MODULE RestRouter -----------------------------
(***************************************************************************)
(* Dracon::RestfulRouter: routes registered by init_plugin, and the        *)
(* handler a request gets.  A path is the sequence of what stands between  *)
(* its slashes, a query a sequence of character codes.                     *)
(***************************************************************************)
EXTENDS Integers, Sequences, SequencesExt

CONSTANTS
    BaseUrl,         \* the segments of the router's base URL
    Registrations    \* the [route, method, handler] of init_plugin

ASSUME RouterAssumption ==
    \A r, q \in Registrations :
        r.route = q.route /\ r.method = q.method => r = q

VARIABLES
    m_routes,     \* sequence of [parts, methods, allMethods]
    registered    \* the registrations made so far

routerVars == <<m_routes, registered>>

-----------------------------------------------------------------------------
(***************************************************************************)
(* URL helpers.  A throw is the character Bad.                             *)
(***************************************************************************)
Bad == -1

fromHex(ch) ==
    CASE ch \in 48..57  -> ch - 48
      [] ch \in 97..102 -> 10 + ch - 97
      [] ch \in 65..70  -> 10 + ch - 65
      [] OTHER          -> Bad

Byte(high, low) == IF Bad \in {high, low} THEN Bad ELSE 16 * high + low

RECURSIVE PlusAsPlus(_)
PlusAsPlus(in) ==
    IF in = <<>> THEN <<>>
    ELSE IF in[1] # 37 THEN <<in[1]>> \o PlusAsPlus(Tail(in))
    ELSE IF Len(in) < 3 THEN <<Bad>>
    ELSE <<Byte(fromHex(in[2]), fromHex(in[3]))>>
            \o PlusAsPlus(SubSeq(in, 4, Len(in)))

RECURSIVE unescapeUrl(_)
unescapeUrl(in) ==
    IF in = <<>> THEN <<>>
    ELSE IF in[1] = 43 THEN <<32>> \o unescapeUrl(Tail(in))
    ELSE IF in[1] # 37 THEN <<in[1]>> \o unescapeUrl(Tail(in))
    ELSE IF Len(in) < 3 THEN <<Bad>>
    ELSE <<Byte(fromHex(in[2]), fromHex(in[3]))>>
            \o unescapeUrl(SubSeq(in, 4, Len(in)))

(* The pieces of str between the separators, the empty ones left out *)
split(str, ch) ==
    LET Ends(i) == {j \in i..Len(str) : j = Len(str) \/ str[j + 1] = ch}
        starts == {i \in DOMAIN str :
                      str[i] # ch /\ (i = 1 \/ str[i - 1] = ch)}
    IN [n \in DOMAIN SetToSortSeq(starts, <) |->
           LET i == SetToSortSeq(starts, <)[n]
           IN SubSeq(str, i, CHOOSE j \in Ends(i) : \A k \in Ends(i) : j <= k)]

-----------------------------------------------------------------------------
(***************************************************************************)
(* A part of a route is a name or, in braces, a resource to capture; a     *)
(* part shorter than two characters makes routeParts throw, and then       *)
(* nothing is registered.                                                  *)
(***************************************************************************)
Text(name) == [capture |-> FALSE, name |-> name]
Captured(name) == [capture |-> TRUE, name |-> name]

NewRoute(parts) == [parts |-> parts, methods |-> <<>>, allMethods |-> {}]

AlwaysNew(parts) == Append(m_routes, NewRoute(parts))

(* RestfullRoute::operator== *)
IsRoute(route, parts) ==
    /\ Len(route.parts) = Len(parts)
    /\ \A i \in DOMAIN parts : route.parts[i] = parts[i]

createRoute(parts) ==
    IF \E i \in DOMAIN m_routes : IsRoute(m_routes[i], parts)
    THEN m_routes ELSE Append(m_routes, NewRoute(parts))

addMethodHandler(route, method, handler) ==
    [route EXCEPT
        !.methods = [m \in DOMAIN @ \cup {method} |->
                        IF m = method THEN handler ELSE @[m]],
        !.allMethods = IF method = "OPTIONS" THEN @ ELSE @ \cup {method}]

(* createRoute(route)->addMethodHandler(method, handler) in init_plugin *)
Register(r) ==
    LET routes == createRoute(r.route)
        last == CHOOSE i \in DOMAIN routes :
                    /\ routes[i].parts = r.route
                    /\ \A j \in DOMAIN routes :
                          routes[j].parts = r.route => j <= i
    IN /\ r \in Registrations \ registered
       /\ m_routes' = [routes EXCEPT
                          ![last] = addMethodHandler(@, r.method, r.handler)]
       /\ registered' = registered \cup {r}

-----------------------------------------------------------------------------
Matches(parts, resources) ==
    /\ Len(parts) = Len(resources)
    /\ \A i \in DOMAIN parts : parts[i].capture \/ parts[i].name = resources[i]

(* captures[part.second] = urlParts[i]: the last of one name wins *)
Captures(parts, resources) ==
    LET at(name) == {i \in DOMAIN parts : parts[i].capture /\ parts[i].name = name}
    IN [name \in {parts[i].name : i \in {j \in DOMAIN parts : parts[j].capture}} |->
           resources[CHOOSE i \in at(name) : \A j \in at(name) : j <= i]]

QueryStrings(query) ==
    [n \in DOMAIN split(query, 38) |->
        LET kv == split(split(query, 38)[n], 61)
        IN CASE Len(kv) = 1 -> <<unescapeUrl(kv[1]), <<>>>>
             [] Len(kv) = 2 -> <<unescapeUrl(kv[1]), unescapeUrl(kv[2])>>
             [] OTHER -> <<<<Bad>>, <<>>>>]

Nothing == [status |-> 0]

(* createHandler of the router and of the first route that matches *)
createHandler(path, query, method) ==
    LET all == SelectSeq(path, LAMBDA segment : segment # "")
        resources == SubSeq(all, Len(BaseUrl) + 1, Len(all))
        matching == {i \in DOMAIN m_routes : Matches(m_routes[i].parts, resources)}
        first == m_routes[CHOOSE i \in matching : \A j \in matching : i <= j]
        queries == QueryStrings(query)
    IN IF \/ Len(all) < Len(BaseUrl) + 1
          \/ \E i \in DOMAIN BaseUrl : all[i] # BaseUrl[i]
          \/ matching = {}
       THEN Nothing
       ELSE IF method \notin DOMAIN first.methods
       THEN [status |-> 405, allow |-> first.allMethods]
       ELSE IF \E n \in DOMAIN queries : Bad \in Range(queries[n][1] \o queries[n][2])
       THEN [status |-> 400]
       ELSE [status |-> 200, handler |-> first.methods[method],
             captures |-> Captures(first.parts, resources),
             queries |-> queries, allow |-> first.allMethods]

RouterInit == m_routes = <<>> /\ registered = {}
=============================================================================
