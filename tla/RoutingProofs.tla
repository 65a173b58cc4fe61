---------------------------- MODULE RoutingProofs ----------------------------
(***************************************************************************)
(* Theorems about Routing, for all configurations, hosts and paths.        *)
(***************************************************************************)
EXTENDS Routing, Induction, FiniteSetTheorems, SequenceTheorems, TLAPS

(* An Option that is there has its value.                                  *)
LEMMA OptionSome ==
  ASSUME NEW S, NEW x \in Option(S), x # None
  PROVE  x[1] \in S /\ x = Some(x[1])
<1> DEFINE n == Len(x)
<1>1. x \in Seq(S) /\ n <= 1
  BY DEF Option
<1>2. n \in Nat /\ n # 0
  BY <1>1, EmptySeq DEF None
<1>3. n = 1
  <2> HIDE DEF n
  <2> QED BY <1>1, <1>2
<1> QED BY <1>1, <1>3 DEF Some

(* A sequence of one element.                                              *)
LEMMA Singleton ==
  ASSUME NEW S, NEW c \in S
  PROVE  << c >> \in Seq(S) /\ Len(<< c >>) = 1 /\ << c >>[1] = c
OBVIOUS

(* The two characters that keys have of their own are texts.               *)
LEMMA Characters ==
  << "*" >> \in Text /\ << ":" >> \in Text
BY RoutingAssumption, Singleton DEF Text

(* The two parts of a key are texts.                                       *)
LEMMA WrittenOutIsText ==
  ASSUME NEW r \in Route
  PROVE  /\ WrittenOut(r)[1] \in Text /\ WrittenOut(r)[2] \in Text
         /\ route_key(r) = WrittenOut(r)[1] \o << ":" >> \o WrittenOut(r)[2]
<1>1. << "*" >> \in Text
  BY Characters
<1>2. r.match_host \in Option(Text) /\ r.match_path \in Option(Text)
  BY DEF Route
<1>3. /\ r.match_host # None => r.match_host[1] \in Text
      /\ r.match_path # None => r.match_path[1] \in Text
  BY <1>2, OptionSome
<1> QED BY <1>1, <1>3 DEF WrittenOut, route_key

(* A key, character by character.                                          *)
LEMMA KeyCharacters ==
  ASSUME NEW h \in Text, NEW p \in Text
  PROVE  LET k == h \o << ":" >> \o p
         IN  /\ Len(k) = Len(h) + 1 + Len(p)
             /\ \A i \in 1 .. Len(h) : k[i] = h[i]
             /\ k[Len(h) + 1] = ":"
             /\ \A i \in 1 .. Len(p) : k[Len(h) + 1 + i] = p[i]
<1> DEFINE c == << ":" >>
           hc == h \o c
           k == hc \o p
<1>1. c \in Text /\ Len(c) = 1 /\ c[1] = ":"
  BY Characters
<1>2. /\ hc \in Text /\ Len(hc) = Len(h) + 1
      /\ \A i \in 1 .. Len(h) + 1 :
           hc[i] = IF i <= Len(h) THEN h[i] ELSE c[i - Len(h)]
  BY <1>1, ConcatProperties DEF Text
<1>3. /\ Len(k) = Len(h) + 1 + Len(p)
      /\ \A i \in 1 .. Len(h) + 1 + Len(p) :
           k[i] = IF i <= Len(h) + 1 THEN hc[i] ELSE p[i - (Len(h) + 1)]
  BY <1>2, ConcatProperties DEF Text
<1>4. Len(h) \in Nat /\ Len(p) \in Nat
  BY DEF Text
<1> HIDE DEF c, hc, k
<1>5. \A i \in 1 .. Len(h) : k[i] = h[i]
  BY <1>2, <1>3, <1>4
<1>6. k[Len(h) + 1] = ":"
  <2>1. k[Len(h) + 1] = hc[Len(h) + 1]
    BY <1>3, <1>4
  <2>2. hc[Len(h) + 1] = c[(Len(h) + 1) - Len(h)]
    BY <1>2, <1>4
  <2>3. (Len(h) + 1) - Len(h) = 1
    BY <1>4
  <2> QED BY <1>1, <2>1, <2>2, <2>3
<1>7. \A i \in 1 .. Len(p) : k[Len(h) + 1 + i] = p[i]
  <2>1. ASSUME NEW i \in 1 .. Len(p) PROVE k[Len(h) + 1 + i] = p[i]
    <3>1. /\ Len(h) + 1 + i \in 1 .. Len(h) + 1 + Len(p)
          /\ ~(Len(h) + 1 + i <= Len(h) + 1)
          /\ (Len(h) + 1 + i) - (Len(h) + 1) = i
      BY <1>4
    <3> QED BY <1>3, <3>1
  <2> QED BY <2>1
<1> QED BY <1>3, <1>5, <1>6, <1>7 DEF k, hc, c

(* Of two keys with different hosts, the one with the shorter host has a   *)
(* path that begins with the rest of the longer one.                       *)
LEMMA KeysOfOneLength ==
  ASSUME NEW h \in Text, NEW p \in Text, NEW g \in Text, NEW q \in Text,
         h \o << ":" >> \o p = g \o << ":" >> \o q,
         \A i \in DOMAIN g : g[i] # "/",
         \/ Len(p) = 0 \/ p[1] = "/" \/ p = << "*" >>
  PROVE  ~(Len(h) < Len(g))
<1> DEFINE k == h \o << ":" >> \o p
           m == Len(h)
           n == Len(g)
<1>1. /\ Len(k) = m + 1 + Len(p) /\ \A i \in 1 .. m : k[i] = h[i]
      /\ k[m + 1] = ":" /\ \A i \in 1 .. Len(p) : k[m + 1 + i] = p[i]
  BY KeyCharacters
<1>2. /\ Len(k) = n + 1 + Len(q) /\ \A i \in 1 .. n : k[i] = g[i]
      /\ k[n + 1] = ":" /\ \A i \in 1 .. Len(q) : k[n + 1 + i] = q[i]
  <2> DEFINE j == g \o << ":" >> \o q
  <2>1. /\ Len(j) = n + 1 + Len(q) /\ \A i \in 1 .. n : j[i] = g[i]
        /\ j[n + 1] = ":" /\ \A i \in 1 .. Len(q) : j[n + 1 + i] = q[i]
    BY KeyCharacters
  <2>2. j = k
    OBVIOUS
  <2> HIDE DEF j, k, n
  <2> QED BY <2>1, <2>2
<1>3. m \in Nat /\ n \in Nat /\ Len(p) \in Nat /\ Len(q) \in Nat
      /\ DOMAIN g = 1 .. n
  BY DEF Text
<1> HIDE DEF k, m, n
<1> SUFFICES ASSUME m < n PROVE FALSE
  BY DEF m, n
<1>4. Len(p) > 0
  BY <1>1, <1>2, <1>3
<1>5. CASE p[1] = "/"
  <2>1. k[m + 2] = "/"
    <3>1. 1 \in 1 .. Len(p) /\ m + 1 + 1 = m + 2
      BY <1>3, <1>4
    <3> QED BY <1>1, <1>5, <3>1
  <2>2. CASE m + 2 <= n
    <3>1. m + 2 \in 1 .. n
      BY <1>3, <2>2
    <3>2. k[m + 2] = g[m + 2] /\ g[m + 2] # "/"
      BY <1>2, <1>3, <3>1
    <3> QED BY <2>1, <3>2
  <2>3. CASE m + 2 > n
    <3>1. m + 2 = n + 1
      BY <1>3, <2>3
    <3> QED BY <1>2, <2>1, <3>1
  <2> QED BY <1>3, <2>2, <2>3
<1>6. CASE p = << "*" >>
  <2>1. Len(p) = 1 /\ p[1] = "*"
    BY <1>6
  <2>2. n = m + 1
    BY <1>1, <1>2, <1>3, <2>1
  <2>3. k[m + 1 + 1] = "*" /\ k[n + 1] = ":" /\ m + 1 + 1 = n + 1
    BY <1>1, <1>2, <1>3, <2>1, <2>2
  <2> QED BY <2>3
<1> QED BY <1>4, <1>5, <1>6

(* Well-formed routes with one key say the same.                           *)
LEMMA KeysDiffer ==
  ASSUME NEW r \in Route, NEW s \in Route, WellFormed(r), WellFormed(s),
         route_key(r) = route_key(s)
  PROVE  WrittenOut(r) = WrittenOut(s)
<1> DEFINE h == WrittenOut(r)[1]
           p == WrittenOut(r)[2]
           g == WrittenOut(s)[1]
           q == WrittenOut(s)[2]
<1>1. /\ h \in Text /\ p \in Text /\ g \in Text /\ q \in Text
      /\ h \o << ":" >> \o p = g \o << ":" >> \o q
  BY WrittenOutIsText
<1>2. WrittenOut(r) = << h, p >> /\ WrittenOut(s) = << g, q >>
  BY DEF WrittenOut
<1>3. /\ \A i \in DOMAIN h : h[i] # "/"
      /\ \A i \in DOMAIN g : g[i] # "/"
      /\ Len(p) = 0 \/ p[1] = "/" \/ p = << "*" >>
      /\ Len(q) = 0 \/ q[1] = "/" \/ q = << "*" >>
  BY DEF WellFormed
<1> HIDE DEF h, p, g, q
<1>4. ~(Len(h) < Len(g)) /\ ~(Len(g) < Len(h))
  BY <1>1, <1>3, KeysOfOneLength
<1>5. Len(h) \in Nat /\ Len(g) \in Nat /\ Len(h) = Len(g)
  BY <1>1, <1>4 DEF Text
<1> DEFINE k == h \o << ":" >> \o p
<1>6. /\ Len(k) = Len(h) + 1 + Len(p)
      /\ \A i \in 1 .. Len(h) : k[i] = h[i]
      /\ \A i \in 1 .. Len(p) : k[Len(h) + 1 + i] = p[i]
  BY <1>1, KeyCharacters
<1>7. /\ Len(k) = Len(h) + 1 + Len(q)
      /\ \A i \in 1 .. Len(h) : k[i] = g[i]
      /\ \A i \in 1 .. Len(q) : k[Len(h) + 1 + i] = q[i]
  BY <1>1, <1>5, KeyCharacters
<1> HIDE DEF k
<1>8. h = g
  BY <1>1, <1>5, <1>6, <1>7, SeqEqual DEF Text
<1>9. Len(p) = Len(q) /\ \A i \in 1 .. Len(p) : p[i] = q[i]
  BY <1>1, <1>5, <1>6, <1>7 DEF Text
<1>10. p = q
  BY <1>1, <1>9, SeqEqual DEF Text
<1> QED BY <1>2, <1>8, <1>10

-----------------------------------------------------------------------------
\* What handle_request answers.
Answer(host, path) ==
  LET r == match_route(host, path)
  IN  [host |-> host, path |-> path, route |-> r,
       limit |-> IF r = 0 THEN None ELSE LimitOf(router[r])]

\* What main has made of a file.
Loaded(c) ==
  /\ validate(c)
  /\ config = Some(c)
  /\ router = from_config(c)
  /\ route_ratelimiters = RouteLimiters(c)

\* What is served comes from one valid configuration, and the last answer is
\* the one it gives.
Served ==
  /\ phase = "serving" => \E c \in Configs : Loaded(c)
  /\ answer # None =>
       /\ phase = "serving"
       /\ \E host \in Hosts, path \in Paths : answer = Some(Answer(host, path))

(* Once a server runs, the tables do not change, and nothing was answered  *)
(* before.                                                                 *)
LEMMA ServedInvariant == Spec => []Served
<1>1. Init => Served
  BY DEF Init, Served
<1>2. Served /\ [Next]_vars => Served'
  <2> SUFFICES ASSUME Served, [Next]_vars PROVE Served'
    OBVIOUS
  <2>1. ASSUME NEW c \in Configs, start(c) PROVE Served'
    <3>1. answer' = None
      BY <2>1 DEF start, Served
    <3>2. Loaded(c)'
      BY <2>1 DEF start, Loaded
    <3> QED BY <3>1, <3>2 DEF Served
  <2>2. ASSUME NEW c \in Configs, refuse(c) PROVE Served'
    <3>1. answer' = None /\ phase' = "exited"
      BY <2>2 DEF refuse, Served
    <3> QED BY <3>1 DEF Served
  <2>3. ASSUME UNCHANGED << config, router, route_ratelimiters >>
        PROVE  /\ \A c : Loaded(c)' = Loaded(c)
               /\ \A host, path : Answer(host, path)' = Answer(host, path)
    BY <2>3 DEF Loaded, Answer, match_route, SelectInSeq, LimitOf
  <2>4. ASSUME NEW host \in Hosts, NEW path \in Paths,
               handle_request(host, path)
        PROVE  Served'
    <3>1. /\ phase = "serving" /\ phase' = phase
          /\ answer' = Some(Answer(host, path))
          /\ UNCHANGED << config, router, route_ratelimiters >>
      BY <2>4 DEF handle_request, Answer
    <3> QED BY <2>3, <3>1 DEF Served
  <2>5. ASSUME UNCHANGED vars PROVE Served'
    BY <2>3, <2>5 DEF Served, vars
  <2> QED BY <2>1, <2>2, <2>4, <2>5 DEF Next
<1> QED BY <1>1, <1>2, PTL DEF Spec

(* Configurations have the parts that the model reads.                     *)
LEMMA ConfigParts ==
  ASSUME NEW c \in Configs
  PROVE  /\ c.routes \in Seq(Route) /\ c.ratelimit \in Option(Limit)
         /\ Len(c.routes) \in Nat /\ DOMAIN c.routes = 1 .. Len(c.routes)
         /\ \A i \in DOMAIN c.routes : c.routes[i] \in Route
<1>1. c.routes \in Seq(Route) /\ c.ratelimit \in Option(Limit)
  BY RoutingAssumption
<1> QED BY <1>1

(* The router has one entry per route.                                     *)
LEMMA RouterEntries ==
  ASSUME NEW c \in Configs, Loaded(c)
  PROVE  /\ config[1] = c
         /\ Len(router) = Len(c.routes) /\ DOMAIN router = DOMAIN c.routes
         /\ \A i \in DOMAIN c.routes :
              /\ router[i].match_host = c.routes[i].match_host
              /\ router[i].match_path = c.routes[i].match_path
              /\ router[i].key = route_key(c.routes[i])
              /\ router[i].candidates = FlattenSeq(c.routes[i].pools)
<1>1. config[1] = c
  BY DEF Loaded, Some
<1>2. /\ router = from_config(c) /\ Len(c.routes) \in Nat
      /\ DOMAIN c.routes = 1 .. Len(c.routes)
  BY ConfigParts DEF Loaded
<1>3. DOMAIN router = DOMAIN c.routes
  BY <1>2 DEF from_config
<1>4. Len(router) = Len(c.routes)
  BY <1>2 DEF from_config
<1> QED BY <1>1, <1>2, <1>3, <1>4 DEF from_config

(* The matched route is one of the configured ones.                        *)
LEMMA RouteMatched ==
  ASSUME NEW c \in Configs, Loaded(c), NEW host, NEW path
  PROVE  LET r == match_route(host, path)
         IN  r = 0 \/ r \in DOMAIN c.routes
<1> DEFINE I == {i \in 1 .. Len(router) : Matches(router[i], host, path)}
<1>1. match_route(host, path) = IF I # {} THEN Min(I) ELSE 0
  BY DEF match_route, SelectInSeq
<1>2. ASSUME I # {} PROVE Min(I) \in I
  <2>1. I \in SUBSET Nat
    BY RouterEntries, ConfigParts
  <2>2. \E n \in I : \A m \in I : n <= m
    <3> HIDE DEF I
    <3> QED BY <1>2, <2>1, LeastElement
  <2> QED BY <2>2 DEF Min
<1> QED BY <1>1, <1>2, RouterEntries, ConfigParts

(* A request that was routed, to one of the configured routes.             *)
LEMMA Routed ==
  ASSUME Served, answer # None, answer[1].route > 0
  PROVE  \E c \in Configs :
           /\ Loaded(c) /\ config[1] = c
           /\ answer[1].route \in DOMAIN c.routes
           /\ answer[1].limit = LimitOf(router[answer[1].route])
<1>1. PICK c \in Configs : Loaded(c)
  BY DEF Served
<1>2. PICK host \in Hosts, path \in Paths : answer = Some(Answer(host, path))
  BY DEF Served
<1> DEFINE r == match_route(host, path)
<1>3. answer[1].route = r /\ r > 0 /\ answer[1].limit = LimitOf(router[r])
  BY <1>2 DEF Answer, Some
<1>4. r = 0 \/ r \in DOMAIN c.routes
  BY <1>1, RouteMatched
<1>5. config[1] = c
  BY <1>1, RouterEntries
<1> HIDE DEF r
<1> QED BY <1>1, <1>3, <1>4, <1>5

-----------------------------------------------------------------------------
(* Where every route says something else, LimitOf finds a route's own      *)
(* limiter, or none.                                                       *)
LEMMA OwnLimit ==
  ASSUME NEW c \in Configs, Loaded(c), NEW r \in DOMAIN c.routes,
         \A i \in DOMAIN c.routes : WellFormed(c.routes[i]),
         \A i, j \in DOMAIN c.routes :
           i # j => WrittenOut(c.routes[i]) # WrittenOut(c.routes[j])
  PROVE  LET own == c.routes[r].ratelimit
         IN  LimitOf(router[r]) = IF own # None THEN own ELSE c.ratelimit
<1> DEFINE own == c.routes[r].ratelimit
           key(i) == route_key(c.routes[i])
           limited == {i \in DOMAIN c.routes : c.routes[i].ratelimit # None}
           IsLast(i, k) == /\ key(i) = k
                           /\ \A j \in limited : key(j) = k => j <= i
           last(k) == CHOOSE i \in limited : IsLast(i, k)
           keys == {key(i) : i \in limited}
<1>1. \A i, j \in DOMAIN c.routes : key(i) = key(j) => i = j
  BY KeysDiffer, ConfigParts
<1>2. route_ratelimiters = [k \in keys |-> c.routes[last(k)].ratelimit[1]]
  BY DEF Loaded, RouteLimiters
<1>3. router[r].key = key(r) /\ config[1] = c
  BY RouterEntries
<1>4. CASE own # None
  <2>1. r \in limited /\ r \in Int
    BY <1>4, ConfigParts
  <2>2. \A i \in limited : IsLast(i, key(r)) <=> i = r
    BY <1>1, <2>1
  <2>3. last(key(r)) = r
    <3> HIDE DEF limited, IsLast
    <3> QED BY <2>1, <2>2
  <2>4. key(r) \in keys
    BY <2>1
  <2>5. /\ route_ratelimiters[key(r)] = own[1]
        /\ key(r) \in DOMAIN route_ratelimiters
    <3> HIDE DEF keys, last, key
    <3> QED BY <1>2, <2>3, <2>4
  <2>6. own = Some(own[1])
    <3>1. own \in Option(Limit)
      BY ConfigParts DEF Route
    <3> QED BY <1>4, <3>1, OptionSome
  <2> QED BY <1>3, <1>4, <2>5, <2>6 DEF LimitOf
<1>5. CASE own = None
  <2>1. key(r) \notin keys
    BY <1>1, <1>5
  <2>2. key(r) \notin DOMAIN route_ratelimiters
    <3> HIDE DEF keys, last, key
    <3> QED BY <1>2, <2>1
  <2> QED BY <1>3, <1>5, <2>2 DEF LimitOf
<1> QED BY <1>4, <1>5

(* No route is limited by what another one configures, whatever the routes *)
(* are, as long as they are well formed and no two say the same once "*"   *)
(* is written out: route_key, the insertions of AppState::new and the      *)
(* lookup of handle_request come together.                                 *)
THEOREM LimitersAreOwn == Spec => []LimiterIsOwn
<1>1. Served => LimiterIsOwn
  <2> SUFFICES ASSUME Served, answer # None, answer[1].route > 0,
               \A i \in DOMAIN config[1].routes :
                 WellFormed(config[1].routes[i]),
               \A i, j \in DOMAIN config[1].routes :
                 i # j => WrittenOut(config[1].routes[i])
                            # WrittenOut(config[1].routes[j])
      PROVE    LET own == config[1].routes[answer[1].route].ratelimit
               IN  answer[1].limit = IF own # None THEN own
                                     ELSE config[1].ratelimit
    BY DEF LimiterIsOwn
  <2>1. PICK c \in Configs :
          /\ Loaded(c) /\ config[1] = c
          /\ answer[1].route \in DOMAIN c.routes
          /\ answer[1].limit = LimitOf(router[answer[1].route])
    BY Routed
  <2> QED BY <2>1, OwnLimit
<1> QED BY <1>1, ServedInvariant, PTL

-----------------------------------------------------------------------------
\* f solves the recursion of FlattenSeq for the first m sequences.
Flattens(seqs, m, f) ==
  f = [i \in 1 .. m |-> IF i = 1 THEN seqs[i] ELSE f[i - 1] \o seqs[i]]

(* There is a solution.                                                    *)
LEMMA FlattensExists ==
  ASSUME NEW seqs, NEW n \in Nat
  PROVE  \E f : Flattens(seqs, n, f)
<1> DEFINE S == {m \in Nat : \E f : Flattens(seqs, m, f)}
<1>1. 0 \in S
  <2> DEFINE f == [i \in 1 .. 0 |-> 0]
  <2>1. Flattens(seqs, 0, f)
    BY DEF Flattens
  <2> QED BY <2>1
<1>2. ASSUME NEW m \in 0 .. n - 1, m \in S PROVE m + 1 \in S
  <2>1. PICK f : Flattens(seqs, m, f)
    BY <1>2
  <2> DEFINE g == [i \in 1 .. m + 1 |->
                     IF i = m + 1
                       THEN IF i = 1 THEN seqs[i] ELSE f[m] \o seqs[i]
                       ELSE f[i]]
  <2>2. m \in Nat
    OBVIOUS
  <2>3. ASSUME NEW i \in 1 .. m + 1
        PROVE  g[i] = IF i = 1 THEN seqs[i] ELSE g[i - 1] \o seqs[i]
    <3>1. CASE i = m + 1
      <4>1. i # 1 => i - 1 = m /\ g[i - 1] = f[m]
        BY <2>2, <3>1
      <4> QED BY <2>2, <3>1, <4>1
    <3>2. CASE i \in 1 .. m
      <4>1. f[i] = IF i = 1 THEN seqs[i] ELSE f[i - 1] \o seqs[i]
        BY <2>1, <3>2, Zenon DEF Flattens
      <4>2. g[i] = f[i] /\ (i # 1 => g[i - 1] = f[i - 1])
        BY <2>2, <3>2
      <4> QED BY <4>1, <4>2
    <3> QED BY <2>2, <3>1, <3>2
  <2>4. Flattens(seqs, m + 1, g)
    BY <2>3, Zenon DEF Flattens
  <2> HIDE DEF g
  <2>5. m + 1 \in Nat
    BY <2>2
  <2> QED BY <2>4, <2>5, Zenon
<1> HIDE DEF S
<1>3. \A m \in 0 .. n : m \in S
  BY <1>1, <1>2, UpTo
<1>4. n \in S
  BY <1>3
<1> QED BY <1>4, Zenon DEF S

(* Sequences that are not empty, one after the other, are a sequence that  *)
(* is not empty.                                                           *)
LEMMA FlattenedIsFull ==
  ASSUME NEW E, NEW seqs \in Seq(Seq(E)), Len(seqs) > 0,
         \A i \in DOMAIN seqs : Len(seqs[i]) > 0
  PROVE  FlattenSeq(seqs) \in Seq(E) /\ Len(FlattenSeq(seqs)) > 0
<1> DEFINE n == Len(seqs)
           c == CHOOSE f : Flattens(seqs, n, f)
           Full == {s \in Seq(E) : Len(s) > 0}
<1>1. n \in Nat /\ n # 0 /\ \A i \in 1 .. n : seqs[i] \in Full
  OBVIOUS
<1>2. Flattens(seqs, n, c)
  BY <1>1, FlattensExists, Zenon
<1>3. FlattenSeq(seqs) = c[n]
  BY <1>1, Zenon DEF FlattenSeq, Flattens
<1>4. \A s, t \in Full : s \o t \in Full
  <2> SUFFICES ASSUME NEW s \in Seq(E), Len(s) > 0,
                      NEW t \in Seq(E), Len(t) > 0
               PROVE  s \o t \in Seq(E) /\ Len(s \o t) > 0
    OBVIOUS
  <2>1. s \o t \in Seq(E) /\ Len(s \o t) = Len(s) + Len(t)
    BY ConcatProperties
  <2>2. Len(s) \in Nat /\ Len(t) \in Nat
    OBVIOUS
  <2> QED BY <2>1, <2>2
<1> HIDE DEF c, n, Full
<1>5. \A i \in 1 .. n : c[i] = IF i = 1 THEN seqs[i] ELSE c[i - 1] \o seqs[i]
  BY <1>2, Zenon DEF Flattens
<1> DEFINE S == {m \in 0 .. n : m = 0 \/ c[m] \in Full}
<1>6. 0 \in S
  BY <1>1
<1>7. ASSUME NEW m \in 0 .. n - 1, m \in S PROVE m + 1 \in S
  <2>1. m + 1 \in 1 .. n /\ (m + 1) - 1 = m
    BY <1>1
  <2>2. c[m + 1] = IF m + 1 = 1 THEN seqs[m + 1] ELSE c[m] \o seqs[m + 1]
    BY <1>5, <2>1
  <2>3. seqs[m + 1] \in Full
    BY <1>1, <2>1
  <2>4. CASE m = 0
    BY <2>1, <2>2, <2>3, <2>4
  <2>5. CASE m # 0
    <3>1. c[m] \in Full
      BY <1>7, <2>5
    <3>2. m + 1 # 1 /\ m + 1 \in 0 .. n
      BY <1>1, <2>5
    <3>3. c[m + 1] = c[m] \o seqs[m + 1]
      BY <2>2, <3>2
    <3>4. c[m + 1] \in Full
      BY <1>4, <2>3, <3>1, <3>3
    <3> QED BY <3>2, <3>4
  <2> QED BY <2>4, <2>5
<1> HIDE DEF S
<1>8. \A m \in 0 .. n : m \in S
  BY <1>1, <1>6, <1>7, UpTo
<1>9. c[n] \in Full
  BY <1>1, <1>8 DEF S
<1> QED BY <1>3, <1>9 DEF Full

(* The candidates of a valid route.                                        *)
LEMMA CandidatesOfRoute ==
  ASSUME NEW route \in Route, ValidRoute(route)
  PROVE  LET candidates == FlattenSeq(route.pools)
         IN  /\ Len(candidates) > 0
             /\ \A i \in DOMAIN candidates : candidates[i].scheme = "http"
<1> DEFINE Origin == [scheme : STRING]
           E == {o \in Origin : o.scheme = "http"}
           pools == route.pools
<1>1. pools \in Seq(Seq(Origin))
  BY DEF Route
<1>2. /\ Len(pools) > 0
      /\ \A p \in DOMAIN pools :
           /\ Len(pools[p]) > 0
           /\ \A o \in DOMAIN pools[p] : pools[p][o].scheme = "http"
  BY DEF ValidRoute
<1> HIDE DEF Origin, pools
<1>3. ASSUME NEW p \in 1 .. Len(pools) PROVE pools[p] \in Seq(E)
  <2>1. pools[p] \in Seq(Origin) /\ DOMAIN pools = 1 .. Len(pools)
    BY <1>1
  <2>2. \A o \in 1 .. Len(pools[p]) : pools[p][o] \in E
    BY <1>2, <2>1
  <2> HIDE DEF E
  <2> QED BY <2>1, <2>2
<1>4. pools \in Seq(Seq(E))
  <2>1. Len(pools) \in Nat /\ pools \in [1 .. Len(pools) -> Seq(Origin)]
    BY <1>1
  <2> HIDE DEF E
  <2>2. pools \in [1 .. Len(pools) -> Seq(E)]
    BY <1>3, <2>1
  <2> QED BY <2>1, <2>2
<1>5. FlattenSeq(pools) \in Seq(E) /\ Len(FlattenSeq(pools)) > 0
  <2> HIDE DEF E
  <2> QED BY <1>2, <1>4, FlattenedIsFull
<1>6. \A i \in DOMAIN FlattenSeq(pools) : FlattenSeq(pools)[i] \in E
  <2> HIDE DEF E
  <2> QED BY <1>5
<1> QED BY <1>5, <1>6 DEF pools

(* The limiters of a valid configuration.                                  *)
LEMMA LimitIsValid ==
  ASSUME NEW c \in Configs, Loaded(c), NEW r \in DOMAIN c.routes
  PROVE  ValidLimit(LimitOf(router[r]))
<1> DEFINE key(i) == route_key(c.routes[i])
           limited == {i \in DOMAIN c.routes : c.routes[i].ratelimit # None}
           IsLast(i, k) == /\ key(i) = k
                           /\ \A j \in limited : key(j) = k => j <= i
           last(k) == CHOOSE i \in limited : IsLast(i, k)
           keys == {key(i) : i \in limited}
           n == Len(c.routes)
<1>1. /\ route_ratelimiters = [k \in keys |-> c.routes[last(k)].ratelimit[1]]
      /\ validate(c) /\ config[1] = c
  BY RouterEntries DEF Loaded, RouteLimiters
<1>2. CASE router[r].key \in DOMAIN route_ratelimiters
  <2> DEFINE k == router[r].key
             T == {m \in 0 .. n : n - m \in limited /\ key(n - m) = k}
  <2>1. PICK i \in limited : key(i) = k
    BY <1>1, <1>2
  <2>2. n \in Nat /\ limited \in SUBSET (1 .. n)
    BY ConfigParts
  <2> HIDE DEF k, n, limited, key
  <2>3. T \in SUBSET Nat /\ n - i \in T
    <3>1. i \in 1 .. n
      BY <2>2
    <3>2. n - i \in 0 .. n /\ n - (n - i) = i
      BY <2>2, <3>1
    <3> QED BY <2>1, <2>2, <3>2
  <2>4. PICK m \in T : \A l \in T : m <= l
    <3> HIDE DEF T
    <3> QED BY <2>3, LeastElement
  <2>5. ASSUME NEW j \in limited, key(j) = k PROVE j <= n - m
    <3>1. j \in 1 .. n /\ m \in 0 .. n
      BY <2>2
    <3>2. n - j \in 0 .. n /\ n - (n - j) = j
      BY <2>2, <3>1
    <3>3. n - j \in T
      BY <2>5, <3>2
    <3>4. m <= n - j
      BY <2>4, <3>3
    <3> QED BY <2>2, <3>1, <3>4
  <2>6. n - m \in limited /\ IsLast(n - m, k)
    BY <2>5
  <2>7. last(k) \in limited
    <3> HIDE DEF IsLast
    <3> QED BY <2>6
  <2> HIDE DEF last
  <2> DEFINE own == c.routes[last(k)].ratelimit
  <2>8. /\ own # None /\ ValidLimit(own) /\ own \in Option(Limit)
    <3>1. last(k) \in DOMAIN c.routes /\ own # None
      BY <2>7 DEF limited
    <3> QED BY <1>1, <3>1, ConfigParts DEF validate, ValidRoute, Route
  <2>9. LimitOf(router[r]) = Some(own[1])
    <3> HIDE DEF keys
    <3> QED BY <1>1, <1>2 DEF LimitOf, k
  <2> QED BY <2>8, <2>9, OptionSome
<1>3. CASE router[r].key \notin DOMAIN route_ratelimiters
  BY <1>1, <1>3 DEF LimitOf, validate
<1> QED BY <1>2, <1>3

(* A request that is routed has candidates, all of them http, and limits   *)
(* above 0, whatever file validate has let through.                        *)
THEOREM RoutedRequestsAreServable == Spec => []RoutedIsServable
<1>1. Served => RoutedIsServable
  <2> SUFFICES ASSUME Served, answer # None, answer[1].route > 0
               PROVE  LET candidates == router[answer[1].route].candidates
                      IN  /\ Len(candidates) > 0
                          /\ \A i \in DOMAIN candidates :
                               candidates[i].scheme = "http"
                          /\ ValidLimit(answer[1].limit)
    BY DEF RoutedIsServable
  <2> DEFINE r == answer[1].route
  <2>1. PICK c \in Configs :
          /\ Loaded(c) /\ config[1] = c /\ r \in DOMAIN c.routes
          /\ answer[1].limit = LimitOf(router[r])
    BY Routed
  <2>2. c.routes[r] \in Route /\ ValidRoute(c.routes[r])
    BY <2>1, ConfigParts DEF Loaded, validate
  <2>3. router[r].candidates = FlattenSeq(c.routes[r].pools)
    BY <2>1, RouterEntries
  <2>4. ValidLimit(answer[1].limit)
    BY <2>1, LimitIsValid
  <2> HIDE DEF r
  <2> QED BY <2>2, <2>3, <2>4, CandidatesOfRoute DEF r
<1> QED BY <1>1, ServedInvariant, PTL

-----------------------------------------------------------------------------
(* A prefix, character by character ...                                    *)
LEMMA PrefixCharacters ==
  ASSUME NEW s \in Text, NEW t \in Text
  PROVE  IsPrefix(s, t) <=> /\ Len(s) <= Len(t)
                            /\ \A i \in 1 .. Len(s) : s[i] = t[i]
<1> DEFINE n == Len(s)
<1> SUFFICES ASSUME n <= Len(t)
             PROVE  SubSeq(s, 1, n) = SubSeq(t, 1, n)
                      <=> \A i \in 1 .. n : s[i] = t[i]
  BY DEF IsPrefix
<1>1. n \in Nat /\ Len(t) \in Nat
  BY DEF Text
<1>2. /\ \A i \in 1 .. n : s[i] \in Char
      /\ \A i \in 1 .. n : t[i] \in Char
  BY <1>1 DEF Text
<1> HIDE DEF n
<1>3. /\ SubSeq(s, 1, n) \in Text /\ Len(SubSeq(s, 1, n)) = n
      /\ \A i \in 1 .. n : SubSeq(s, 1, n)[i] = s[i]
  BY <1>1, <1>2, SubSeqProperties DEF Text
<1>4. /\ SubSeq(t, 1, n) \in Text /\ Len(SubSeq(t, 1, n)) = n
      /\ \A i \in 1 .. n : SubSeq(t, 1, n)[i] = t[i]
  BY <1>1, <1>2, SubSeqProperties DEF Text
<1>5. ASSUME \A i \in 1 .. n : s[i] = t[i]
      PROVE  SubSeq(s, 1, n) = SubSeq(t, 1, n)
  BY <1>3, <1>4, <1>5, SeqEqual DEF Text
<1>6. ASSUME SubSeq(s, 1, n) = SubSeq(t, 1, n)
      PROVE  \A i \in 1 .. n : s[i] = t[i]
  BY <1>3, <1>4, <1>6
<1> QED BY <1>5, <1>6

(* ... and a suffix.                                                       *)
LEMMA SuffixCharacters ==
  ASSUME NEW s \in Text, NEW t \in Text
  PROVE  IsSuffix(s, t)
           <=> /\ Len(s) <= Len(t)
               /\ \A i \in 1 .. Len(s) : s[i] = t[Len(t) - Len(s) + i]
<1> DEFINE n == Len(s)
           l == Len(t)
<1>1. n \in Nat /\ l \in Nat
  BY DEF Text
<1>2. ASSUME NEW u \in Text
      PROVE  /\ Reverse(u) \in Text /\ Len(Reverse(u)) = Len(u)
             /\ \A i \in 1 .. Len(u) : Reverse(u)[i] = u[Len(u) - i + 1]
  <2>1. Len(u) \in Nat /\ \A i \in 1 .. Len(u) : u[Len(u) - i + 1] \in Char
    BY DEF Text
  <2> QED BY <2>1 DEF Reverse, Text
<1>3. IsSuffix(s, t) <=>
        n <= l /\ \A i \in 1 .. n : s[n - i + 1] = t[l - i + 1]
  <2>1. IsSuffix(s, t) <=>
          n <= l /\ \A i \in 1 .. n : Reverse(s)[i] = Reverse(t)[i]
    BY <1>2, PrefixCharacters DEF IsSuffix
  <2>2. ASSUME n <= l, NEW i \in 1 .. n
        PROVE  /\ Reverse(s)[i] = s[n - i + 1]
               /\ Reverse(t)[i] = t[l - i + 1]
    BY <1>1, <1>2, <2>2
  <2> QED BY <2>1, <2>2
<1> HIDE DEF n, l
<1>4. ASSUME NEW i \in 1 .. n
      PROVE  /\ n - i + 1 \in 1 .. n
             /\ n - (n - i + 1) + 1 = i
             /\ l - n + (n - i + 1) = l - i + 1
             /\ l - (n - i + 1) + 1 = l - n + i
  BY <1>1
<1>5. (\A i \in 1 .. n : s[n - i + 1] = t[l - i + 1])
        <=> \A i \in 1 .. n : s[i] = t[l - n + i]
  <2>1. ASSUME \A i \in 1 .. n : s[n - i + 1] = t[l - i + 1],
               NEW i \in 1 .. n
        PROVE  s[i] = t[l - n + i]
    <3>1. s[n - (n - i + 1) + 1] = t[l - (n - i + 1) + 1]
      BY <1>4, <2>1
    <3> QED BY <1>4, <3>1
  <2>2. ASSUME \A i \in 1 .. n : s[i] = t[l - n + i],
               NEW i \in 1 .. n
        PROVE  s[n - i + 1] = t[l - i + 1]
    <3>1. s[n - i + 1] = t[l - n + (n - i + 1)]
      BY <1>4, <2>2
    <3> QED BY <1>4, <3>1
  <2> QED BY <2>1, <2>2
<1> QED BY <1>3, <1>5 DEF n, l

-----------------------------------------------------------------------------
\* The recursion of Glob: what the first j characters of a pattern reach, from
\* what the first j - 1 do ...
Step(value, pattern, j, before) ==
  IF j = 0 THEN {0}
  ELSE IF pattern[j] = "*"
    THEN {i \in 0 .. Len(value) : \E k \in before : k <= i}
    ELSE {i \in 1 .. Len(value) :
            i - 1 \in before /\ value[i] = pattern[j]}

\* ... and f solves it up to m.
Reaches(value, pattern, m, f) ==
  f = [j \in 0 .. m |-> Step(value, pattern, j, f[j - 1])]

(* There is a solution.                                                    *)
LEMMA ReachesExists ==
  ASSUME NEW value, NEW pattern, NEW n \in Nat
  PROVE  \E f : Reaches(value, pattern, n, f)
<1> DEFINE S == {m \in Nat : \E f : Reaches(value, pattern, m, f)}
<1>1. 0 \in S
  <2> DEFINE f == [j \in 0 .. 0 |-> {0}]
  <2>1. Reaches(value, pattern, 0, f)
    BY DEF Reaches, Step
  <2> QED BY <2>1
<1>2. ASSUME NEW m \in 0 .. n - 1, m \in S PROVE m + 1 \in S
  <2>1. PICK f : Reaches(value, pattern, m, f)
    BY <1>2
  <2> DEFINE g == [j \in 0 .. m + 1 |->
                     IF j = m + 1 THEN Step(value, pattern, j, f[m]) ELSE f[j]]
  <2>2. m \in Nat
    OBVIOUS
  <2>3. ASSUME NEW j \in 0 .. m + 1
        PROVE  g[j] = Step(value, pattern, j, g[j - 1])
    <3>1. CASE j = m + 1
      <4>1. j - 1 = m /\ g[j - 1] = f[m]
        BY <2>2, <3>1
      <4> QED BY <2>2, <3>1, <4>1
    <3>2. CASE j \in 0 .. m
      <4>1. f[j] = Step(value, pattern, j, f[j - 1])
        BY <2>1, <3>2, Zenon DEF Reaches
      <4>2. g[j] = f[j] /\ (j # 0 => g[j - 1] = f[j - 1])
        BY <2>2, <3>2
      <4>3. CASE j = 0
        BY <4>1, <4>2, <4>3 DEF Step
      <4>4. CASE j # 0
        BY <4>1, <4>2, <4>4
      <4> QED BY <4>3, <4>4
    <3> QED BY <2>2, <3>1, <3>2
  <2>4. Reaches(value, pattern, m + 1, g)
    BY <2>3, Zenon DEF Reaches
  <2> HIDE DEF g
  <2>5. m + 1 \in Nat
    BY <2>2
  <2> QED BY <2>4, <2>5, Zenon
<1> HIDE DEF S
<1>3. \A m \in 0 .. n : m \in S
  BY <1>1, <1>2, UpTo
<1>4. n \in S
  BY <1>3
<1> QED BY <1>4, Zenon DEF S

(* What Glob computes.                                                     *)
LEMMA GlobReaches ==
  ASSUME NEW value \in Text, NEW pattern \in Text
  PROVE  \E f : /\ Glob(value, pattern) <=> Len(value) \in f[Len(pattern)]
                /\ \A j \in 0 .. Len(pattern) :
                     f[j] = Step(value, pattern, j, f[j - 1])
<1> DEFINE n == Len(pattern)
           f == CHOOSE g : Reaches(value, pattern, n, g)
<1>1. n \in Nat
  BY DEF Text
<1>2. Reaches(value, pattern, n, f)
  BY <1>1, ReachesExists, Zenon
<1>3. Glob(value, pattern) <=> Len(value) \in f[n]
  BY Zenon DEF Glob, Reaches, Step
<1> HIDE DEF f
<1>4. \A j \in 0 .. n : f[j] = Step(value, pattern, j, f[j - 1])
  BY <1>2, Zenon DEF Reaches
<1> QED BY <1>3, <1>4, Zenon

(* An interval and the number after it.                                    *)
LEMMA NextInterval ==
  ASSUME NEW a \in Int, NEW b \in Int, a <= b + 1
  PROVE  a .. b + 1 = (a .. b) \cup {b + 1}
<1>1. \A l \in a .. b + 1 : l \in a .. b \/ l = b + 1
  OBVIOUS
<1>2. \A l \in a .. b : l \in a .. b + 1
  OBVIOUS
<1>3. b + 1 \in a .. b + 1
  OBVIOUS
<1> QED BY <1>1, <1>2, <1>3, Zenon

\* The first n characters of the pattern are those of value.
Begins(value, pattern, n) == \A l \in 1 .. n : value[l] = pattern[l]

(* Up to the first star, a pattern reaches what it spells.                 *)
LEMMA BeforeStar ==
  ASSUME NEW value \in Text, NEW pattern \in Text, NEW f,
         NEW m \in 0 .. Len(pattern),
         \A j \in 0 .. m : f[j] = Step(value, pattern, j, f[j - 1]),
         \A j \in 1 .. m : pattern[j] # "*"
  PROVE  \A i : i \in f[m] <=> /\ i = m /\ m <= Len(value)
                              /\ Begins(value, pattern, m)
<1> DEFINE n == Len(value)
           Is(j) == \A i : i \in f[j] <=> /\ i = j /\ j <= n
                                         /\ Begins(value, pattern, j)
           S == {j \in 0 .. m : Is(j)}
<1>1. m \in Nat /\ n \in Nat
  BY DEF Text
<1>2. 0 \in S
  <2>1. f[0] = {0}
    <3>1. f[0] = Step(value, pattern, 0, f[0 - 1])
      BY <1>1
    <3> QED BY <3>1 DEF Step
  <2>2. Begins(value, pattern, 0)
    BY DEF Begins
  <2> QED BY <1>1, <2>1, <2>2
<1>3. ASSUME NEW j \in 0 .. m - 1, j \in S PROVE j + 1 \in S
  <2>1. j \in Nat /\ j + 1 \in 1 .. m /\ (j + 1) - 1 = j /\ j + 1 # 0
    BY <1>1
  <2>2. f[j + 1] = {i \in 1 .. n : i - 1 \in f[j]
                                   /\ value[i] = pattern[j + 1]}
    <3>1. f[j + 1] = Step(value, pattern, j + 1, f[j])
      BY <1>1, <2>1
    <3> QED BY <2>1, <3>1 DEF Step
  <2>3. \A i : i \in f[j] <=> i = j /\ j <= n /\ Begins(value, pattern, j)
    BY <1>3
  <2>4. Begins(value, pattern, j + 1)
          <=> Begins(value, pattern, j) /\ value[j + 1] = pattern[j + 1]
    <3>1. 1 .. j + 1 = (1 .. j) \cup {j + 1}
      BY <2>1, NextInterval
    <3> QED BY <3>1, Zenon DEF Begins
  <2>5. ASSUME NEW i
        PROVE  i \in f[j + 1] <=> /\ i = j + 1 /\ j + 1 <= n
                                  /\ Begins(value, pattern, j + 1)
    <3>1. CASE i \in 1 .. n
      <4>1. i - 1 = j <=> i = j + 1
        BY <2>1, <3>1
      <4>2. i - 1 \in f[j]
              <=> i = j + 1 /\ j <= n /\ Begins(value, pattern, j)
        BY <2>3, <4>1
      <4>3. i \in f[j + 1] <=> i - 1 \in f[j] /\ value[i] = pattern[j + 1]
        BY <2>2, <3>1
      <4>4. i = j + 1 => j <= n /\ j + 1 <= n
        BY <1>1, <2>1, <3>1
      <4> QED BY <2>4, <4>2, <4>3, <4>4
    <3>2. CASE i \notin 1 .. n
      BY <1>1, <2>1, <2>2, <3>2
    <3> QED BY <3>1, <3>2
  <2> QED BY <1>1, <2>1, <2>5
<1> HIDE DEF S
<1>4. \A j \in 0 .. m : j \in S
  BY <1>1, <1>2, <1>3, UpTo
<1>5. m \in S
  BY <1>1, <1>4
<1> QED BY <1>5 DEF S

\* The characters s + 1 .. j of the pattern are the last ones of the first i
\* of value.
Ends(value, pattern, s, j, i) ==
  \A l \in s + 1 .. j : value[i - j + l] = pattern[l]

(* From its only star on, a pattern reaches everything that begins with    *)
(* what stands before the star and ends with what stands after it.         *)
LEMMA AfterStar ==
  ASSUME NEW value \in Text, NEW pattern \in Text, NEW f,
         NEW s \in 1 .. Len(pattern), NEW m \in s .. Len(pattern),
         \A j \in 0 .. m : f[j] = Step(value, pattern, j, f[j - 1]),
         \A j \in 1 .. m : pattern[j] = "*" <=> j = s
  PROVE  \A i : i \in f[m] <=> /\ i \in 0 .. Len(value) /\ i >= m - 1
                              /\ Begins(value, pattern, s - 1)
                              /\ Ends(value, pattern, s, m, i)
<1> DEFINE n == Len(value)
           Is(j) == \A i : i \in f[j] <=> /\ i \in 0 .. n /\ i >= j - 1
                                         /\ Begins(value, pattern, s - 1)
                                         /\ Ends(value, pattern, s, j, i)
           S == {d \in 0 .. m - s : Is(s + d)}
<1>1. m \in Nat /\ n \in Nat /\ s \in Nat /\ 1 <= s /\ s <= m
  BY DEF Text
<1>2. Is(s)
  <2>1. /\ s - 1 \in 0 .. Len(pattern)
        /\ \A j \in 0 .. s - 1 : f[j] = Step(value, pattern, j, f[j - 1])
        /\ \A j \in 1 .. s - 1 : pattern[j] # "*"
    BY <1>1
  <2>2. \A i : i \in f[s - 1] <=> /\ i = s - 1 /\ s - 1 <= n
                                 /\ Begins(value, pattern, s - 1)
    BY <2>1, BeforeStar
  <2>3. f[s] = {i \in 0 .. n : \E k \in f[s - 1] : k <= i}
    <3>1. f[s] = Step(value, pattern, s, f[s - 1])
      BY <1>1
    <3>2. s # 0 /\ pattern[s] = "*"
      BY <1>1
    <3> QED BY <3>1, <3>2 DEF Step
  <2>4. \A i : Ends(value, pattern, s, s, i)
    BY <1>1 DEF Ends
  <2> QED BY <1>1, <2>2, <2>3, <2>4
<1>3. 0 \in S
  <2>1. s + 0 = s /\ 0 \in 0 .. m - s
    BY <1>1
  <2> QED BY <1>2, <2>1
<1>4. ASSUME NEW d \in 0 .. (m - s) - 1, d \in S PROVE d + 1 \in S
  <2> DEFINE j == s + d
  <2>1. /\ j \in Nat /\ j + 1 \in 1 .. m /\ (j + 1) - 1 = j /\ j + 1 # 0
        /\ j + 1 # s /\ j >= s /\ s + (d + 1) = j + 1 /\ d + 1 \in 0 .. m - s
    BY <1>1
  <2>2. Is(j)
    BY <1>4
  <2> HIDE DEF j
  <2>3. f[j + 1] = {i \in 1 .. n : i - 1 \in f[j]
                                   /\ value[i] = pattern[j + 1]}
    <3>1. f[j + 1] = Step(value, pattern, j + 1, f[j])
      BY <1>1, <2>1
    <3>2. pattern[j + 1] # "*"
      BY <2>1
    <3> QED BY <2>1, <3>1, <3>2 DEF Step
  <2>4. ASSUME NEW i \in 1 .. n
        PROVE  Ends(value, pattern, s, j + 1, i)
                 <=> /\ Ends(value, pattern, s, j, i - 1)
                     /\ value[i] = pattern[j + 1]
    <3>1. s + 1 .. j + 1 = (s + 1 .. j) \cup {j + 1}
      <4>1. s + 1 \in Int /\ j \in Int /\ s + 1 <= j + 1
        BY <1>1, <2>1
      <4> QED BY <4>1, NextInterval
    <3>2. \A l \in s + 1 .. j : i - (j + 1) + l = i - 1 - j + l
      BY <1>1, <2>1
    <3>3. i - (j + 1) + (j + 1) = i
      BY <1>1, <2>1
    <3>4. Ends(value, pattern, s, j + 1, i)
            <=> /\ \A l \in s + 1 .. j : value[i - (j + 1) + l] = pattern[l]
                /\ value[i - (j + 1) + (j + 1)] = pattern[j + 1]
      BY <3>1, Zenon DEF Ends
    <3>5. Ends(value, pattern, s, j, i - 1)
            <=> \A l \in s + 1 .. j : value[i - (j + 1) + l] = pattern[l]
      BY <3>2 DEF Ends
    <3> QED BY <3>3, <3>4, <3>5
  <2>5. ASSUME NEW i
        PROVE  i \in f[j + 1] <=> /\ i \in 0 .. n /\ i >= (j + 1) - 1
                                  /\ Begins(value, pattern, s - 1)
                                  /\ Ends(value, pattern, s, j + 1, i)
    <3>1. CASE i \in 1 .. n
      <4>1. /\ i - 1 \in 0 .. n /\ i \in 0 .. n
            /\ i - 1 >= j - 1 <=> i >= (j + 1) - 1
        BY <1>1, <2>1, <3>1
      <4>2. i - 1 \in f[j] <=> /\ i - 1 >= j - 1
                              /\ Begins(value, pattern, s - 1)
                              /\ Ends(value, pattern, s, j, i - 1)
        BY <2>2, <4>1
      <4>3. i \in f[j + 1] <=> i - 1 \in f[j] /\ value[i] = pattern[j + 1]
        BY <2>3, <3>1
      <4> QED BY <2>4, <3>1, <4>1, <4>2, <4>3
    <3>2. CASE i \notin 1 .. n
      <4>1. i \notin f[j + 1]
        BY <2>3, <3>2
      <4>2. ~(i \in 0 .. n /\ i >= (j + 1) - 1)
        BY <1>1, <2>1, <3>2
      <4> QED BY <4>1, <4>2
    <3> QED BY <3>1, <3>2
  <2> QED BY <2>1, <2>5
<1> HIDE DEF S
<1>5. \A d \in 0 .. m - s : d \in S
  <2>1. m - s \in Nat
    BY <1>1
  <2> QED BY <1>3, <1>4, <2>1, UpTo
<1>6. m - s \in S /\ s + (m - s) = m
  BY <1>1, <1>5
<1> QED BY <1>6 DEF S

(* A part of a text, character by character.                               *)
LEMMA PartCharacters ==
  ASSUME NEW t \in Text, NEW a \in Nat, NEW b \in Nat,
         1 <= a, a <= b + 1, b <= Len(t)
  PROVE  LET part == SubSeq(t, a, b)
         IN  /\ part \in Text /\ Len(part) = b - a + 1
             /\ \A i \in 1 .. b - a + 1 : part[i] = t[a + i - 1]
<1> DEFINE part == SubSeq(t, a, b)
<1>1. Len(t) \in Nat /\ \A i \in 1 .. Len(t) : t[i] \in Char
  BY DEF Text
<1>2. a \in Int /\ b \in Int /\ \A i \in a .. b : t[i] \in Char
  BY <1>1
<1>3. /\ part \in Seq(Char) /\ Len(part) = IF a <= b THEN b - a + 1 ELSE 0
      /\ \A i \in 1 .. b - a + 1 : part[i] = t[a + i - 1]
  BY <1>2, SubSeqProperties
<1> HIDE DEF part
<1>4. Len(part) = b - a + 1
  BY <1>3
<1> QED BY <1>3, <1>4 DEF part, Text

(* Prefix and suffix around the only star, character by character.         *)
LEMMA GlobCharacters ==
  ASSUME NEW value \in Text, NEW pattern \in Text,
         NEW s \in 1 .. Len(pattern), Stars(pattern) = {s},
         Len(value) >= Len(pattern) - 1
  PROVE  match_glob(value, pattern)
           <=> /\ Begins(value, pattern, s - 1)
               /\ Ends(value, pattern, s, Len(pattern), Len(value))
<1> DEFINE n == Len(value)
           m == Len(pattern)
           before == SubSeq(pattern, 1, s - 1)
           after == SubSeq(pattern, s + 1, m)
<1>1. n \in Nat /\ m \in Nat /\ s \in Nat /\ 1 <= s /\ s <= m /\ n >= m - 1
  BY DEF Text
<1>2. match_glob(value, pattern) <=> IsPrefix(before, value)
                                     /\ IsSuffix(after, value)
  <2>1. Cardinality(Stars(pattern)) = 1
    BY FS_Singleton
  <2> QED BY <2>1 DEF match_glob
<1>3. m <= Len(pattern) /\ s - 1 <= Len(pattern)
  BY <1>1
<1> HIDE DEF n, m
<1>4. /\ before \in Text /\ Len(before) = s - 1
      /\ \A i \in 1 .. s - 1 : before[i] = pattern[i]
  <2>1. /\ s - 1 \in Nat /\ 1 <= (s - 1) + 1 /\ (s - 1) - 1 + 1 = s - 1
        /\ \A i \in 1 .. s - 1 : 1 + i - 1 = i
    BY <1>1
  <2>2. /\ before \in Text /\ Len(before) = (s - 1) - 1 + 1
        /\ \A i \in 1 .. (s - 1) - 1 + 1 : before[i] = pattern[1 + i - 1]
    BY <1>3, <2>1, PartCharacters
  <2> HIDE DEF before
  <2> QED BY <2>1, <2>2
<1>5. /\ after \in Text /\ Len(after) = m - s
      /\ \A i \in 1 .. m - s : after[i] = pattern[s + i]
  <2>1. /\ s + 1 \in Nat /\ 1 <= s + 1 /\ s + 1 <= m + 1
        /\ m - (s + 1) + 1 = m - s
        /\ \A i \in 1 .. m - s : (s + 1) + i - 1 = s + i
    BY <1>1
  <2>2. /\ after \in Text /\ Len(after) = m - (s + 1) + 1
        /\ \A i \in 1 .. m - (s + 1) + 1 : after[i] = pattern[(s + 1) + i - 1]
    BY <1>1, <1>3, <2>1, PartCharacters
  <2> HIDE DEF after
  <2> QED BY <2>1, <2>2
<1> HIDE DEF before, after
<1>6. IsPrefix(before, value) <=> Begins(value, pattern, s - 1)
  <2>1. IsPrefix(before, value)
          <=> s - 1 <= n /\ \A i \in 1 .. s - 1 : before[i] = value[i]
    BY <1>4, PrefixCharacters DEF n
  <2>2. s - 1 <= n
    BY <1>1
  <2> QED BY <1>4, <2>1, <2>2 DEF Begins
<1>7. IsSuffix(after, value) <=> Ends(value, pattern, s, m, n)
  <2>1. IsSuffix(after, value)
          <=> /\ m - s <= n
              /\ \A i \in 1 .. m - s : after[i] = value[n - (m - s) + i]
    <3>1. IsSuffix(after, value)
            <=> /\ Len(after) <= n
                /\ \A i \in 1 .. Len(after) :
                     after[i] = value[n - Len(after) + i]
      BY <1>5, SuffixCharacters DEF n
    <3> QED BY <1>5, <3>1
  <2>2. m - s <= n
    BY <1>1
  <2>3. ASSUME \A i \in 1 .. m - s : after[i] = value[n - (m - s) + i],
               NEW l \in s + 1 .. m
        PROVE  value[n - m + l] = pattern[l]
    <3>1. /\ l - s \in 1 .. m - s /\ s + (l - s) = l
          /\ n - (m - s) + (l - s) = n - m + l
      BY <1>1
    <3>2. after[l - s] = value[n - (m - s) + (l - s)]
      BY <2>3, <3>1
    <3>3. after[l - s] = pattern[s + (l - s)]
      BY <1>5, <3>1
    <3> QED BY <3>1, <3>2, <3>3
  <2>4. ASSUME Ends(value, pattern, s, m, n), NEW i \in 1 .. m - s
        PROVE  after[i] = value[n - (m - s) + i]
    <3>1. s + i \in s + 1 .. m /\ n - m + (s + i) = n - (m - s) + i
      BY <1>1
    <3>2. value[n - m + (s + i)] = pattern[s + i]
      BY <2>4, <3>1 DEF Ends
    <3> QED BY <1>5, <3>1, <3>2
  <2>5. Ends(value, pattern, s, m, n)
          <=> \A i \in 1 .. m - s : after[i] = value[n - (m - s) + i]
    BY <2>3, <2>4 DEF Ends
  <2> QED BY <2>1, <2>2, <2>5
<1> QED BY <1>2, <1>6, <1>7 DEF n, m

(* match_glob is globbing, for every pattern with one star or none and     *)
(* every value that is not shorter than the pattern's other characters.    *)
(* (A shorter one can match with what the star should separate: "ab" and   *)
(* "b" overlap in "ab*b".)                                                 *)
THEOREM GlobIsPrefixAndSuffix ==
  ASSUME NEW value \in Text, NEW pattern \in Text,
         \/ Stars(pattern) = {}
         \/ /\ Cardinality(Stars(pattern)) = 1
            /\ Len(value) >= Len(pattern) - 1
  PROVE  match_glob(value, pattern) <=> Glob(value, pattern)
<1> DEFINE n == Len(value)
           m == Len(pattern)
<1>1. PICK f : /\ Glob(value, pattern) <=> n \in f[m]
               /\ \A j \in 0 .. m : f[j] = Step(value, pattern, j, f[j - 1])
  BY GlobReaches
<1>2. n \in Nat /\ m \in Nat /\ DOMAIN pattern = 1 .. m
  BY DEF Text
<1>3. CASE Stars(pattern) = {}
  <2>1. \A j \in 1 .. m : pattern[j] # "*"
    BY <1>2, <1>3 DEF Stars
  <2>2. n \in f[m] <=> n = m /\ m <= n /\ Begins(value, pattern, m)
    <3>1. m \in 0 .. Len(pattern)
      BY <1>2
    <3> QED BY <1>1, <2>1, <3>1, BeforeStar
  <2>3. match_glob(value, pattern) <=> value = pattern
    BY <1>3, FS_EmptySet DEF match_glob
  <2>4. value = pattern <=> n = m /\ Begins(value, pattern, m)
    <3>1. ASSUME value = pattern PROVE n = m /\ Begins(value, pattern, m)
      BY <3>1 DEF Begins
    <3>2. ASSUME n = m, Begins(value, pattern, m) PROVE value = pattern
      BY <3>2, SeqEqual DEF Begins, Text
    <3> QED BY <3>1, <3>2
  <2> QED BY <1>1, <1>2, <2>2, <2>3, <2>4
<1>4. CASE Cardinality(Stars(pattern)) = 1 /\ n >= m - 1
  <2>1. PICK s : Stars(pattern) = {s}
    <3>1. IsFiniteSet(Stars(pattern))
      <4>1. IsFiniteSet(1 .. m)
        BY <1>2, FS_Interval
      <4>2. Stars(pattern) \subseteq 1 .. m
        BY <1>2 DEF Stars
      <4> QED BY <4>1, <4>2, FS_Subset
    <3> QED BY <1>4, <3>1, FS_Singleton
  <2>2. s \in 1 .. m /\ \A j \in 1 .. m : pattern[j] = "*" <=> j = s
    BY <1>2, <2>1 DEF Stars
  <2>3. n \in f[m] <=> /\ n \in 0 .. n /\ n >= m - 1
                      /\ Begins(value, pattern, s - 1)
                      /\ Ends(value, pattern, s, m, n)
    <3>1. m \in s .. Len(pattern)
      BY <1>2, <2>2
    <3> QED BY <1>1, <2>2, <3>1, AfterStar
  <2>4. match_glob(value, pattern) <=> /\ Begins(value, pattern, s - 1)
                                      /\ Ends(value, pattern, s, m, n)
    BY <1>4, <2>1, <2>2, GlobCharacters
  <2> QED BY <1>1, <1>2, <1>4, <2>3, <2>4
<1> QED BY <1>3, <1>4

(* A request goes to the first route whose glob and path prefix match,     *)
(* whatever the routes, within the limits of match_glob.                   *)
THEOREM RequestsAreRoutedByGlob == Spec => []RoutedByGlob
<1>1. Served => RoutedByGlob
  <2> SUFFICES ASSUME Served, answer # None,
                      \A i \in DOMAIN router :
                        WithinGlobLimits(router[i], answer[1].host)
               PROVE  answer[1].route
                        = DocumentedRoute(answer[1].host, answer[1].path)
    BY DEF RoutedByGlob
  <2>1. PICK c \in Configs : Loaded(c)
    BY DEF Served
  <2>2. PICK host \in Hosts, path \in Paths : answer = Some(Answer(host, path))
    BY DEF Served
  <2>3. /\ answer[1].host = host /\ answer[1].path = path
        /\ answer[1].route = match_route(host, path)
    BY <2>2 DEF Answer, Some
  <2>4. /\ config[1] = c /\ DOMAIN router = 1 .. Len(c.routes)
        /\ Len(router) = Len(c.routes)
        /\ \A i \in 1 .. Len(c.routes) :
             /\ c.routes[i] \in Route
             /\ router[i].match_host = c.routes[i].match_host
             /\ router[i].match_path = c.routes[i].match_path
    BY <2>1, RouterEntries, ConfigParts
  <2>5. ASSUME NEW i \in 1 .. Len(c.routes)
        PROVE  Matches(router[i], host, path)
                 <=> DocumentedMatch(c.routes[i], host, path)
    <3> DEFINE p == c.routes[i].match_host
    <3>1. CASE p = None
      BY <2>4, <3>1 DEF Matches, DocumentedMatch
    <3>2. CASE p # None
      <4>1. p[1] \in Text
        BY <2>4, <3>2, OptionSome DEF Route
      <4>2. host \in Text
        BY RoutingAssumption
      <4>3. \/ Stars(p[1]) = {}
            \/ /\ Cardinality(Stars(p[1])) = 1
               /\ Len(host) >= Len(p[1]) - 1
        BY <2>3, <2>4, <3>2 DEF WithinGlobLimits
      <4>4. match_glob(host, p[1]) <=> Glob(host, p[1])
        BY <4>1, <4>2, <4>3, GlobIsPrefixAndSuffix
      <4> QED BY <2>4, <3>2, <4>4 DEF Matches, DocumentedMatch
    <3> QED BY <3>1, <3>2
  <2> DEFINE I == {i \in 1 .. Len(router) : Matches(router[i], host, path)}
             J == {i \in 1 .. Len(c.routes) :
                     DocumentedMatch(c.routes[i], host, path)}
  <2>6. I = J
    BY <2>4, <2>5
  <2>7. match_route(host, path) = IF I # {} THEN Min(I) ELSE 0
    BY DEF match_route, SelectInSeq
  <2>8. DocumentedRoute(host, path) = IF J # {} THEN Min(J) ELSE 0
    BY <2>4 DEF DocumentedRoute, SelectInSeq
  <2> HIDE DEF I, J
  <2> QED BY <2>3, <2>6, <2>7, <2>8
<1> QED BY <1>1, ServedInvariant, PTL

=============================================================================
