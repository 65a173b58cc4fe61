----------------------------- MODULE MCRouting -----------------------------
(***************************************************************************)
(* Model-checking instances of Routing.                                    *)
(***************************************************************************)
EXTENDS Routing

Characters == {"a", "b", "8", "*", ":", "/"}

http == [scheme |-> "http"]
https == [scheme |-> "https"]
Pool == << << http >> >>
Slow == Some([rate |-> 1, burst |-> 1])
Fast == Some([rate |-> 2, burst |-> 4])
Zero == Some([rate |-> 1, burst |-> 0])

RouteOf(host, path, pools, limit) ==
  [match_host |-> host, match_path |-> path, pools |-> pools,
   ratelimit |-> limit]

Config(routes, limit, pages) ==
  [routes |-> routes, ratelimit |-> limit, error_pages |-> pages]

Options(S) == {None} \cup {Some(s) : s \in S}

\* Every pattern of up to three characters, alone and before a catch-all.
GlobRoutes == {RouteOf(Some(p), None, Pool, None) : p \in SeqOf({"a", "b", "*"}, 3)}
GlobConfigs ==
  {Config(<< r >>, None, None) : r \in GlobRoutes}
  \cup {Config(<< r, RouteOf(None, Some(<< "/", "a" >>), Pool, None) >>, None, None) :
          r \in GlobRoutes}

\* Pairs of routes, one host with a port, "*" written out or left out, and a
\* path prefix that looks like a port.
HostPatterns == { << "*" >>, << "a" >>, << "a", ":", "8" >>, << "a", "*" >> }
PathPrefixes == { << "/", "a" >>, << "8", ":", "/", "a" >> }
LimitRoutes ==
  {RouteOf(h, p, Pool, l) :
     h \in Options(HostPatterns), p \in Options(PathPrefixes), l \in {None, Slow, Fast}}
LimitConfigs ==
  {Config(<< r, s >>, None, None) : r, s \in LimitRoutes}

\* Files with one mistake or none of each kind that validate looks for.
PoolLists == { << >>, << << >> >>, Pool, << << http >>, << >> >>,
               << << http, https >> >>, << << http >>, << http, http >> >> }
FileConfigs ==
  {Config(<< RouteOf(None, p, pools, l) >>, g, pages) :
     p \in Options({<< "/", "a" >>}), pools \in PoolLists,
     l \in {None, Slow, Zero}, g \in {None, Fast, Zero},
     pages \in {None, Some("directory"), Some("missing directory")}}

AllConfigs == GlobConfigs \cup LimitConfigs \cup FileConfigs
AllHosts == SeqOf({"a", "b"}, 3) \cup { << "a", ":", "8" >> }
SomePaths == { << "/" >>, << "/", "a" >> }
=============================================================================
