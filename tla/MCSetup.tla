------------------------------ MODULE MCSetup ------------------------------
(***************************************************************************)
(* Three entries: one can fail or panic while another is set up or removed *)
(* and a third is running.  A configuration that is in order is varied in  *)
(* one respect at a time: the url of an entry with the upnp option, the    *)
(* metadata of its watcher, the watchers' sections, the options of the     *)
(* clients, and the host's name.                                           *)
(***************************************************************************)
EXTENDS Setup

CONSTANTS e1, e2, e3

MCPorts == {80, 1111, 50000}

\* The value 0 5 w text of an SRV record, for a word w.
Srv(w) == <<<<0>>, <<5>>, w, <<Text>>>>

SrvValue == Srv(<<Port>>)

Md == [name |-> "cf", value |-> SrvValue, domain |-> <<"www", "example", "com">>,
       type |-> "srv", priority |-> FALSE, rid |-> None]

Watched(name) == [Md EXCEPT !.name = name]
DnsMds == {Watched(name) : name \in DnsKinds}

Domains == {None, <<Empty>>, <<"com">>, <<"com", Empty>>, <<"example", "com">>,
            <<Empty, "com">>, <<"example", "com", Empty>>, <<Empty, "example", "com">>,
            <<"a", "b", "example", "com">>, <<"@", "example", "com">>, <<"a", Empty, "example", "com">>}

\* 6{port} and {port}5 are numbers only a few ports fit into, 05 and 0{port} have a
\* zero in front.
Values ==
    {<<>>, <<<<Ip>>>>, SrvValue, <<<<0>>, <<70000>>, <<Port>>, <<Text>>>>,
     <<<<Text>>, <<Ip>>, <<Port>>, <<Text>>>>}
    \cup {Srv(w) : w \in {<<6, Port>>, <<Port, 5>>, <<Port, Port>>, <<0, 5>>, <<0, Port>>,
                          <<Port, Text>>, <<Ip, Port>>}}

Types == {None, "A", "srv", "svcb", "https", "mx", "uri", "NS"}

Metadatas ==
    {[md EXCEPT !.domain = d] : md \in DnsMds, d \in Domains}
    \cup {[md EXCEPT !.rid = r] : md \in DnsMds, r \in {"number", "text"}}
    \cup {[md EXCEPT !.type = t, !.priority = p] :
            md \in DnsMds, t \in Types, p \in BOOLEAN}
    \cup {[Md EXCEPT !.value = v, !.type = t, !.priority = TRUE] :
            v \in Values, t \in Types}
    \cup {[Watched(name) EXCEPT !.value = v] :
            name \in {"http", "script", "nobody"}, v \in Values}

Urls ==
    {None} \cup [scheme : TcpSchemes \cup UdpSchemes \cup {"http"},
                 host : {None, "v4", "v6", "name"}, port : BOOLEAN]

UrlOf(scheme) == [scheme |-> scheme, host |-> "v4", port |-> TRUE]

(***************************************************************************)
(* A watcher of each kind, named like it; the HTTP watcher has both        *)
(* placeholders in its query and its body, and none in the url's path.     *)
(***************************************************************************)
Base ==
    [upnp |-> FALSE, hostname |-> TRUE,
     map |-> (e1 :> [url |-> UrlOf("tcp"), watchers |-> <<Md>>])
             @@ (e2 :> [url |-> UrlOf("udp"), watchers |-> <<>>])
             @@ (e3 :> [url |-> UrlOf("udp"), watchers |-> <<Md>>]),
     sections |-> [k \in Kinds |-> {k}], malformed |-> {}, unsendable |-> {},
     http |-> [path |-> <<<<Text>>>>, query |-> <<<<Ip>>, <<Port>>>>,
               body |-> <<<<Ip>>, <<Port>>>>],
     tcp |-> None, udp |-> None]

WithUrl ==
    {[Base EXCEPT !.upnp = u, !.map[e1].url = url, !.map[e2].url = UrlOf(s)] :
        u \in {None, TRUE, FALSE}, url \in Urls, s \in {"udp", "upnp+udp"}}
WithoutHostname ==
    {[Base EXCEPT !.hostname = FALSE, !.upnp = u, !.map[e1].url = UrlOf(s)] :
        u \in {None, FALSE}, s \in {"tcp", "tcp+upnp"}}
WithMetadata == {[Base EXCEPT !.map[e1].watchers = <<md>>] : md \in Metadatas}

\* A watcher with a setting or a secret amiss, and one whose name is in a second
\* section.
WithSections ==
    {[Base EXCEPT !.malformed = {k}] : k \in Kinds}
    \cup {[Base EXCEPT !.unsendable = {k},
                       !.map[e1].watchers = <<Watched(k), Watched("alidns")>>,
                       !.map[e2].watchers = <<Watched("script")>>] : k \in DnsKinds}
    \cup {[Base EXCEPT !.sections[k] = {k, "cf"}, !.unsendable = u] :
            k \in Kinds, u \in {{}, {"cf"}}}

Numbers == {None, 0, 2}
WithOptions ==
    {[Base EXCEPT !.tcp = [stun |-> s, interval |-> i, stun_interval |-> j,
                           keepalive |-> k],
                  !.udp = [stun |-> s, interval |-> i]] :
        s \in Numbers, i \in Numbers, j \in Numbers, k \in {None, "bad"}}

MCConfigs ==
    WithUrl \cup WithoutHostname \cup WithMetadata \cup WithSections \cup WithOptions

\* The url of the HTTP watcher with a placeholder in its path.
MCConfigsPath ==
    {[Base EXCEPT !.http.path = <<<<Text>>, <<Port>>>>,
                  !.map[e1].watchers = <<Watched("http")>>]}
=============================================================================
