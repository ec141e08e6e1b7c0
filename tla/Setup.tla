------------------------------- MODULE Setup -------------------------------
(***************************************************************************)
(* Program with the configuration: run in src/mapper.rs makes the watchers *)
(* of all sections, looks for the gateway if the configuration needs one,  *)
(* and sets up each entry from its url, the metadata of its watchers and   *)
(* the options of its client.  Any error ends the program.  The task of an *)
(* entry that is set up calls the entry's watchers, which rely on what the *)
(* validation let pass.                                                    *)
(***************************************************************************)
EXTENDS Program, Watchers

CONSTANTS
    Configs,    \* configurations, as serde makes them of the file, and whether the
                \* host's name is UTF-8 text
    Ports       \* ports a client may report

IsGiven(x, S) == x # None => x \in S

SettingsAssumption ==
    \A c \in Configs :
        /\ c.tcp # None =>
            \A f \in {"stun", "interval", "stun_interval"} : IsGiven(c.tcp[f], Nat)
        /\ c.udp # None => \A f \in {"stun", "interval"} : IsGiven(c.udp[f], Nat)

MetadataAssumption ==
    \A c \in Configs, e \in Entries :
        \A i \in DOMAIN c.map[e].watchers :
            /\ c.map[e].watchers[i].value \in Seq(Word)
            /\ IsGiven(c.map[e].watchers[i].domain, Seq(STRING) \ {<<>>})

ASSUME SetupAssumption == Ports \subseteq U16 /\ SettingsAssumption /\ MetadataAssumption

VARIABLES
    cfg,        \* the configuration
    prep,       \* what run is about to do: make the watchers, look for the
                \* gateway, or set up the entries
    gateway,    \* Is the Option<Arc<Upnp>> Some?
    fault,      \* an unwrap of run or of add_port has panicked
    settings,   \* what each client is built with
    sent        \* history: the last call of new_address and what it came to

config == <<cfg, prep, gateway, fault, settings, sent>>
allVars == <<vars, config>>
-----------------------------------------------------------------------------
(***************************************************************************)
(* map_watcher! merges the sections in this order: of two watchers with    *)
(* one name the later remains.  What the watchers of a kind share but      *)
(* their name is not told apart; malformed names the watchers of which the *)
(* url or the headers do not parse, unsendable those of which the secret   *)
(* makes no header.                                                        *)
(***************************************************************************)
Order == <<"dnspod", "http", "script", "alidns", "cf">>

Named == UNION {cfg.sections[k] : k \in Kinds}

\* The place in Order of the section whose watcher of this name remains.
Place(name) ==
    CHOOSE i \in 1 .. 5 :
        /\ name \in cfg.sections[Order[i]]
        /\ \A j \in i + 1 .. 5 : name \notin cfg.sections[Order[j]]

watcher_map ==
    [name \in Named |-> [kind |-> Order[Place(name)], sound |-> name \notin cfg.unsendable]]

\* Http::new and AliDns::new parse their settings, the others do not.
SectionsParse == (cfg.sections["http"] \cup cfg.sections["alidns"]) \cap cfg.malformed = {}

(***************************************************************************)
(* The url of an entry, None if it does not parse.                         *)
(***************************************************************************)
Url(e) == cfg.map[e].url
Metadata(e) == cfg.map[e].watchers

TcpSchemes == {"tcp", "tcp+upnp", "upnp+tcp"}
UdpSchemes == {"udp", "udp+upnp", "upnp+udp"}

upnp_enabled(url) ==
    /\ url # None
    /\ url.scheme \in (TcpSchemes \cup UdpSchemes) \ {"tcp", "udp"}

global_upnp == cfg.upnp # FALSE

\* A slip the checks must notice: the schemes are not looked at.
NeedsGlobalOnly == global_upnp

NeedsGateway == global_upnp \/ \E e \in Entries : upnp_enabled(Url(e))

\* The entry's url and its watchers' metadata pass; its port is mapped.
Legal(e) ==
    /\ Url(e) # None
    /\ Url(e).host # None /\ Url(e).port
    /\ \A i \in DOMAIN Metadata(e) :
        LET md == Metadata(e)[i]
        IN  md.name \in Named /\ validate(watcher_map[md.name].kind, md)
    /\ Url(e).scheme \in TcpSchemes \cup UdpSchemes

PortMapped(e) == Url(e).scheme \notin {"tcp", "udp"} \/ global_upnp

(***************************************************************************)
(* The builders: zero and an empty list leave the default in place.        *)
(***************************************************************************)
\* A slip: whatever is given is taken.
OverGiven(default, given) == IF given = None THEN default ELSE given

Over(default, given) == IF given \in {None, 0} THEN default ELSE given

TcpSettings(opt) ==
    IF opt = None
    THEN [stun |-> 1, interval |-> 50, stun_interval |-> 300]
    ELSE [stun |-> Over(1, opt.stun), interval |-> Over(50, opt.interval),
          stun_interval |-> Over(300, opt.stun_interval)]

UdpSettings(opt) ==
    IF opt = None
    THEN [stun |-> 4, interval |-> 20]
    ELSE [stun |-> Over(4, opt.stun), interval |-> Over(20, opt.interval)]

ClientSettings(e) ==
    IF Url(e).scheme \in TcpSchemes THEN TcpSettings(cfg.tcp) ELSE UdpSettings(cfg.udp)

(***************************************************************************)
(* The address a client binds is an IPv4 one if the port is mapped; a TCP  *)
(* client binds no other, no client a name, and a TCP client parses the    *)
(* url of its keep-alive server.                                           *)
(***************************************************************************)
Binds(e) ==
    /\ PortMapped(e) \/ Url(e).host # "name"
    /\ Url(e).scheme \in TcpSchemes =>
        /\ PortMapped(e) \/ Url(e).host = "v4"
        /\ cfg.tcp # None => cfg.tcp.keepalive # "bad"
-----------------------------------------------------------------------------
TypeOKSetup ==
    /\ TypeOK
    /\ prep \in {"watchers", "gateway", "entries"}
    /\ gateway \in BOOLEAN
    /\ fault \in BOOLEAN
    /\ settings \in [Entries -> [stun : Nat, interval : Nat] \cup {None} \cup
                                [stun : Nat, interval : Nat, stun_interval : Nat]]
    /\ sent # None =>
        /\ sent.entry \in Entries /\ sent.index \in DOMAIN Metadata(sent.entry)
        /\ sent.outcome \in {"sent", "err", "panic"}

InitSetup ==
    /\ Init
    /\ cfg \in Configs
    /\ prep = "watchers"
    /\ gateway = FALSE
    /\ fault = FALSE
    /\ settings = [e \in Entries |-> None]
    /\ sent = None

\* run returns an error.
Fails == SetupErr /\ UNCHANGED <<gateway, settings>>

MapWatchers ==
    /\ prep = "watchers" /\ stage = "setup"
    /\ \/ SectionsParse /\ prep' = "gateway" /\ UNCHANGED <<vars, gateway, settings>>
       \/ ~SectionsParse /\ UNCHANGED prep /\ Fails
    /\ UNCHANGED <<cfg, fault, sent>>

\* Upnp::new, if it is needed.
FindGateway ==
    /\ prep = "gateway" /\ stage = "setup"
    /\ \/ NeedsGateway /\ UNCHANGED prep /\ Fails
       \/ /\ gateway' = NeedsGateway
          /\ prep' = "entries"
          /\ UNCHANGED <<vars, settings>>
    /\ UNCHANGED <<cfg, fault, sent>>

(***************************************************************************)
(* The loop over the map, in any order: the entry's url and metadata are   *)
(* checked, and the unwrap of the Option<Upnp> comes before the address is *)
(* parsed for add_port, which begins with the host's name: a name that is  *)
(* no UTF-8 text makes no description of a mapping and panics.             *)
(***************************************************************************)
Visit(e) ==
    /\ prep = "entries"
    /\ BetweenEntries /\ task[e] = "todo"
    /\ \/ /\ Legal(e) /\ ~PortMapped(e)
          /\ Check(e) /\ task'[e] = "building"
          /\ UNCHANGED <<gateway, fault, settings>>
       \/ /\ Legal(e) /\ PortMapped(e) /\ gateway /\ Url(e).host # "name"
          /\ cfg.hostname
          /\ Check(e) /\ task'[e] = "adding"
          /\ UNCHANGED <<gateway, fault, settings>>
       \/ /\ Legal(e) => PortMapped(e) /\ (~gateway \/ Url(e).host = "name")
          /\ Fails
          /\ fault' = (Legal(e) /\ ~gateway)
       \/ /\ Legal(e) /\ PortMapped(e) /\ gateway /\ Url(e).host # "name"
          /\ ~cfg.hostname
          /\ Fails
          /\ fault' = TRUE
    /\ UNCHANGED <<cfg, prep, sent>>

AddPort(e) ==
    /\ AddPortOk(e) \/ AddPortErr(e)
    /\ UNCHANGED config

\* Any client may also find its port taken.
Build(e) ==
    /\ task[e] = "building"
    /\ \/ /\ Binds(e)
          /\ BuildOk(e)
          /\ settings' = [settings EXCEPT ![e] = ClientSettings(e)]
          /\ UNCHANGED gateway
       \/ Fails
    /\ UNCHANGED <<cfg, prep, fault, sent>>

SetupDone ==
    /\ prep = "entries" /\ SetupOk
    /\ UNCHANGED config

(***************************************************************************)
(* The task of an entry calls new_address of one of its watchers.          *)
(***************************************************************************)
Notify(e) ==
    /\ Alive /\ task[e] = "running"
    /\ \E i \in DOMAIN Metadata(e), a \in Ports :
        LET md == Metadata(e)[i]
            w == watcher_map[md.name]
            outcome == Outcome(w, md, a)
        IN  /\ sent' = [entry |-> e, index |-> i, outcome |-> outcome,
                        request |-> IF outcome = "sent"
                                    THEN new_address(w, md, a, cfg.http) ELSE None]
            /\ IF outcome = "panic" THEN Panic(e) ELSE UNCHANGED vars
    /\ UNCHANGED <<cfg, prep, gateway, fault, settings>>

\* The rest of Program: the signal, the broadcast and the end.
Shutdown ==
    /\ \/ \E e \in Entries : CloseRecv(e) \/ Removed(e)
       \/ Signal \/ SignalErr \/ Exit \/ Kill
    /\ UNCHANGED config

SetupNext ==
    \/ MapWatchers \/ FindGateway
    \/ \E e \in Entries : Visit(e) \/ AddPort(e) \/ Build(e) \/ Notify(e)
    \/ SetupDone \/ Shutdown

SetupSpec == InitSetup /\ [][SetupNext]_allVars /\ Fairness
-----------------------------------------------------------------------------
(***************************************************************************)
(* `upnp.as_ref().unwrap()` (run): an entry that wants a port mapping      *)
(* finds a gateway, although the configuration's option, the option's      *)
(* default and the scheme of any other entry decide whether one was looked *)
(* for before the entries are visited.  So run panics for one reason only, *)
(* the name of a host that is no text (description in src/upnp.rs).        *)
(***************************************************************************)
SetupPanicsOnlyForHostname == fault => ~cfg.hostname

(***************************************************************************)
(* new_address unwraps the domain, the type, the priority and the id that  *)
(* validate of the same watcher has let pass: only a secret that makes no  *)
(* header, of a DnsPod or Cloudflare watcher, panics and ends the task of  *)
(* an entry.                                                               *)
(***************************************************************************)
PanicsOnlyForSecret ==
    \A e \in Entries : task[e] = "panicked" =>
        \E i \in DOMAIN Metadata(e) :
            /\ watcher_map[Metadata(e)[i].name].kind \in {"dnspod", "cf"}
            /\ Metadata(e)[i].name \in cfg.unsendable

(***************************************************************************)
(* No client is built with an interval of zero, which time::interval       *)
(* panics at, or without a server, whatever the file says: what TcpClient  *)
(* and UdpClient assume of S.                                              *)
(***************************************************************************)
ClientsAreUsable ==
    \A e \in Entries : settings[e] # None =>
        \A field \in DOMAIN settings[e] : settings[e][field] > 0

(***************************************************************************)
(* The record looked for is the one that would be written, so that a       *)
(* record is created once and found from then on, as DnsRecords has it.    *)
(* Two domains are read in two ways and are left out: one with an empty    *)
(* label, which is what a dot at its end leaves and split_domain_name      *)
(* drops, and one that begins with the @ that subdomain writes for none.   *)
(***************************************************************************)
LookupFindsRecord ==
    sent # None /\ sent.request # None /\ sent.request.lookup # None =>
        LET md == Metadata(sent.entry)[sent.index]
        IN  Empty \notin ToSet(md.domain) /\ md.domain[1] # "@" =>
                sent.request.lookup = sent.request.name

(***************************************************************************)
(* validate of the Cloudflare watcher tries the value with one example     *)
(* address; what passes converts with every address, except for the one    *)
(* shape of an SRV value that the example cannot tell: a number that is    *)
(* written with {port} and further digits, in front of it or behind it.    *)
(***************************************************************************)
BesideDigits(w) == Len(w) > 1 /\ Port \in ToSet(w) /\ ToSet(w) \subseteq Nat \cup {Port}

ExampleIsEnough ==
    sent # None /\ sent.outcome = "err" =>
        LET md == Metadata(sent.entry)[sent.index]
        IN  \/ md.name \in cfg.unsendable
            \/ to_uppercase(md.type) = "SRV" /\ \E i \in 1 .. 3 : BesideDigits(md.value[i])

(***************************************************************************)
(* "Request url could contain placeholder `{ip}` and `{port}` which will   *)
(* be replaced with real value before sending the request"                 *)
(* (src/config.rs): nothing that is sent has a placeholder in it.          *)
(***************************************************************************)
PlaceholdersReplaced == sent # None /\ sent.request # None => sent.request.left = {}
=============================================================================
