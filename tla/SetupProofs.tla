---------------------------- MODULE SetupProofs ----------------------------
(***************************************************************************)
(* What validation and the builders let pass is all that the tasks and the *)
(* clients rely on: for every configuration and any entries.               *)
(***************************************************************************)
EXTENDS Setup, ProgramProofs, SequenceTheorems

(***************************************************************************)
(* Every step of Setup is one of Program or leaves its variables alone.    *)
(***************************************************************************)
LEMMA ProgramStep == [SetupNext]_allVars => [Next]_vars
  <1> SUFFICES ASSUME SetupNext \/ UNCHANGED allVars PROVE [Next]_vars
    OBVIOUS
  <1> USE DEF Next
  <1>1. CASE MapWatchers \/ FindGateway
    BY <1>1 DEF MapWatchers, FindGateway, Fails
  <1>2. ASSUME NEW e \in Entries, Visit(e) PROVE [Next]_vars
    BY <1>2 DEF Visit, Fails
  <1>3. ASSUME NEW e \in Entries, AddPort(e) PROVE [Next]_vars
    BY <1>3 DEF AddPort
  <1>4. ASSUME NEW e \in Entries, Build(e) PROVE [Next]_vars
    BY <1>4 DEF Build, Fails
  <1>5. ASSUME NEW e \in Entries, Notify(e) PROVE [Next]_vars
    <2>1. Panic(e) \/ UNCHANGED vars
      BY <1>5 DEF Notify
    <2> QED
      BY <2>1
  <1>6. CASE SetupDone
    BY <1>6 DEF SetupDone
  <1>7. CASE Shutdown
    BY <1>7 DEF Shutdown
  <1>8. CASE UNCHANGED allVars
    BY <1>8 DEF allVars
  <1> QED
    BY <1>1, <1>2, <1>3, <1>4, <1>5, <1>6, <1>7, <1>8 DEF SetupNext

(***************************************************************************)
(* So the theorems of Program hold of Setup, which is Program with         *)
(* conditions.                                                             *)
(***************************************************************************)
LEMMA ProgramSpec == SetupSpec => Spec
  <1>1. InitSetup => Init
    BY DEF InitSetup
  <1> QED
    BY <1>1, ProgramStep, PTL DEF SetupSpec, Spec

(***************************************************************************)
(* Whatever the configuration, an orderly exit is a clean one.             *)
(***************************************************************************)
THEOREM ExitStaysClean == SetupSpec => []CleanExit
  BY ProgramSpec, ExitIsClean, PTL
-----------------------------------------------------------------------------
(***************************************************************************)
(* A gateway was looked for exactly if one is needed; an entry that is set *)
(* up and whose task has not ended is legal.  Nothing changes the          *)
(* configuration.                                                          *)
(***************************************************************************)
GatewayInv == prep = "entries" => gateway = NeedsGateway

LegalInv ==
    \A e \in Entries : task[e] \in {"adding", "building", "running"} => Legal(e)

SetupInv ==
    /\ cfg \in Configs
    /\ gateway \in BOOLEAN
    /\ TypeOK /\ GatewayInv /\ LegalInv
    /\ SetupPanicsOnlyForHostname /\ PanicsOnlyForSecret

(***************************************************************************)
(* What validate of a watcher lets pass, new_address unwraps without a     *)
(* panic.                                                                  *)
(***************************************************************************)
LEMMA ValidUnwraps ==
  ASSUME NEW kind, NEW md, validate(kind, md)
  PROVE  Unwraps(kind, md)
  <1> SUFFICES ASSUME kind \in DnsKinds PROVE Unwraps(kind, md)
    BY DEF Unwraps
  <1>1. CASE kind = "dnspod"
    BY <1>1 DEF validate, validate_dnspod, validate_dns, Unwraps
  <1>2. CASE kind = "alidns"
    BY <1>2 DEF validate, validate_dns, Unwraps
  <1>3. CASE kind = "cf"
    BY <1>3 DEF validate, validate_cf, validate_dns, Unwraps
  <1> QED
    BY <1>1, <1>2, <1>3 DEF DnsKinds

(***************************************************************************)
(* The call for a legal entry panics for an unsendable secret only.        *)
(***************************************************************************)
LEMMA OnlySecretPanics ==
  ASSUME NEW e \in Entries, Legal(e), NEW i \in DOMAIN Metadata(e), NEW a,
         Outcome(watcher_map[Metadata(e)[i].name], Metadata(e)[i], a) = "panic"
  PROVE  /\ watcher_map[Metadata(e)[i].name].kind \in {"dnspod", "cf"}
         /\ Metadata(e)[i].name \in cfg.unsendable
  <1> DEFINE md == Metadata(e)[i]
             w == watcher_map[md.name]
  <1>1. md.name \in Named /\ Unwraps(w.kind, md)
    BY ValidUnwraps DEF Legal
  <1>2. w.kind \in {"dnspod", "cf"} /\ ~w.sound
    BY <1>1 DEF Outcome
  <1>3. w.sound = (md.name \notin cfg.unsendable)
    BY <1>1 DEF watcher_map
  <1> QED
    BY <1>2, <1>3

(***************************************************************************)
(* The initial states satisfy the invariant.                               *)
(***************************************************************************)
LEMMA InitSetupInv == InitSetup => SetupInv
  BY DEF InitSetup, Init, SetupInv, TypeOK, GatewayInv, LegalInv, SetupPanicsOnlyForHostname,
         PanicsOnlyForSecret

(***************************************************************************)
(* The configuration stays as it is, and with it what is read off it.      *)
(***************************************************************************)
LEMMA SameConfiguration ==
  ASSUME [SetupNext]_allVars
  PROVE  /\ cfg' = cfg
         /\ NeedsGateway' = NeedsGateway
         /\ watcher_map' = watcher_map
         /\ \A e \in Entries : Metadata(e)' = Metadata(e) /\ Legal(e)' = Legal(e)
  <1>1. cfg' = cfg
    BY DEF SetupNext, allVars, config, MapWatchers, FindGateway, Visit, AddPort, Build,
           Notify, SetupDone, Shutdown
  <1>2. watcher_map' = watcher_map /\ Named' = Named
    BY <1>1 DEF watcher_map, Named, Place
  <1> QED
    BY <1>1, <1>2 DEF NeedsGateway, global_upnp, upnp_enabled, Url, Metadata, Legal

(***************************************************************************)
(* A client's and a task's steps keep the invariant when they touch        *)
(* nothing that it is about: a task becomes neither one that is set up nor *)
(* one that has panicked.                                                  *)
(***************************************************************************)
LEMMA QuietStep ==
  ASSUME SetupInv, [SetupNext]_allVars,
         UNCHANGED <<prep, gateway, fault>>,
         \A e \in Entries : task'[e] \in {"adding", "building", "running"} =>
            task[e] \in {"adding", "building", "running"},
         \A e \in Entries : task'[e] = "panicked" => task[e] = "panicked",
         TypeOK'
  PROVE  SetupInv'
  BY SameConfiguration
  DEF SetupInv, GatewayInv, LegalInv, SetupPanicsOnlyForHostname, PanicsOnlyForSecret

(***************************************************************************)
(* Every step keeps the invariant.                                         *)
(***************************************************************************)
LEMMA SetupStep == SetupInv /\ TypeOK' /\ [SetupNext]_allVars => SetupInv'
  <1> SUFFICES ASSUME SetupInv, TypeOK', [SetupNext]_allVars PROVE SetupInv'
    OBVIOUS
  <1> USE DEF SetupInv, TypeOK
  <1>1. CASE MapWatchers
    BY <1>1, SameConfiguration
    DEF MapWatchers, Fails, SetupErr, vars, GatewayInv, LegalInv, SetupPanicsOnlyForHostname,
        PanicsOnlyForSecret
  <1>2. CASE FindGateway
    <2>1. NeedsGateway \in BOOLEAN
      BY DEF NeedsGateway
    <2>2. gateway' \in BOOLEAN /\ GatewayInv'
      BY <1>2, <2>1, SameConfiguration DEF FindGateway, Fails, GatewayInv
    <2> QED
      BY <1>2, <2>2, SameConfiguration
      DEF FindGateway, Fails, SetupErr, vars, LegalInv, SetupPanicsOnlyForHostname, PanicsOnlyForSecret
  <1>3. ASSUME NEW e \in Entries, Visit(e) PROVE SetupInv'
    <2>1. cfg' = cfg /\ GatewayInv' /\ gateway' \in BOOLEAN
      BY <1>3, SameConfiguration DEF Visit, Fails, GatewayInv
    <2>2. LegalInv'
      BY <1>3, SameConfiguration DEF Visit, Fails, Check, SetupErr, LegalInv
    <2>3. SetupPanicsOnlyForHostname'
      <3>1. ASSUME Legal(e), PortMapped(e) PROVE NeedsGateway
        <4>1. Url(e) # None /\ Url(e).scheme \in TcpSchemes \cup UdpSchemes
          BY <3>1 DEF Legal
        <4> QED
          BY <3>1, <4>1 DEF PortMapped, NeedsGateway, upnp_enabled
      <3>2. gateway = NeedsGateway
        BY <1>3 DEF Visit, GatewayInv
      <3>3. CASE UNCHANGED fault
        BY <2>1, <3>3 DEF SetupPanicsOnlyForHostname
      <3>4. CASE ~UNCHANGED fault
        <4>1. \/ (Legal(e) => PortMapped(e)) /\ fault' = (Legal(e) /\ ~gateway)
              \/ ~cfg.hostname
          BY <1>3, <3>4 DEF Visit
        <4>2. (Legal(e) => PortMapped(e)) => ~(Legal(e) /\ ~gateway)
          BY <3>1, <3>2
        <4> QED
          BY <2>1, <4>1, <4>2 DEF SetupPanicsOnlyForHostname
      <3> QED
        BY <3>3, <3>4
    <2>4. PanicsOnlyForSecret'
      BY <1>3, SameConfiguration DEF Visit, Fails, Check, SetupErr, PanicsOnlyForSecret
    <2> QED
      BY <2>1, <2>2, <2>3, <2>4
  <1>4. ASSUME NEW e \in Entries, AddPort(e) PROVE SetupInv'
    BY <1>4, QuietStep DEF AddPort, AddPortOk, AddPortErr, config
  <1>5. ASSUME NEW e \in Entries, Build(e) PROVE SetupInv'
    BY <1>5, QuietStep DEF Build, BuildOk, Fails, SetupErr
  <1>6. ASSUME NEW e \in Entries, Notify(e) PROVE SetupInv'
    <2>1. UNCHANGED <<prep, gateway, fault>>
      BY <1>6 DEF Notify
    <2>2. CASE UNCHANGED vars
      BY <2>1, <2>2, QuietStep DEF vars
    <2>3. CASE Panic(e) /\ ~UNCHANGED vars
      <3>1. Legal(e)
        BY <2>3 DEF Panic, LegalInv
      <3>2. PICK i \in DOMAIN Metadata(e), a \in Ports :
                Outcome(watcher_map[Metadata(e)[i].name], Metadata(e)[i], a) = "panic"
        BY <1>6, <2>3 DEF Notify
      <3>3. LegalInv'
        BY <2>3, SameConfiguration DEF Panic, LegalInv
      <3>4. PanicsOnlyForSecret'
        <4> SUFFICES ASSUME NEW f \in Entries, task'[f] = "panicked"
                     PROVE  \E j \in DOMAIN Metadata(f)' :
                                /\ watcher_map'[Metadata(f)'[j].name].kind \in {"dnspod", "cf"}
                                /\ Metadata(f)'[j].name \in cfg'.unsendable
          BY DEF PanicsOnlyForSecret
        <4>1. CASE f = e
          BY <4>1, <3>1, <3>2, OnlySecretPanics, SameConfiguration
        <4>2. CASE f # e
          BY <4>2, <2>3, SameConfiguration DEF Panic, PanicsOnlyForSecret
        <4> QED
          BY <4>1, <4>2
      <3> QED
        BY <2>1, <3>3, <3>4, SameConfiguration DEF GatewayInv, SetupPanicsOnlyForHostname
    <2> QED
      BY <1>6, <2>2, <2>3 DEF Notify
  <1>7. CASE SetupDone
    BY <1>7, QuietStep DEF SetupDone, SetupOk, config
  <1>8. CASE Shutdown
    BY <1>8, QuietStep
    DEF Shutdown, CloseRecv, Removed, Signal, SignalErr, Exit, Kill, config
  <1>9. CASE UNCHANGED allVars
    BY <1>9, QuietStep DEF allVars, vars, config
  <1> QED
    BY <1>1, <1>2, <1>3, <1>4, <1>5, <1>6, <1>7, <1>8, <1>9 DEF SetupNext

(***************************************************************************)
(* The invariant holds in every reachable state.                           *)
(***************************************************************************)
LEMMA SetupInvariance == SetupSpec => []SetupInv
  <1>1. SetupSpec => []TypeOK
    BY ProgramSpec, TypeCorrect, PTL
  <1> QED
    BY <1>1, InitSetupInv, SetupStep, PTL DEF SetupSpec

(***************************************************************************)
(* No entry unwraps a gateway that was not looked for: the set-up panics   *)
(* for a host name that is no text only.                                   *)
(***************************************************************************)
THEOREM SetupIsSound == SetupSpec => []SetupPanicsOnlyForHostname
  <1>1. SetupInv => SetupPanicsOnlyForHostname
    BY DEF SetupInv
  <1> QED
    BY <1>1, SetupInvariance, PTL

(***************************************************************************)
(* A task that called a watcher panicked for an unsendable secret only.    *)
(***************************************************************************)
THEOREM ValidationSuffices == SetupSpec => []PanicsOnlyForSecret
  <1>1. SetupInv => PanicsOnlyForSecret
    BY DEF SetupInv
  <1> QED
    BY <1>1, SetupInvariance, PTL
-----------------------------------------------------------------------------
(***************************************************************************)
(* A watcher that is named in the configuration has one of the kinds.      *)
(***************************************************************************)
LEMMA WatcherKinds ==
  ASSUME NEW name \in Named
  PROVE  watcher_map[name].kind \in Kinds
  <1> DEFINE In(i) == name \in cfg.sections[Order[i]]
             Latest(i) == In(i) /\ \A j \in i + 1 .. 5 : ~In(j)
  <1>1. \E i \in 1 .. 5 : In(i)
    BY DEF Named, Kinds, Order
  <1>2. \E i \in 1 .. 5 : Latest(i)
    <2> HIDE DEF In
    <2> QED
      BY <1>1
  <1>3. Place(name) \in 1 .. 5
    BY <1>2 DEF Place
  <1> QED
    BY <1>3 DEF watcher_map, Order, Kinds

(***************************************************************************)
(* What a client is built with is positive, and has its type.              *)
(***************************************************************************)
LEMMA SettingsPositive ==
  ASSUME cfg \in Configs, NEW e \in Entries
  PROVE  /\ \A field \in DOMAIN ClientSettings(e) : ClientSettings(e)[field] > 0
         /\ ClientSettings(e) \in [stun : Nat, interval : Nat] \cup
                                  [stun : Nat, interval : Nat, stun_interval : Nat]
  <1>1. ASSUME NEW default \in Nat \ {0}, NEW given, given = None \/ given \in Nat
        PROVE  Over(default, given) \in Nat /\ Over(default, given) > 0
    BY <1>1 DEF Over
  <1>2. CASE Url(e).scheme \in TcpSchemes
    <2>1. cfg.tcp = None \/ \A f \in {"stun", "interval", "stun_interval"} :
                                cfg.tcp[f] = None \/ cfg.tcp[f] \in Nat
      BY SetupAssumption DEF SettingsAssumption, IsGiven
    <2> QED
      BY <1>1, <1>2, <2>1 DEF ClientSettings, TcpSettings
  <1>3. CASE Url(e).scheme \notin TcpSchemes
    <2>1. cfg.udp = None \/ \A f \in {"stun", "interval"} :
                                cfg.udp[f] = None \/ cfg.udp[f] \in Nat
      BY SetupAssumption DEF SettingsAssumption, IsGiven
    <2> QED
      BY <1>1, <1>3, <2>1 DEF ClientSettings, UdpSettings
  <1> QED
    BY <1>2, <1>3

(***************************************************************************)
(* Without an empty label and without an @ in front, a domain is the name  *)
(* of the record that is written for it.                                   *)
(***************************************************************************)
LEMMA NameIsDomain ==
  ASSUME NEW d \in Seq(STRING), d # <<>>, split_domain_name(d) # None,
         Empty \notin ToSet(d), d[1] # "@"
  PROVE  RecordName(split_domain_name(d)) = d
  <1> DEFINE len == Len(d)
             host == SubSeq(d, 1, len - 2)
             zone == SubSeq(d, len - 1, len)
  <1>1. Labels(d) = d
    BY DEF Labels, Last, ToSet
  <1>2. len \in Nat /\ len >= 2 /\ split_domain_name(d) = [domain |-> zone, host |-> host]
    BY <1>1 DEF split_domain_name
  <1>3. host \o zone = d
    <2> DEFINE k == len - 2
    <2>1. 1 \in 1 .. Len(d) + 1 /\ k \in 1 - 1 .. Len(d) /\ len \in k .. Len(d) /\ k + 1 = len - 1
      BY <1>2
    <2>2. SubSeq(d, 1, k) \o SubSeq(d, k + 1, len) = SubSeq(d, 1, len)
      <3> HIDE DEF k, len
      <3> QED
        BY <2>1, ConcatAdjacentSubSeq
    <2>3. SubSeq(d, 1, len) = d
      BY SubSeqFull
    <2> QED
      BY <2>1, <2>2, <2>3
  <1>4. host = <<>> \/ host[1] = d[1]
    BY <1>2
  <1>5. d[1] # Empty
    BY DEF ToSet
  <1>6. (IF subdomain(host) = <<"@">> THEN <<>> ELSE host) = host
    <2>1. ASSUME NEW x, x # d[1] PROVE host # <<x>>
      <3>1. <<x>> # <<>> /\ <<x>>[1] = x
        OBVIOUS
      <3> HIDE DEF host
      <3> QED
        BY <1>4, <2>1, <3>1
    <2>2. CASE host = <<>>
      BY <2>2 DEF subdomain
    <2>3. CASE host # <<>>
      <3> HIDE DEF host
      <3>1. subdomain(host) = host
        BY <1>5, <2>1, <2>3, Zenon DEF subdomain
      <3> QED
        BY <2>1, <3>1
    <2> QED
      BY <2>2, <2>3
  <1> QED
    <2> HIDE DEF host, zone
    <2> QED
      BY <1>2, <1>3, <1>6 DEF RecordName

(***************************************************************************)
(* A word of one piece is the number of that piece.                        *)
(***************************************************************************)
LEMMA SinglePiece ==
  ASSUME NEW x, Len(x) = 1, NEW a \in U16, x[1] = a
  PROVE  Number(x) = a
  <1> DEFINE F(f) == [n \in 0 .. Len(x) |-> IF n = 0 THEN 0 ELSE Append10(f[n - 1], x[n])]
             number == CHOOSE f : f = F(f)
             g == [n \in 0 .. 1 |-> IF n = 0 THEN 0 ELSE a]
  <1>1. Append10(0, a) = a
    <2>1. a \in Nat
      BY DEF U16
    <2>2. Above(a) \in Nat
      BY <2>1 DEF Above
    <2> QED
      BY <2>1, <2>2 DEF Append10
  <1>2. g = F(g)
    <2>1. \A n \in 0 .. 1 : n = 0 \/ (n = 1 /\ g[n - 1] = 0)
      OBVIOUS
    <2> QED
      BY <1>1, <2>1
  <1>3. number = F(number)
    BY <1>2
  <1>4. number[0] = 0 /\ number[1] = Append10(number[0], x[1])
    <2> HIDE DEF number
    <2> QED
      BY <1>3
  <1>5. Number(x) = number[Len(x)]
    BY DEF Number
  <1> HIDE DEF number
  <1> QED
    BY <1>1, <1>4, <1>5

(***************************************************************************)
(* A word that is a number with the example port is one with every port,   *)
(* unless it has digits beside a placeholder of the port.                  *)
(***************************************************************************)
LEMMA ExampleNumber ==
  ASSUME NEW w \in Word, ~BesideDigits(w), NEW a \in U16,
         IsU16(FormatWord(w, ExamplePort))
  PROVE  IsU16(FormatWord(w, a))
  <1> DEFINE x == FormatWord(w, a)
             y == FormatWord(w, ExamplePort)
  <1>1. w \in Seq(Piece) /\ Len(w) \in Nat \ {0} /\ DOMAIN w = 1 .. Len(w)
    BY DEF Word
  <1>2. CASE Port \notin ToSet(w)
    <2>1. x = y
      BY <1>2 DEF FormatWord, ToSet
    <2> QED
      BY <2>1
  <1>3. CASE Port \in ToSet(w) /\ Len(w) = 1
    <2>1. w[1] = Port /\ DOMAIN w = 1 .. 1
      BY <1>1, <1>3 DEF ToSet
    <2>2. Len(x) = 1 /\ DOMAIN x = 1 .. 1 /\ x[1] = a
      <3>1. DOMAIN x = 1 .. 1 /\ x[1] = a
        BY <2>1 DEF FormatWord
      <3>2. x \in Seq(U16)
        BY <2>1 DEF FormatWord
      <3> QED
        BY <3>1, <3>2
    <2>3. Number(x) = a
      BY <2>2, SinglePiece
    <2>4. ToSet(x) \subseteq Nat
      <3>1. a \in Nat
        BY DEF U16
      <3> HIDE DEF x
      <3> QED
        BY <2>2, <3>1 DEF ToSet
    <2> QED
      BY <2>3, <2>4 DEF IsU16
  <1>4. CASE Port \in ToSet(w) /\ Len(w) > 1
    <2>1. PICK j \in DOMAIN w : w[j] \notin Nat \cup {Port}
      BY <1>4 DEF BesideDigits, ToSet
    <2>2. w[j] \in {Text, Ip}
      BY <1>1, <2>1 DEF Piece
    <2>3. y[j] = Text /\ y[j] \in ToSet(y)
      BY <2>2 DEF FormatWord, ToSet, Text, Ip, Port
    <2> QED
      BY <2>3 DEF IsU16, Text
  <1> QED
    BY <1>1, <1>2, <1>3, <1>4

(***************************************************************************)
(* A value that converts with the example port converts with every port,   *)
(* unless it is one of an SRV record with digits beside a port.            *)
(***************************************************************************)
LEMMA ExampleConverts ==
  ASSUME NEW v \in Seq(Word), NEW type, NEW a \in U16,
         TryFrom(type, format_value(v, ExamplePort)),
         to_uppercase(type) = "SRV" => \A i \in 1 .. 3 : ~BesideDigits(v[i])
  PROVE  TryFrom(type, format_value(v, a))
  <1>1. ASSUME NEW b
        PROVE  /\ DOMAIN format_value(v, b) = DOMAIN v
               /\ Len(format_value(v, b)) = Len(v)
               /\ \A i \in DOMAIN v :
                    format_value(v, b)[i] = FormatWord(v[i], b)
    BY DEF format_value
  <1>2. ASSUME NEW i \in DOMAIN v, ~BesideDigits(v[i]), IsU16(FormatWord(v[i], ExamplePort))
        PROVE  IsU16(FormatWord(v[i], a))
    BY <1>2, ExampleNumber
  <1>3. ASSUME to_uppercase(type) = "SRV", SRV(format_value(v, ExamplePort))
        PROVE  SRV(format_value(v, a))
    BY <1>1, <1>2, <1>3 DEF SRV
  <1>4. SVCB(format_value(v, ExamplePort)) => SVCB(format_value(v, a))
    BY <1>1 DEF SVCB
  <1> QED
    BY <1>3, <1>4 DEF TryFrom

(***************************************************************************)
(* What a call of new_address for a legal entry comes to.                  *)
(***************************************************************************)
LEMMA CallKeepsPromises ==
  ASSUME cfg \in Configs, NEW e \in Entries, Legal(e),
         NEW i \in DOMAIN Metadata(e), NEW a \in Ports
  PROVE  LET md == Metadata(e)[i]
             w == watcher_map[md.name]
             request == new_address(w, md, a, cfg.http)
         IN  /\ Outcome(w, md, a) \in {"sent", "err", "panic"}
             /\ Outcome(w, md, a) = "err" =>
                    \/ md.name \in cfg.unsendable
                    \/ to_uppercase(md.type) = "SRV"
                         /\ \E j \in 1 .. 3 : BesideDigits(md.value[j])
             /\ request.lookup # None /\ Empty \notin ToSet(md.domain) /\ md.domain[1] # "@" =>
                    request.lookup = request.name
  <1> DEFINE md == Metadata(e)[i]
             w == watcher_map[md.name]
             request == new_address(w, md, a, cfg.http)
  <1>1. md.name \in Named /\ validate(w.kind, md)
    BY DEF Legal
  <1>2. w.kind \in Kinds /\ w.sound = (md.name \notin cfg.unsendable)
    BY <1>1, WatcherKinds DEF watcher_map
  <1>3. md.value \in Seq(Word) /\ (md.domain # None => md.domain \in Seq(STRING) \ {<<>>})
    BY SetupAssumption DEF MetadataAssumption, IsGiven, Metadata
  <1>4. Outcome(w, md, a) \in {"sent", "err", "panic"}
    BY DEF Outcome
  <1>5. ASSUME Outcome(w, md, a) = "err", md.name \notin cfg.unsendable,
               to_uppercase(md.type) = "SRV" =>
                    \A j \in 1 .. 3 : ~BesideDigits(md.value[j])
        PROVE  FALSE
    <2>1. w.kind = "cf" /\ ~TryFrom(md.type, format_value(md.value, a))
      BY <1>2, <1>5 DEF Outcome
    <2>2. TryFrom(md.type, format_value(md.value, ExamplePort))
      BY <1>1, <2>1 DEF validate, validate_cf
    <2>3. a \in U16
      BY SetupAssumption
    <2> QED
      BY <1>3, <1>5, <2>1, <2>2, <2>3, ExampleConverts
  <1>6. ASSUME request.lookup # None, Empty \notin ToSet(md.domain), md.domain[1] # "@"
        PROVE  request.lookup = request.name
    <2>1. w.kind \in DnsKinds
      BY <1>2, <1>6 DEF new_address, HttpRequest, ScriptCommand, Kinds, DnsKinds
    <2>2. md.domain # None /\ split_domain_name(md.domain) # None
      BY <1>1, <2>1, ValidUnwraps DEF Unwraps
    <2>3. RecordName(split_domain_name(md.domain)) = md.domain
      BY <1>3, <1>6, <2>2, NameIsDomain
    <2>4. request = DnsRequest(w.kind, md, a)
      BY <2>1 DEF new_address, DnsKinds
    <2> QED
      BY <1>6, <2>3, <2>4 DEF DnsRequest
  <1> HIDE DEF request
  <1> QED
    BY <1>4, <1>5, <1>6 DEF request

(***************************************************************************)
(* The remaining properties, and the types they need: what the clients are *)
(* built with, and what the last call came to.                             *)
(***************************************************************************)
ClientsInv ==
    /\ settings \in [Entries -> [stun : Nat, interval : Nat] \cup {None} \cup
                                [stun : Nat, interval : Nat, stun_interval : Nat]]
    /\ ClientsAreUsable

CallsInv ==
    /\ sent # None =>
        /\ sent.entry \in Entries /\ sent.index \in DOMAIN Metadata(sent.entry)
        /\ sent.outcome \in {"sent", "err", "panic"}
    /\ LookupFindsRecord
    /\ ExampleIsEnough

WholeInv == SetupInv /\ TypeOKSetup /\ ClientsInv /\ CallsInv

(***************************************************************************)
(* The initial states satisfy them.                                        *)
(***************************************************************************)
LEMMA InitWholeInv == InitSetup => WholeInv
  <1> SUFFICES ASSUME InitSetup PROVE WholeInv
    OBVIOUS
  <1>1. SetupInv
    BY InitSetupInv
  <1>2. ClientsInv
    BY DEF InitSetup, ClientsInv, ClientsAreUsable
  <1>3. CallsInv
    BY DEF InitSetup, CallsInv, LookupFindsRecord, ExampleIsEnough
  <1> QED
    BY <1>1, <1>2, <1>3 DEF InitSetup, WholeInv, TypeOKSetup, SetupInv, ClientsInv, CallsInv

(***************************************************************************)
(* Only Build changes what a client is built with.                         *)
(***************************************************************************)
LEMMA ClientsStep == WholeInv /\ [SetupNext]_allVars => ClientsInv'
  <1> SUFFICES ASSUME WholeInv, [SetupNext]_allVars PROVE ClientsInv'
    OBVIOUS
  <1>1. CASE UNCHANGED settings
    BY <1>1 DEF WholeInv, ClientsInv, ClientsAreUsable
  <1>2. ASSUME NEW e \in Entries, settings' = [settings EXCEPT ![e] = ClientSettings(e)]
        PROVE  ClientsInv'
    <2>1. cfg \in Configs
      BY DEF WholeInv, SetupInv
    <2>2. ClientsAreUsable'
      BY <1>2, <2>1, SettingsPositive DEF WholeInv, ClientsInv, ClientsAreUsable
    <2> QED
      BY <1>2, <2>1, <2>2, SettingsPositive DEF WholeInv, ClientsInv
  <1>3. UNCHANGED settings \/
        \E e \in Entries : settings' = [settings EXCEPT ![e] = ClientSettings(e)]
    BY DEF SetupNext, allVars, config, MapWatchers, FindGateway, Fails, Visit, AddPort, Build,
           Notify, SetupDone, Shutdown
  <1> QED
    BY <1>1, <1>2, <1>3

(***************************************************************************)
(* Only Notify makes a call, for an entry whose task is running.           *)
(***************************************************************************)
LEMMA CallsStep == WholeInv /\ [SetupNext]_allVars => CallsInv'
  <1> SUFFICES ASSUME WholeInv, [SetupNext]_allVars PROVE CallsInv'
    OBVIOUS
  <1>1. CASE UNCHANGED sent
    BY <1>1, SameConfiguration DEF WholeInv, CallsInv, LookupFindsRecord, ExampleIsEnough
  <1>2. ASSUME NEW e \in Entries, Notify(e) PROVE CallsInv'
    <2> DEFINE Md(i) == Metadata(e)[i]
               W(i) == watcher_map[Md(i).name]
               Request(i, a) == new_address(W(i), Md(i), a, cfg.http)
    <2>1. PICK i \in DOMAIN Metadata(e), a \in Ports :
            sent' = [entry |-> e, index |-> i, outcome |-> Outcome(W(i), Md(i), a),
                     request |-> IF Outcome(W(i), Md(i), a) = "sent"
                                 THEN Request(i, a) ELSE None]
      BY <1>2 DEF Notify
    <2>2. Legal(e) /\ cfg \in Configs
      BY <1>2 DEF Notify, WholeInv, SetupInv, LegalInv
    <2>3. /\ Outcome(W(i), Md(i), a) \in {"sent", "err", "panic"}
          /\ Outcome(W(i), Md(i), a) = "err" =>
                \/ Md(i).name \in cfg.unsendable
                \/ to_uppercase(Md(i).type) = "SRV"
                     /\ \E j \in 1 .. 3 : BesideDigits(Md(i).value[j])
          /\ Request(i, a).lookup # None /\ Empty \notin ToSet(Md(i).domain)
               /\ Md(i).domain[1] # "@" =>
                Request(i, a).lookup = Request(i, a).name
      BY <2>2, CallKeepsPromises
    <2>4. Metadata(e)' = Metadata(e) /\ cfg' = cfg
      BY SameConfiguration
    <2>5. sent'.entry = e /\ sent'.index = i /\ sent'.outcome = Outcome(W(i), Md(i), a)
          /\ (sent'.request # None => sent'.request = Request(i, a))
      <3> HIDE DEF Request, W, Md
      <3> QED
        BY <2>1
    <2> HIDE DEF Request, W
    <2>6. LookupFindsRecord'
      BY <2>3, <2>4, <2>5 DEF LookupFindsRecord
    <2>7. ExampleIsEnough'
      BY <2>3, <2>4, <2>5 DEF ExampleIsEnough
    <2> QED
      BY <2>3, <2>4, <2>5, <2>6, <2>7 DEF CallsInv
  <1>3. UNCHANGED sent \/ \E e \in Entries : Notify(e)
    BY DEF SetupNext, allVars, config, MapWatchers, FindGateway, Visit, AddPort, Build,
           SetupDone, Shutdown
  <1> QED
    BY <1>1, <1>2, <1>3

(***************************************************************************)
(* All of it holds in every reachable state.                               *)
(***************************************************************************)
LEMMA WholeInvariance == SetupSpec => []WholeInv
  <1>1. WholeInv /\ [SetupNext]_allVars =>
            prep' \in {"watchers", "gateway", "entries"} /\ fault' \in BOOLEAN
    BY DEF WholeInv, TypeOKSetup, SetupNext, allVars, config, MapWatchers, FindGateway, Visit,
           AddPort, Build, Notify, SetupDone, Shutdown
  <1>2. WholeInv /\ SetupInv' /\ [SetupNext]_allVars => WholeInv'
    BY <1>1, ClientsStep, CallsStep DEF WholeInv, TypeOKSetup, SetupInv, ClientsInv, CallsInv
  <1> QED
    BY <1>2, InitWholeInv, SetupInvariance, PTL DEF SetupSpec

(***************************************************************************)
(* The variables have the types declared for them.                         *)
(***************************************************************************)
THEOREM TypeCorrectSetup == SetupSpec => []TypeOKSetup
  <1>1. WholeInv => TypeOKSetup
    BY DEF WholeInv
  <1> QED
    BY <1>1, WholeInvariance, PTL

(***************************************************************************)
(* Whatever intervals and lists of servers the file has, every client is   *)
(* built with positive ones.                                               *)
(***************************************************************************)
THEOREM BuildersAreSound == SetupSpec => []ClientsAreUsable
  <1>1. WholeInv => ClientsAreUsable
    BY DEF WholeInv, ClientsInv
  <1> QED
    BY <1>1, WholeInvariance, PTL

(***************************************************************************)
(* For any domain, but for the two ways of writing one that are left out,  *)
(* the lookup and the write name the same record.                          *)
(***************************************************************************)
THEOREM LookupIsSound == SetupSpec => []LookupFindsRecord
  <1>1. WholeInv => LookupFindsRecord
    BY DEF WholeInv, CallsInv
  <1> QED
    BY <1>1, WholeInvariance, PTL

(***************************************************************************)
(* For any value and every port, what passed with the example port         *)
(* converts, unless it is one of an SRV record with digits beside {port},  *)
(* in front of it or behind it.                                            *)
(***************************************************************************)
THEOREM ExampleSuffices == SetupSpec => []ExampleIsEnough
  <1>1. WholeInv => ExampleIsEnough
    BY DEF WholeInv, CallsInv
  <1> QED
    BY <1>1, WholeInvariance, PTL
=============================================================================
