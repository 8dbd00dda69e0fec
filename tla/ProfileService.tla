--------------------------- MODULE ProfileService ---------------------------
(***************************************************************************)
(* One profile on its way through the client and the core: imported from a *)
(* subscription (ParseSubscription), made or retyped in the editor, shared *)
(* as a link (GenerateShareLink), imported again from that link, and built *)
(* into a sing-box config (BuildConfig) with the rules of the routing page.*)
(* Every profile passes Dart's ProxyEntity.toJson between two of the RPCs. *)
(***************************************************************************)
EXTENDS ConfigBuild, FiniteSetsExt

CONSTANTS
  Contents,       \* subscription contents a user may import
  EditorForms,    \* profiles as the editor's form collects them
  Routings,       \* configurations of the routing page
  DataStores,     \* settings as datastoreJson sends them
  IPAddresses,    \* the server addresses net.ParseIP accepts
  Destinations,   \* what a connection may be for: [item, conds]
  InRuleSet,      \* external: rule set item -> the names it holds
  MaxTrips        \* bound: shares imported again

\* The protocols the editor offers.
Types == StreamTypes \union
  {"hysteria2", "tuic", "naive", "anytls", "wireguard", "ssh", "custom"}

\* What the editor's fields hold: a number in the port, a checked box or none, a
\* transport of its list; and these keys of the beans have no field.
Offered(b) ==
  /\ b.port # Empty
  /\ \A k \in {"caText", "uos", "heartbeat", "listenPort", "udpTimeout", "workers"} :
       Val(b.f, k) = Empty
  /\ \A k \in {"allowInsecure", "disableSni", "quic"} : Val(b.f, k) \in {Empty, "1"}
  /\ \A k \in {"cert", "pac_enc", "h_type"} : Val(Stream(b), k) = Empty
  /\ Val(Stream(b), "insecure") \in {Empty, "1"}
  /\ Val(Stream(b), "net") # "h2"

\* The rules are a list, with the outbounds the routing page offers; a
\* connection is not the lookup of a server's own name.
ASSUME ServiceAssumption ==
  /\ MaxTrips \in Nat
  /\ \A e \in EditorForms : e.type \in Types /\ Offered(e)
  /\ \A r \in Routings :
       /\ r.final \in {"proxy", "direct"}
       /\ Len(r.rules) \in Nat /\ DOMAIN r.rules = 1..Len(r.rules)
       /\ \A i \in DOMAIN r.rules : r.rules[i].out \in RuleOutbounds
  /\ \A d \in Destinations : "outbound-any" \notin d.conds

VARIABLES
  profile,   \* the profile, as stored by the client
  from,      \* the link it was imported from, NoLink for the editor's
  shared,    \* the link on the clipboard, NoLink if none
  trips,     \* shared links imported so far
  routing,   \* the configuration the config was built with
  config     \* the core's answer to BuildConfig

vars == <<profile, from, shared, trips, routing, config>>

NoRouting == [rules |-> <<>>]

\* What of the profile reaches the config, which adds a tag and a strategy.
Out(b) == Customized(b, BuildOutboundSingBox(b))

-----------------------------------------------------------------------------
\* Dart.

(* Mutant: the client leaves the discriminator to the core's parsers. *)
DiscriminatorUnset(type) == None

\* BeanDiscriminator.apply, in every toJson.
Discriminator(type) ==
  CASE type = "socks" -> "socks_http_type" :> "1"
    [] type = "http"  -> "socks_http_type" :> "2"
    [] OTHER          -> ProxyType(type)

DiscriminatorKeys(type) ==
  CASE type \in {"socks", "http"} -> {"socks_http_type"}
    [] type \in {"trojan", "vless", "hysteria2", "tuic"} -> {"proxy_type"}
    [] OTHER -> {}

ToJson(b) ==
  [b EXCEPT !.f = Discriminator(b.type)
      @@ [k \in DOMAIN b.f \ DiscriminatorKeys(b.type) |-> b.f[k]]]

\* The fields the editor's form requires besides name, address and port.
RequiredKeys(type) ==
  CASE type = "vmess"                              -> {"id"}
    [] type \in {"vless", "trojan", "shadowsocks", "anytls"} -> {"password"}
    [] type = "tuic"                               -> {"uuid"}
    [] type = "naive"                              -> {"username"}
    [] type = "ssh"                                -> {"user"}
    [] type = "wireguard"                          -> {"privateKey"}
    [] OTHER                                       -> {}

Valid(b) ==
  /\ b.name # Empty
  /\ b.type = "custom" \/ (b.addr # Empty /\ b.port # "0")
  /\ RequiredKeys(b.type) \subseteq DOMAIN b.f

\* The editor writes a boolean of the stream, so a stream is never absent.
Collected(b, type) ==
  Profile(type, b.name, b.addr, b.port, b.f, Stream(b))

-----------------------------------------------------------------------------

Init ==
  /\ profile = Rejected /\ from = NoLink /\ shared = NoLink
  /\ trips = 0 /\ routing = NoRouting /\ config = NoConfig

Keep(b) ==
  /\ profile' = ToJson(b)
  /\ routing' = NoRouting /\ config' = NoConfig

\* _importContent with the answer of ParseSubscription: the entries refused are
\* reported with their number, the others are saved; one of them is followed.
Import(content) ==
  /\ profile = Rejected
  /\ LET results == ParseContent(content, "auto")
     IN  \E i \in DOMAIN results :
           /\ results[i] # Rejected
           /\ Keep(results[i])
           /\ from' = content.entries[i]
  /\ UNCHANGED <<shared, trips>>

\* The editor saves a new profile.
Create(form) ==
  /\ profile = Rejected
  /\ Valid(Collected(form, form.type))
  /\ Keep(Collected(form, form.type))
  /\ UNCHANGED <<from, shared, trips>>

\* The editor saves the profile under another protocol: keys the new form does
\* not show stay in the bean.
Retype(type) ==
  /\ profile # Rejected /\ trips = 0 /\ shared = NoLink
  /\ type # profile.type
  /\ Valid(Collected(profile, type))
  /\ Keep(Collected(profile, type))
  /\ from' = NoLink
  /\ UNCHANGED <<shared, trips>>

\* GenerateShareLink; an error leaves the clipboard alone.
Share ==
  /\ profile # Rejected /\ trips < MaxTrips
  /\ GenerateLink(profile) \notin {NoLink, shared}
  /\ shared' = GenerateLink(profile)
  /\ UNCHANGED <<profile, from, trips, routing, config>>

\* The link just shared is imported on another device.
ImportShared ==
  /\ shared # NoLink /\ shared = GenerateLink(profile) /\ trips < MaxTrips
  /\ ParseLink(shared) # Rejected
  /\ Keep(ParseLink(shared))
  /\ trips' = trips + 1
  /\ UNCHANGED <<from, shared>>

\* BuildConfig, for a start or (forTest) for a latency test.
BuildConfig(cfg, ds, forTest) ==
  /\ profile # Rejected /\ config = NoConfig
  /\ config' = BuildConfigSingBox(profile, ToGrpcRouting(cfg), ds, forTest, IPAddresses)
  /\ routing' = cfg
  /\ UNCHANGED <<profile, from, shared, trips>>

Next ==
  \/ \E c \in Contents : Import(c)
  \/ \E e \in EditorForms : Create(e)
  \/ \E t \in Types : Retype(t)
  \/ Share
  \/ ImportShared
  \/ \E cfg \in Routings, ds \in DataStores, forTest \in BOOLEAN : BuildConfig(cfg, ds, forTest)

Spec == Init /\ [][Next]_vars

-----------------------------------------------------------------------------
(* Links. *)

\* What a link leaves out of the outbound, by type: the formats have no place
\* for it (or the generator writes none), so a shared profile goes without.
LostPaths(type) ==
  CASE type = "vmess" -> TlsPaths \ {"tls.server_name"}
    [] type = "http" -> TransportPaths \union TlsPaths
    [] type = "shadowsocks" -> {"udp_over_tcp", "tls.enabled"} \union TransportPaths \union TlsPaths
    [] type = "hysteria2" -> {"up_mbps", "down_mbps", "hop_interval", "tls.disable_sni"}
    [] type = "tuic" -> {"zero_rtt_handshake"}
    [] type = "naive" -> {"udp_over_tcp", "insecure_concurrency"}
    [] type = "anytls" -> {"tls.alpn", "idle_session_check_interval", "idle_session_timeout"}
    [] type = "ssh" -> {"private_key_path", "private_key_passphrase"}
    [] type = "wireguard" -> {"system", "name"}
    [] OTHER -> {}

\* Profiles whose stream a link can say: Security is one the builder knows, and
\* is said at all where its absence means tls.  Where a profile has none, the
\* parsers fill in the SNI of naive and anytls, the address of wireguard and the
\* encryption of vmess (the editor's list shows "auto" for the one nobody chose,
\* which is stored as none) and a network nobody chose (shown as "tcp", stored as
\* none, and built into a transport without a name); and they rename a plugin.
\* The profile's own JSON (c_out) has no place in a link.
Sayable(b) ==
  /\ CustomOutbound(b) = None
  /\ b.type \in {"vmess", "vless", "trojan"} => Val(Stream(b), "net") # Empty
  /\ Val(Stream(b), "sec") \in (IF b.type = "trojan" THEN {"tls"} ELSE {Empty, "tls"})
  /\ b.type \in {"naive", "anytls"} => Val(b.f, "sni") # Empty
  /\ b.type = "wireguard" => Val(b.f, "address") # Empty
  /\ b.type = "vmess" => Val(b.f, "sec") # Empty
  /\ b.type = "shadowsocks" => PluginOf(b.f) = Val(b.f, "plugin")

SameOutbound(b, c) ==
  \A path \in (DOMAIN Out(b) \union DOMAIN Out(c)) \ LostPaths(b.type) :
    Val(Out(b), path) = Val(Out(c), path)

\* A profile shared and imported again builds the same outbound, but for the
\* paths listed above (link.go against link_gen.go and outbound.go).
RoundTripKeepsOutbound ==
  [][trips' > trips /\ Sayable(profile) => SameOutbound(profile, profile')]_vars

\* Sharing again what was imported from a shared link changes nothing any more:
\* no field drifts with every hand-over.  (Of a trojan without encryption a link
\* says nothing, which the parser reads as tls: it drifts once more.)
Unsayable(b) == b.type = "trojan" /\ Val(Stream(b), "sec") = Empty

RoundTripSettles ==
  [][trips' > trips /\ trips > 0 /\ ~Unsayable(profile) => profile' = profile]_vars

\* What a link says about encryption survives its import, here and on the device
\* it is shared to: a tls or reality node never builds an outbound in plaintext.
\* (A socks or http link has no reality; a trojan or vmess URL means tls unless
\* it says otherwise; the protocols of the last line know nothing else.)
SaysTls(l) ==
  \/ l.scheme = "https"
  \/ /\ l.scheme \in {"socks4", "socks4a", "socks5", "socks", "http"}
     /\ Val(l.query, "security") = "tls"
  \/ /\ l.scheme \in {"vless", "trojan"} \/ (l.scheme = "vmess" /\ l.form # "json")
     /\ \/ Val(l.query, "security") \in {"tls", "reality"}
        \/ l.scheme # "vless" /\ Val(l.query, "security") = Empty
  \/ l.scheme = "vmess" /\ l.form = "json" /\ Val(l.query, "tls") = "tls"
  \/ l.scheme \in {"hysteria2", "hy2", "tuic", "naive+https", "naive", "anytls"}

TlsSurvives ==
  from # NoLink /\ SaysTls(from)
    => Val(Out(profile), "tls.enabled") = "1"

\* A profile builds the protocol it is labelled with, whatever keys of other
\* protocols the editor's retyping left in its bean (BeanDiscriminator against
\* the switch of BuildOutboundSingBox), unless its c_out names another.
LabelIsProtocol ==
  /\ profile # Rejected /\ profile.type # "custom"
  /\ "type" \notin DOMAIN CustomOutbound(profile)
  => Val(Out(profile), "type") = profile.type

-----------------------------------------------------------------------------
(* Configs. *)

Built == config # NoConfig /\ config.error = Empty

\* Every tag a config refers to is defined in it, for a start and for a test,
\* unless the profile's c_out renames the outbound: sing-box refuses a config
\* with a dangling one.
ReferencesResolve ==
  Built /\ "tag" \notin DOMAIN CustomOutbound(profile) =>
    LET servers == {s.tag : s \in Range(config.dnsServers)}
        outs    == config.outbounds \union config.endpoints
        rules   == Range(config.route)
        dns     == Range(config.dnsRules)
    IN  /\ {r.out : r \in rules} \union {config.final} \subseteq outs \union {Empty}
        /\ {r.out : r \in dns} \union {config.resolver} \subseteq servers
        /\ \A s \in Range(config.dnsServers) :
             s.resolver \in servers \union {Empty} /\ s.detour \in outs \union {Empty}
        /\ UNION {r.sets : r \in rules \union dns} \subseteq config.ruleSets
        /\ \A r \in dns : "tun-in" \in r.conds => "tun-in" \in config.inbounds
        /\ config.statsOf \subseteq outs

\* The DNS servers that finding out the address of one asks, itself included
\* (two hops are all there are).
ServerOf(tag) == CHOOSE s \in Range(config.dnsServers) : s.tag = tag

AskedFor(tag) ==
  LET next(t) == ServerOf(t).resolver
      after == next(tag)
  IN  {tag} \union (IF after = Empty THEN {} ELSE {after, next(after)} \ {Empty})

\* Looking up the proxy's own server name never needs the proxy: neither the
\* server that answers nor those its own address takes go out through it.
ProxyNameNeedsNoProxy ==
  Built => \A t \in AskedFor(config.resolver) : ServerOf(t).detour # "proxy"

\* External: how sing-box matches a rule and takes the first that does.
Holds(r, dest) ==
  /\ r.plain \union r.sets # {} => dest.item \in r.plain \/ \E s \in r.sets : dest.item \in InRuleSet[s]
  /\ ~(r.private /\ r.plain \union r.sets = {})
  /\ r.conds \subseteq dest.conds

\* Only rules made one of these ways count.
FirstOut(rules, makes, dest, default) ==
  LET hits == {i \in DOMAIN rules :
                 rules[i].make \in makes /\ rules[i].out # Empty /\ Holds(rules[i], dest)}
  IN  IF hits = {} THEN default ELSE rules[Min(hits)].out

\* With DNS routing on, a name that a list sends through the proxy is resolved
\* by the remote server and one that a list sends out directly by the direct one.
DnsFollowsRoute ==
  Built /\ ~config.forTest /\ routing.dnsRouting =>
    \A dest \in Destinations :
      LET listed == \E i \in DOMAIN routing.rules :
                      LET r == routing.rules[i] IN r.enabled /\ r.conds = {} /\ Holds(Rule("go", r.items \ IPItems, {}, r.out), dest)
                        /\ r.items \ IPItems # {}
          route  == FirstOut(config.route, {"go"}, dest, Empty)
          dns    == FirstOut(config.dnsRules, {"go"}, dest, Empty)
      IN  listed /\ dest.item \notin IPItems =>
            /\ route = "proxy"  => dns = "dns-remote"
            /\ route = "bypass" => dns = "dns-direct"

\* What the routing page says of a connection: the first enabled rule that
\* matches it decides ("sing-box executes the first matching rule").
Verdict(out) == IF out = "bypass" THEN "direct" ELSE out

SaidByRules(cfg, dest) ==
  LET hits == {i \in DOMAIN cfg.rules : LET r == cfg.rules[i] IN
                 r.enabled /\ Holds(Rule("ui", r.items, r.conds, r.out), dest)}
  IN  IF hits = {} THEN cfg.final ELSE cfg.rules[Min(hits)].out

\* The config sends a connection where the rules of the routing page, read from
\* the top, say (the comment of moveRule); the code groups them by outbound.
FirstMatchingRuleDecides ==
  Built /\ ~config.forTest =>
    \A dest \in Destinations :
      Verdict(FirstOut(config.route, {"go", "json"}, dest, config.final)) = Verdict(SaidByRules(routing, dest))
=============================================================================
