---------------------------- MODULE ConfigBuild ----------------------------
(***************************************************************************)
(* The config builder of the core (core/config/*.go) and the compilation of*)
(* the rule editor's list to what the core reads (toGrpcRouting), as       *)
(* operators on the profiles of ShareLink.  An outbound is a function from *)
(* dotted JSON paths to tokens; a rule says what it matches by the items of*)
(* its lists, the tags of its rule sets and the conditions it has besides. *)
(***************************************************************************)
EXTENDS ShareLink, Functions

-----------------------------------------------------------------------------
\* Outbounds.

\* The "" of a key that is written, where the core tells it from no key.
Unnamed == "unnamed"

TransportOf(s) ==
  IF Val(s, "net") # "tcp"
  THEN "transport.type" :> ValOr(s, "net", Unnamed)
       @@ CASE Val(s, "net") = "ws" ->
                 Copy(s, "transport.headers.Host" :> "host" @@ "transport.path" :> "path")
            [] Val(s, "net") \in {"http", "httpupgrade"} ->
                 Copy(s, "transport.host" :> "host" @@ "transport.path" :> "path")
            [] Val(s, "net") = "grpc" -> Copy(s, "transport.service_name" :> "path")
            [] OTHER -> None
  ELSE IF Val(s, "h_type") = "http"
  THEN "transport.type" :> "http" @@ "transport.method" :> "GET"
       @@ "transport.path" :> Val(s, "path") @@ "transport.headers.Host" :> Val(s, "host")
  ELSE None

TlsOf(s) ==
  IF Val(s, "sec") # "tls" THEN None
  ELSE "tls.enabled" :> "1"
       @@ Copy(s, "tls.insecure" :> "insecure" @@ "tls.server_name" :> "sni"
                    @@ "tls.certificate" :> "cert" @@ "tls.alpn" :> "alpn"
                    @@ "tls.reality.public_key" :> "pbk")
       @@ (IF Val(s, "pbk") = Empty THEN Copy(s, "tls.utls.fingerprint" :> "utls")
           ELSE "tls.reality.short_id" :> Val(s, "sid")
                @@ "tls.utls.fingerprint" :> ValOr(s, "utls", "random"))

BuildStreamSettingsSingBox(s, type) ==
  IF s = NilStream THEN None
  ELSE TransportOf(s) @@ TlsOf(s)
       @@ (IF type \in {"vmess", "vless"} THEN Copy(s, "packet_encoding" :> "pac_enc") ELSE None)

Server(b) == "server" :> b.addr @@ "server_port" :> b.port

BuildSocksHttp(b) ==
  LET type == IF Val(b.f, "socks_http_type") = "2" THEN "http" ELSE "socks"
  IN  Server(b) @@ "type" :> type
      @@ (IF Val(b.f, "socks_http_type") = Empty THEN "version" :> "4" ELSE None)
      @@ (IF Val(b.f, "username") # Empty /\ Val(b.f, "password") # Empty
          THEN Copy(b.f, [username |-> "username", password |-> "password"]) ELSE None)
      @@ BuildStreamSettingsSingBox(b.stream, type)

BuildShadowsocks(b) ==
  Server(b) @@ "type" :> "shadowsocks"
    @@ "method" :> Val(b.f, "method") @@ "password" :> Val(b.f, "password")
    @@ "udp_over_tcp" :> Val(b.f, "uot") @@ Copy(b.f, "plugin" :> "plugin")
    @@ BuildStreamSettingsSingBox(b.stream, "shadowsocks")

BuildVMess(b) ==
  Server(b) @@ "type" :> "vmess" @@ "uuid" :> Val(b.f, "id")
    @@ "alter_id" :> Val(b.f, "aid") @@ "security" :> Val(b.f, "sec")
    @@ BuildStreamSettingsSingBox(b.stream, "vmess")

BuildTrojanVLESS(b) ==
  IF Val(b.f, "proxy_type") = "1"
  THEN Server(b) @@ "type" :> "vless" @@ "uuid" :> Val(b.f, "password")
       @@ "flow" :> (IF Val(b.f, "flow") = "none" THEN Empty ELSE Val(b.f, "flow"))
       @@ BuildStreamSettingsSingBox(b.stream, "vless")
  ELSE Server(b) @@ "type" :> "trojan" @@ "password" :> Val(b.f, "password")
       @@ BuildStreamSettingsSingBox(b.stream, "trojan")

TlsOfQUIC(b) ==
  "tls.enabled" :> "1" @@ "tls.disable_sni" :> Val(b.f, "disableSni")
    @@ "tls.insecure" :> Val(b.f, "allowInsecure") @@ "tls.server_name" :> Val(b.f, "sni")
    @@ "tls.certificate" :> Val(b.f, "caText")
    @@ (IF Val(b.f, "proxy_type") = "3" THEN "tls.alpn" :> "h3"
        ELSE Copy(b.f, "tls.alpn" :> "alpn"))

BuildHysteria2(b) ==
  "type" :> "hysteria2" @@ "password" :> Val(b.f, "password")
    @@ "up_mbps" :> Val(b.f, "uploadMbps") @@ "down_mbps" :> Val(b.f, "downloadMbps")
    @@ (IF Val(b.f, "hopPort") = Empty THEN None
        ELSE "hop_ports" :> b.f["hopPort"] @@ "hop_interval" :> Val(b.f, "hopInterval"))
    @@ Copy(b.f, "obfs.password" :> "obfsPassword")

BuildTuic(b) ==
  "type" :> "tuic" @@ "uuid" :> Val(b.f, "uuid") @@ "password" :> Val(b.f, "password")
    @@ "congestion_control" :> Val(b.f, "congestionControl")
    @@ (IF Val(b.f, "uos") # Empty THEN "udp_over_stream" :> "1"
        ELSE "udp_relay_mode" :> Val(b.f, "udpRelayMode"))
    @@ "zero_rtt_handshake" :> Val(b.f, "zeroRttHandshake")
    @@ Copy(b.f, [heartbeat |-> "heartbeat"])

BuildQUIC(b) ==
  Server(b) @@ TlsOfQUIC(b)
    @@ CASE Val(b.f, "proxy_type") = "3" -> BuildHysteria2(b)
         [] Val(b.f, "proxy_type") = "1" -> BuildTuic(b)
         [] OTHER                        -> None

BuildTLS(b) ==
  "tls.enabled" :> "1" @@ "tls.insecure" :> Val(b.f, "allowInsecure")
    @@ "tls.server_name" :> Val(b.f, "sni") @@ Copy(b.f, "tls.alpn" :> "alpn")

BuildNaive(b) ==
  Server(b) @@ "type" :> "naive" @@ "username" :> Val(b.f, "username")
    @@ "password" :> Val(b.f, "password")
    @@ Copy(b.f, [insecure_concurrency |-> "insecureConcurrency", udp_over_tcp |-> "udpOverTcp",
                  quic |-> "quic"])
    @@ BuildTLS(b)

BuildAnyTLS(b) ==
  Server(b) @@ "type" :> "anytls" @@ "password" :> Val(b.f, "password")
    @@ Copy(b.f, [idle_session_check_interval |-> "idleSessionCheckInterval",
                  idle_session_timeout |-> "idleSessionTimeout",
                  min_idle_session |-> "minIdleSession", client_metadata |-> "clientMetadata"])
    @@ BuildTLS(b)

BuildSSH(b) ==
  Server(b) @@ "type" :> "ssh" @@ "user" :> Val(b.f, "user")
    @@ Copy(b.f, [password |-> "password", private_key |-> "privateKey",
                  private_key_path |-> "privateKeyPath",
                  private_key_passphrase |-> "privateKeyPassphrase",
                  host_key_algorithms |-> "hostKeyAlgorithms", client_version |-> "clientVersion"])

BuildWireGuard(b) ==
  "type" :> "wireguard" @@ "private_key" :> Val(b.f, "privateKey")
    @@ Copy(b.f, [system |-> "system", name |-> "interfaceName", mtu |-> "mtu",
                  address |-> "address", listen_port |-> "listenPort",
                  udp_timeout |-> "udpTimeout", workers |-> "workers"])
    @@ "peer.address" :> b.addr @@ "peer.port" :> b.port
    @@ "peer.allowed_ips" :> ValOr(b.f, "peerAllowedIPs", AnyAddress)
    @@ Copy(b.f, "peer.public_key" :> "peerPublicKey" @@ "peer.pre_shared_key" :> "peerPreSharedKey"
                   @@ "peer.persistent_keepalive_interval" :> "peerKeepAlive"
                   @@ "peer.reserved" :> "peerReserved")

Unsupported == "error" :> "unsupported"

BuildOutboundSingBox(b) ==
  LET bean == DecodeBean(b.type)
  IN  CASE bean = "SocksHttpBean"   -> BuildSocksHttp(b)
        [] bean = "ShadowSocksBean" -> BuildShadowsocks(b)
        [] bean = "VMessBean"       -> BuildVMess(b)
        [] bean = "TrojanVLESSBean" -> BuildTrojanVLESS(b)
        [] bean = "QUICBean"        -> BuildQUIC(b)
        [] bean = "NaiveBean"       -> BuildNaive(b)
        [] bean = "AnyTLSBean"      -> BuildAnyTLS(b)
        [] bean = "SSHBean"         -> BuildSSH(b)
        [] bean = "WireGuardBean"   -> BuildWireGuard(b)
        [] bean = "CustomBean" /\ Val(b.f, "core") = "internal" ->
             "raw" :> Val(b.f, "config_simple")
        [] OTHER                    -> Unsupported

-----------------------------------------------------------------------------
\* Rules.  An item of a list is a name; RuleSetTags says which of them the
\* builder turns into rule sets ("geosite:x" to "geosite-x"), PrivateItems
\* which into ip_is_private.

CONSTANTS RuleSetItems, PrivateItems

ASSUME RulesAssumption == RuleSetItems \cap PrivateItems = {}

\* make: how the rule got here ("go": a []string, "json": an []interface{}).
Rule(make, items, conds, out) ==
  [make |-> make, plain |-> items \ (RuleSetItems \union PrivateItems),
   sets |-> items \cap RuleSetItems, private |-> items \cap PrivateItems # {},
   conds |-> conds, out |-> out]

\* makeRule returns nil for an empty list, and the callers then add nothing.
ListRule(items, out) == IF items = {} THEN <<>> ELSE <<Rule("go", items, {}, out)>>

Builtin(cond, out) == Rule("go", {}, {cond}, out)

\* The outbounds the rule editor offers, and the "bypass" that older rules hold.
RuleOutbounds == {"proxy", "direct", "bypass", "block"}

\* The UI's ordered rules as the routing the core reads.  A rule without other
\* conditions is merged into the list of its outbound; the others become JSON
\* rules, in their order, and lose the conditions compiled to nothing.
CompiledConds == {"port", "protocol", "network"}

ListsOf(rules, outs) ==
  UNION {rules[i].items : i \in {i \in DOMAIN rules :
    rules[i].enabled /\ rules[i].conds = {} /\ rules[i].out \in outs}}

IsCustom(r) == r.enabled /\ (r.conds # {} \/ r.out \notin RuleOutbounds)

Compiled(r) == Rule("json", r.items, r.conds \cap CompiledConds, r.out)

CustomOf(rules) ==
  LET custom[n \in 0..Len(rules)] ==
        IF n = 0 THEN <<>>
        ELSE IF IsCustom(rules[n]) THEN Append(custom[n - 1], Compiled(rules[n]))
        ELSE custom[n - 1]
  IN  custom[Len(rules)]

ToGrpcRouting(cfg) ==
  [proxy  |-> ListsOf(cfg.rules, {"proxy"}),
   direct |-> ListsOf(cfg.rules, {"direct", "bypass"}),
   block  |-> ListsOf(cfg.rules, {"block"}),
   custom |-> CustomOf(cfg.rules),
   final  |-> cfg.final, dnsRouting |-> cfg.dnsRouting, dnsFinalOut |-> cfg.dnsFinalOut,
   sniff  |-> cfg.sniff, strategy |-> cfg.strategy]

-----------------------------------------------------------------------------
\* DNS.  The items of a list that are IP items only ever reach route rules.

CONSTANT IPItems

FakeDNS(ds, forTest) == ds.fakeDns /\ ds.tun /\ ~forTest

DnsServer(tag, resolver, detour) == [tag |-> tag, resolver |-> resolver, detour |-> detour]

(* Mutant: the remote server resolves the address of the direct one. *)
DnsServersCrossed(routing, ds, forTest) ==
  <<DnsServer("dns-remote", "dns-local", "proxy"), DnsServer("dns-direct", "dns-remote", "direct"),
    DnsServer("dns-block", Empty, Empty), DnsServer("dns-fake", Empty, Empty), DnsServer("dns-local", Empty, "direct")>>

DnsServers(routing, ds, forTest) ==
  LET remote == IF forTest THEN <<>> ELSE <<DnsServer("dns-remote", "dns-local", "proxy")>>
      direct == <<DnsServer("dns-direct", "dns-local", "direct")>>
  IN  (IF routing.dnsFinalOut = "bypass" THEN direct \o remote ELSE remote \o direct)
      \o (IF forTest THEN <<>> ELSE <<DnsServer("dns-block", Empty, Empty)>>)
      \o (IF FakeDNS(ds, forTest) THEN <<DnsServer("dns-fake", Empty, Empty)>> ELSE <<>>)
      \o <<DnsServer("dns-local", Empty, "direct")>>

ServerNames(b, IPs) == IF b.addr \in IPs \union {Empty} THEN {} ELSE {b.addr}

(* Mutant: the direct names come first, while the routes put the proxied first. *)
DnsRulesDirectFirst(b, routing, ds, forTest, IPs) ==
  LET lists(items) == IF routing.dnsRouting /\ ~forTest THEN items \ IPItems ELSE {}
  IN  <<Builtin("outbound-any", "dns-direct")>>
      \o ListRule(ServerNames(b, IPs) \union lists(routing.direct), "dns-direct")
      \o ListRule(lists(routing.proxy), "dns-remote")

DnsRules(b, routing, ds, forTest, IPs) ==
  LET lists  == routing.dnsRouting /\ ~forTest
      remote == IF lists THEN routing.proxy \ IPItems ELSE {}
      direct == IF lists THEN routing.direct \ IPItems ELSE {}
  IN  <<Builtin("outbound-any", "dns-direct")>>
      \o ListRule(remote, "dns-remote")
      \o ListRule(ServerNames(b, IPs) \union direct, "dns-direct")
      \o (IF forTest THEN <<>>
          ELSE <<Builtin("query-type", "dns-block"), Builtin("lan", "dns-block")>>)
      \o (IF FakeDNS(ds, forTest) THEN <<Builtin("tun-in", "dns-fake")>> ELSE <<>>)

-----------------------------------------------------------------------------
\* Routes.

RouteRules(routing, ds, forTest, tagProxy) ==
  LET lists(items) == IF forTest THEN {} ELSE items
      sniff  == IF routing.sniff THEN <<Builtin("action-sniff", Empty)>> ELSE <<>>
      hijack == IF forTest THEN <<>> ELSE <<Builtin("protocol-dns", Empty)>>
  IN  sniff \o routing.custom \o hijack
      \o ListRule(lists(routing.block \ IPItems), "block")
      \o ListRule(lists(routing.proxy \ IPItems), tagProxy)
      \o ListRule(lists(routing.direct \ IPItems), "bypass")
      \o ListRule(lists(routing.block \cap IPItems), "block")
      \o ListRule(lists(routing.proxy \cap IPItems), tagProxy)
      \o ListRule(lists(routing.direct \cap IPItems), "bypass")
      \o <<Builtin("udp-ports", "block"), Builtin("multicast", "block"),
           Builtin("multicast-source", "block")>>

(* Mutant: only the rule sets of the builder's own rules are collected. *)
RuleSetsOfLists(rules) ==
  UNION {rules[i].sets : i \in {i \in DOMAIN rules : rules[i].make = "go"}}

RuleSetsIn(rules) == UNION {rules[i].sets : i \in DOMAIN rules}

RuleSetList(routeRules, dnsRules) == RuleSetsIn(routeRules) \union RuleSetsIn(dnsRules)

DefaultDomainResolver == "dns-direct"

-----------------------------------------------------------------------------
\* Inbounds and the whole.

MixedInbound(ds, forTest) == IF ds.portValid /\ ~forTest THEN {"mixed-in"} ELSE {}

TunInbound(ds, forTest) == IF ds.tun /\ ~forTest THEN {"tun-in"} ELSE {}

\* External: the texts encoding/json reads as an object, with what it says for
\* which top-level keys.
CONSTANT JsonObject

CustomOutbound(b) ==
  LET raw == Val(b.f, "c_out")
  IN  IF raw # Empty /\ raw \in DOMAIN JsonObject THEN JsonObject[raw] ELSE None

\* The paths of an outbound that lie within the object under a top-level key.
TlsPaths == {"tls.server_name", "tls.insecure", "tls.alpn", "tls.utls.fingerprint",
             "tls.reality.public_key", "tls.reality.short_id"}

TransportPaths == {"transport.type", "transport.path", "transport.headers.Host",
                   "transport.host", "transport.service_name", "transport.method"}

Within(key) ==
  CASE key = "tls" -> TlsPaths \union {"tls.enabled", "tls.certificate", "tls.disable_sni"}
    [] key = "transport" -> TransportPaths
    [] key = "obfs" -> {"obfs.password"}
    [] key = "peers" -> {"peer.address", "peer.port", "peer.allowed_ips", "peer.public_key",
                         "peer.pre_shared_key", "peer.persistent_keepalive_interval",
                         "peer.reserved"}
    [] OTHER -> {}

\* What c_out says takes the place of whole top-level keys.
Customized(b, out) ==
  LET custom   == CustomOutbound(b)
      replaced == UNION {Within(key) : key \in DOMAIN custom}
  IN  custom @@ [path \in DOMAIN out \ replaced |-> out[path]]

BuildChain(b, routing) ==
  Customized(b,
    "tag" :> "proxy"
      @@ (IF routing.strategy /\ b.type # "wireguard" THEN "domain_strategy" :> "1" ELSE None)
      @@ BuildOutboundSingBox(b))

Direct(tag) == "type" :> "direct" @@ "tag" :> tag

NoConfig == [error |-> "none-built"]

BuildConfigSingBox(b, routing, ds, forTest, IPs) ==
  LET out   == BuildOutboundSingBox(b)
      proxy == BuildChain(b, routing)
      tag   == Val(proxy, "tag")
      route == RouteRules(routing, ds, forTest, "proxy")
      dns   == DnsRules(b, routing, ds, forTest, IPs)
      wg    == b.type = "wireguard"
  IN  IF "error" \in DOMAIN out THEN [error |-> out["error"]]
      ELSE [error      |-> Empty,
            forTest    |-> forTest,
            proxy      |-> proxy,
            inbounds   |-> MixedInbound(ds, forTest) \union TunInbound(ds, forTest),
            endpoints  |-> IF wg THEN {tag} ELSE {},
            outbounds  |-> (IF wg THEN {} ELSE {tag}) \union {"direct", "bypass", "block"},
            dnsServers |-> DnsServers(routing, ds, forTest),
            dnsRules   |-> dns,
            route      |-> route,
            ruleSets   |-> RuleSetList(route, dns),
            resolver   |-> DefaultDomainResolver,
            final      |-> IF forTest THEN Empty ELSE routing.final,
            statsOf    |-> IF forTest THEN {} ELSE {"proxy"}]
=============================================================================
