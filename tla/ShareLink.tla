----------------------------- MODULE ShareLink -----------------------------
(***************************************************************************)
(* Share links and subscriptions: core/sub/link.go and core/sub/link_gen.go*)
(* as operators.  A JSON object, the query of a URL and the string fields  *)
(* of a Go bean are all partial functions from keys to non-zero values: an *)
(* absent key, "" and the zero of its Go type are the same thing.  Numbers *)
(* stay the tokens they are in a URL; percent-encoding and base64 are the  *)
(* "form" of a link's user part.                                           *)
(***************************************************************************)
EXTENDS Integers, Sequences

\* The operators of module TLC, defined here because a proof can expand them
\* only where they have a definition: one key, and a merge the left side wins.
k :> v == [x \in {k} |-> v]

f @@ g == [x \in DOMAIN f \union DOMAIN g |-> IF x \in DOMAIN f THEN f[x] ELSE g[x]]

Empty == ""                                  \* what an absent key stands for

None == [k \in {} |-> Empty]                 \* no key set

Val(m, k) == IF k \in DOMAIN m THEN m[k] ELSE Empty

ValOr(m, k, default) == IF Val(m, k) = Empty THEN default ELSE Val(m, k)

Set(k, v) == IF v = Empty THEN None ELSE k :> v

Flag(k, condition) == IF condition THEN k :> "1" ELSE None

\* The keys of table, each with what m has under the key the table names.
Copy(m, table) ==
  [k \in {k \in DOMAIN table : Val(m, table[k]) # Empty} |-> m[table[k]]]

NilStream == "nil" :> "1"                    \* the Go pointer Stream is nil

StreamTypes == {"socks", "http", "shadowsocks", "vmess", "vless", "trojan"}

\* A profile: fmt.ProxyEntity with its bean; f holds the bean's own fields.
Profile(type, name, addr, port, f, stream) ==
  [type |-> type, name |-> name, addr |-> addr, port |-> port,
   f |-> f, stream |-> IF type \in StreamTypes THEN stream ELSE NilStream]

Rejected == Profile(Empty, Empty, Empty, "0", None, None)

\* The Go type a bean is decoded to, by the profile's label: two protocols may
\* share one, and its discriminator then says which it is.
DecodeBean(type) ==
  CASE type \in {"socks", "http"}     -> "SocksHttpBean"
    [] type = "shadowsocks"           -> "ShadowSocksBean"
    [] type = "vmess"                 -> "VMessBean"
    [] type \in {"vless", "trojan"}   -> "TrojanVLESSBean"
    [] type \in {"hysteria2", "tuic"} -> "QUICBean"
    [] type = "custom"                -> "CustomBean"
    [] type = "chain"                 -> "ChainBean"
    [] type = "naive"                 -> "NaiveBean"
    [] type = "anytls"                -> "AnyTLSBean"
    [] type = "ssh"                   -> "SSHBean"
    [] type = "wireguard"             -> "WireGuardBean"
    [] OTHER                          -> "UnknownBeanTypeError"

\* A link: form says how the user part is written: "none", "user", "pair"
\* (user:pass), "b64" (the base64 of user:pass), or "json" (vmess: the body is
\* the base64 of an object, whose keys are in query).
Link(scheme, form, user, pass, host, port, query, name) ==
  [scheme |-> scheme, form |-> form, user |-> user, pass |-> pass,
   host |-> host, port |-> port, query |-> query, name |-> name]

NoLink == Link(Empty, "none", Empty, Empty, Empty, Empty, None, Empty)

-----------------------------------------------------------------------------
\* Parsing.

PortOr(l, default) == IF l.port \in {Empty, "0"} THEN default ELSE l.port

\* The discriminator Dart and Go keep in a bean shared by two protocols.
ProxyType(type) ==
  CASE type = "vless"     -> "proxy_type" :> "1"
    [] type = "tuic"      -> "proxy_type" :> "1"
    [] type = "hysteria2" -> "proxy_type" :> "3"
    [] OTHER              -> None

ParseSocksHTTP(l) ==
  LET http   == l.scheme \in {"http", "https"}
      socks4 == l.scheme \in {"socks4", "socks4a"}
  IN  Profile(IF http THEN "http" ELSE "socks", l.name, l.host, PortOr(l, "1080"),
              Set("socks_http_type", IF http THEN "2" ELSE IF socks4 THEN Empty ELSE "1")
                @@ Set("username", l.user) @@ Set("password", l.pass),
              "net" :> "tcp"
                @@ Set("sec", IF l.scheme = "https" THEN "tls" ELSE Val(l.query, "security"))
                @@ Set("sni", Val(l.query, "sni")))

Network(q) == IF ValOr(q, "type", "tcp") = "h2" THEN "http" ELSE ValOr(q, "type", "tcp")

TransportOfQuery(q) ==
  CASE Network(q) \in {"ws", "http", "httpupgrade"} -> Copy(q, [path |-> "path", host |-> "host"])
    [] Network(q) = "grpc" -> Copy(q, [path |-> "serviceName"])
    [] Network(q) = "tcp" /\ Val(q, "headerType") = "http" ->
         ("h_type" :> "http") @@ Copy(q, [path |-> "path", host |-> "host"])
    [] OTHER -> None

\* The stream settings of the URL forms of trojan, vless and vmess.
StreamOfQuery(q, sec) ==
  "net" :> Network(q)
    @@ Set("sec", sec)
    @@ Set("sni", ValOr(q, "peer", Val(q, "sni")))
    @@ Flag("insecure", Val(q, "allowInsecure") # Empty)
    @@ Copy(q, [pbk |-> "pbk", sid |-> "sid", spx |-> "spx", utls |-> "fp"])
    @@ TransportOfQuery(q)

(* Mutant: the link's "reality" is kept, which the builder does not know. *)
SecurityVerbatim(q, default) ==
  IF ValOr(q, "security", default) = "none" THEN Empty ELSE ValOr(q, "security", default)

SecurityOf(q, default) ==
  LET s == ValOr(q, "security", default)
  IN  CASE s = "reality" -> "tls" [] s = "none" -> Empty [] OTHER -> s

ParseTrojanVLESS(l) ==
  IF l.user = Empty \/ l.host = Empty THEN Rejected
  ELSE Profile(l.scheme, l.name, l.host, PortOr(l, "443"),
         "password" :> l.user @@ ProxyType(l.scheme)
           @@ (IF l.scheme = "vless" THEN Copy(l.query, [flow |-> "flow"]) ELSE None),
         Copy(l.query, [alpn |-> "alpn"])
           @@ StreamOfQuery(l.query,
                SecurityOf(l.query, IF l.scheme = "trojan" THEN "tls" ELSE Empty)))

PluginOf(q) ==
  IF Val(q, "plugin") = "simple-obfs;o" THEN "obfs-local;o" ELSE Val(q, "plugin")

\* A link without "@" is taken for the v2rayN form, whose host is then looked
\* for after an "@" that is not there: it is always refused.
ParseShadowsocks(l) ==
  IF l.form \notin {"pair", "b64"} \/ Empty \in {l.host, l.user, l.pass} THEN Rejected
  ELSE Profile("shadowsocks", l.name, l.host, ValOr(l, "port", "0"),
         "method" :> l.user @@ "password" :> l.pass @@ Set("plugin", PluginOf(l.query)),
         "net" :> "tcp")

ParseVMessJson(l) ==
  LET q   == l.query
      net == ValOr(q, "net", "tcp")
  IN  IF Val(q, "id") = Empty \/ Val(q, "add") = Empty THEN Rejected
      ELSE Profile("vmess", Val(q, "ps"), q["add"], ValOr(q, "port", "0"),
             "id" :> q["id"] @@ Set("aid", Val(q, "aid")) @@ "sec" :> ValOr(q, "scy", "auto"),
             "net" :> (IF net = "h2" THEN "http" ELSE net)
               @@ Copy(q, [host |-> "host", path |-> "path", sni |-> "sni",
                           h_type |-> "type", sec |-> "tls"]))

ParseVMess(l) ==
  IF l.form = "json" THEN ParseVMessJson(l)
  ELSE IF l.user = Empty \/ l.host = Empty THEN Rejected
  ELSE LET sec == ValOr(l.query, "security", "tls")
       IN  Profile("vmess", l.name, l.host, PortOr(l, "443"),
             "id" :> l.user @@ "sec" :> ValOr(l.query, "encryption", "auto"),
             StreamOfQuery(l.query, IF sec = "reality" THEN "tls" ELSE sec))

ParseQUIC(l) ==
  IF l.host = Empty THEN Rejected
  ELSE IF l.scheme = "tuic"
  THEN Profile("tuic", l.name, l.host, PortOr(l, "443"),
         ProxyType("tuic") @@ Set("uuid", l.user) @@ Set("password", l.pass)
           @@ Copy(l.query, [congestionControl |-> "congestion_control", alpn |-> "alpn",
                             sni |-> "sni", udpRelayMode |-> "udp_relay_mode"])
           @@ Flag("allowInsecure", Val(l.query, "allow_insecure") = "1")
           @@ Flag("disableSni", Val(l.query, "disable_sni") = "1"), NilStream)
  ELSE Profile("hysteria2", l.name, l.host, PortOr(l, "443"),
         ProxyType("hysteria2")
           @@ Set("password", IF l.form = "pair" THEN l.user \o ":" \o l.pass ELSE l.user)
           @@ Copy(l.query, "hopPort" :> "mport" @@ "obfsPassword" :> "obfs-password"
                              @@ "sni" :> "sni")
           @@ Flag("allowInsecure", Val(l.query, "insecure") \in {"1", "true"}), NilStream)

\* The four parsers below keep an explicit port, 0 included, and leave the name.
TlsOfQuery(l) ==
  "sni" :> ValOr(l.query, "sni", l.host) @@ Copy(l.query, [alpn |-> "alpn"])
    @@ Flag("allowInsecure", "1" \in {Val(l.query, "insecure"), Val(l.query, "allow_insecure")})

ParseNaive(l) ==
  IF l.host = Empty THEN Rejected
  ELSE Profile("naive", Empty, l.host, ValOr(l, "port", "443"),
         Set("username", l.user) @@ Set("password", l.pass) @@ TlsOfQuery(l)
           @@ Flag("quic", Val(l.query, "quic") = "1"), NilStream)

ParseAnyTLS(l) ==
  IF l.host = Empty THEN Rejected
  ELSE Profile("anytls", Empty, l.host, ValOr(l, "port", "443"),
         Set("password", IF l.form = "pair" THEN l.pass ELSE l.user) @@ TlsOfQuery(l)
           @@ Copy(l.query, [minIdleSession |-> "min_idle_session",
                             clientMetadata |-> "client_metadata"]), NilStream)

ParseSSH(l) ==
  IF l.host = Empty THEN Rejected
  ELSE Profile("ssh", Empty, l.host, ValOr(l, "port", "22"),
         Set("user", l.user) @@ Set("password", l.pass)
           @@ Copy(l.query, [privateKey |-> "private_key", clientVersion |-> "client_version",
                             hostKeyAlgorithms |-> "host_key_algorithms"]), NilStream)

\* The addresses a WireGuard peer may use if the link says nothing of them.
AnyAddress == "0.0.0.0/0,::/0"

ParseWireGuard(l) ==
  IF l.host = Empty THEN Rejected
  ELSE Profile("wireguard", Empty, l.host, ValOr(l, "port", "51820"),
         Set("privateKey", IF l.form = "pair" THEN l.pass ELSE l.user)
           @@ "peerAddress" :> l.host @@ "peerPort" :> ValOr(l, "port", "51820")
           @@ Copy(l.query, [address |-> "address", peerPublicKey |-> "public_key",
                peerPreSharedKey |-> "pre_shared_key", peerAllowedIPs |-> "allowed_ips",
                mtu |-> "mtu", peerKeepAlive |-> "keepalive", peerReserved |-> "reserved"])
           @@ "address" :> "10.0.0.2/32" @@ "peerAllowedIPs" :> AnyAddress, NilStream)

ParseLink(l) ==
  CASE l.scheme = "ss"                   -> ParseShadowsocks(l)
    [] l.scheme = "vmess"                -> ParseVMess(l)
    [] l.scheme \in {"vless", "trojan"}  -> ParseTrojanVLESS(l)
    [] l.scheme \in {"hysteria2", "hy2", "tuic"} -> ParseQUIC(l)
    [] l.scheme \in {"socks4", "socks4a", "socks5", "socks", "http", "https"} -> 
         IF l.host = Empty THEN Rejected ELSE ParseSocksHTTP(l)
    [] l.scheme \in {"naive+https", "naive"} -> ParseNaive(l)
    [] l.scheme = "anytls"               -> ParseAnyTLS(l)
    [] l.scheme = "ssh"                  -> ParseSSH(l)
    [] l.scheme \in {"wireguard", "wg"}  -> ParseWireGuard(l)
    [] OTHER                             -> Rejected

-----------------------------------------------------------------------------
\* Subscriptions.  A content is a list of links or of SIP008 servers under
\* "layers" encodings in base64.

MaxAutoDepth == 4

SIP008Profile(s) ==
  Profile("shadowsocks", Val(s, "remarks"), Val(s, "server"), ValOr(s, "server_port", "0"),
    Copy(s, [method |-> "method", password |-> "password"])
      @@ Set("plugin", IF Val(s, "plugin_opts") # Empty THEN Val(s, "plugin") \o ";" \o s["plugin_opts"]
                       ELSE Val(s, "plugin")), "net" :> "tcp")

ParseRaw(entries) == [i \in DOMAIN entries |-> ParseLink(entries[i])]

\* A content still encoded after MaxAutoDepth decodings is one line that is no
\* link; so is a SIP008 document, which "auto" does not recognise.
ParseAuto(content, depth) ==
  IF content.layers > MaxAutoDepth - depth \/ content.kind = "sip008"
  THEN <<Rejected>> ELSE ParseRaw(content.entries)

ParseContent(content, format) ==
  CASE format = "sip008" -> IF content.kind = "sip008" /\ content.layers = 0
                            THEN [i \in DOMAIN content.entries |-> SIP008Profile(content.entries[i])]
                            ELSE <<Rejected>>
    [] format = "raw"    -> IF content.kind = "links" /\ content.layers = 0
                            THEN ParseRaw(content.entries) ELSE <<Rejected>>
    [] format = "base64" -> IF content.layers = 0 THEN <<Rejected>>
                            ELSE ParseAuto([content EXCEPT !.layers = @ - 1], 0)
    [] OTHER             -> ParseAuto(content, 0)

-----------------------------------------------------------------------------
\* Generation.

Stream(b) == IF b.stream = NilStream THEN None ELSE b.stream

GenSocksHTTP(b) ==
  LET user == Val(b.f, "username")
      pass == Val(b.f, "password")
  IN  Link(CASE Val(b.f, "socks_http_type") = "2" ->
                  IF Val(Stream(b), "sec") = "tls" THEN "https" ELSE "http"
             [] Val(b.f, "socks_http_type") = "1" -> "socks1"
             [] OTHER                             -> "socks0",
           IF user = Empty THEN "none" ELSE IF pass = Empty THEN "user" ELSE "pair",
           user, IF user = Empty THEN Empty ELSE pass, b.addr, b.port, None, b.name)

(* Mutant: the service name of grpc is written like a path. *)
QueryOfPaths(s) ==
  ("headerType" :> Val(s, "h_type")) @@ Copy(s, [path |-> "path", host |-> "host"])

QueryOfTransport(s) ==
  CASE Val(s, "net") \in {"ws", "http", "httpupgrade"} -> Copy(s, [path |-> "path", host |-> "host"])
    [] Val(s, "net") = "grpc" -> Copy(s, [serviceName |-> "path"])
    [] Val(s, "net") = "tcp" /\ Val(s, "h_type") = "http" ->
         ("headerType" :> "http") @@ Copy(s, [path |-> "path", host |-> "host"])
    [] OTHER -> None

GenTrojanVLESS(b) ==
  LET s       == Stream(b)
      vless   == Val(b.f, "proxy_type") = "1"
      reality == Val(s, "sec") = "tls" /\ Val(s, "pbk") # Empty
  IN  Link(IF vless THEN "vless" ELSE "trojan", "user", Val(b.f, "password"), Empty, b.addr, b.port,
           Set("security", IF reality THEN "reality" ELSE Val(s, "sec"))
             @@ Copy(s, [sni |-> "sni", alpn |-> "alpn", allowInsecure |-> "insecure", fp |-> "utls",
                         type |-> "net"])
             @@ (IF reality THEN Copy(s, [pbk |-> "pbk", sid |-> "sid", spx |-> "spx"]) ELSE None)
             @@ QueryOfTransport(s)
             @@ (IF vless THEN Copy(b.f, [flow |-> "flow"]) @@ "encryption" :> "none" ELSE None),
           b.name)

\* The methods of SIP022, whose user part is not encoded.
Methods2022 == {"2022-m"}

GenShadowsocks(b) ==
  Link("ss", IF Val(b.f, "method") \in Methods2022 THEN "pair" ELSE "b64",
       Val(b.f, "method"), Val(b.f, "password"), b.addr, b.port,
       Copy(b.f, [plugin |-> "plugin"]), b.name)

GenVMess(b) ==
  LET s == Stream(b)
  IN  Link("vmess", "json", Empty, Empty, Empty, Empty,
           Set("ps", b.name) @@ Set("add", b.addr) @@ "port" :> b.port
             @@ Copy(b.f, [id |-> "id", aid |-> "aid", scy |-> "sec"])
             @@ Copy(s, [net |-> "net", host |-> "host", path |-> "path",
                         type |-> "h_type", sni |-> "sni"])
             @@ Set("tls", IF Val(s, "sec") = "tls" THEN "tls" ELSE Empty), Empty)

(* Mutant: the obfuscation password travels in the user part. *)
GenQUICObfsAsUser(b) ==
  IF Val(b.f, "proxy_type") = "3"
  THEN Link("hysteria2", "pair", Val(b.f, "password"), Val(b.f, "obfsPassword"), b.addr, b.port,
         Copy(b.f, "obfs-password" :> "obfsPassword"), b.name)
  ELSE Link("tuic", "pair", Val(b.f, "uuid"), Val(b.f, "password"), b.addr, b.port, None, b.name)

GenQUIC(b) ==
  IF Val(b.f, "proxy_type") = "3"
  THEN Link("hysteria2", IF Val(b.f, "password") = Empty THEN "none" ELSE "user",
         Val(b.f, "password"), Empty, b.addr, b.port,
         Copy(b.f, "sni" :> "sni" @@ "mport" :> "hopPort" @@ "obfs-password" :> "obfsPassword"
                     @@ "insecure" :> "allowInsecure"), b.name)
  ELSE Link("tuic", IF Val(b.f, "password") = Empty THEN "user" ELSE "pair",
         Val(b.f, "uuid"), Val(b.f, "password"), b.addr, b.port,
         Copy(b.f, [sni |-> "sni", congestion_control |-> "congestionControl", alpn |-> "alpn",
                    udp_relay_mode |-> "udpRelayMode", allow_insecure |-> "allowInsecure",
                    disable_sni |-> "disableSni"]), b.name)

GenNaive(b) ==
  Link("naive+https", "pair", Val(b.f, "username"), Val(b.f, "password"), b.addr, b.port,
       Copy(b.f, [sni |-> "sni", allow_insecure |-> "allowInsecure", alpn |-> "alpn",
                  quic |-> "quic"]), b.name)

GenAnyTLS(b) ==
  Link("anytls", "user", Val(b.f, "password"), Empty, b.addr, b.port,
       Copy(b.f, [sni |-> "sni", allow_insecure |-> "allowInsecure",
                  min_idle_session |-> "minIdleSession", client_metadata |-> "clientMetadata"]),
       b.name)

GenSSH(b) ==
  Link("ssh", IF Val(b.f, "password") = Empty THEN "user" ELSE "pair",
       Val(b.f, "user"), Val(b.f, "password"), b.addr, b.port,
       Copy(b.f, [private_key |-> "privateKey", host_key_algorithms |-> "hostKeyAlgorithms",
                  client_version |-> "clientVersion"]), b.name)

GenWireGuard(b) ==
  Link("wireguard", "user", Val(b.f, "privateKey"), Empty, b.addr, b.port,
       Copy(b.f, [address |-> "address", public_key |-> "peerPublicKey",
                  pre_shared_key |-> "peerPreSharedKey", allowed_ips |-> "peerAllowedIPs",
                  mtu |-> "mtu", keepalive |-> "peerKeepAlive", reserved |-> "peerReserved"]),
       b.name)

\* NoLink stands for the error returned for a type without links.
GenerateLink(b) ==
  LET bean == DecodeBean(b.type)
  IN  CASE bean = "SocksHttpBean"   -> GenSocksHTTP(b)
        [] bean = "VMessBean"       -> GenVMess(b)
        [] bean = "TrojanVLESSBean" -> GenTrojanVLESS(b)
        [] bean = "ShadowSocksBean" -> GenShadowsocks(b)
        [] bean = "QUICBean"        -> GenQUIC(b)
        [] bean = "NaiveBean"       -> GenNaive(b)
        [] bean = "AnyTLSBean"      -> GenAnyTLS(b)
        [] bean = "SSHBean"         -> GenSSH(b)
        [] bean = "WireGuardBean"   -> GenWireGuard(b)
        [] OTHER                    -> NoLink
=============================================================================
