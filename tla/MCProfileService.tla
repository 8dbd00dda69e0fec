-------------------------- MODULE MCProfileService --------------------------
(***************************************************************************)
(* The inputs ProfileService is checked on: for each protocol a full and a *)
(* bare link, editor forms with the fields that interact, and routings in  *)
(* which lists overlap.                                                    *)
(***************************************************************************)
EXTENDS ProfileService

Host == "p.example"
Addr == "192.0.2.1"

TlsQuery == [security |-> "tls", sni |-> "s", alpn |-> "h2", fp |-> "chrome", allowInsecure |-> "1"]
RealityQuery == [security |-> "reality", sni |-> "s", pbk |-> "k", sid |-> "i", spx |-> "x",
                 fp |-> "edge", flow |-> "xtls-rprx-vision"]

Transports ==
  { [type |-> "ws", path |-> "/p", host |-> "h"], [type |-> "h2", path |-> "/p", host |-> "h"],
    [type |-> "grpc", serviceName |-> "g"], [type |-> "httpupgrade", path |-> "/p"],
    [type |-> "tcp", headerType |-> "http", host |-> "h", path |-> "/p"], None }

StreamLinks ==
  {Link(s, "user", "u", "", Host, "443", t @@ q, "n") :
     s \in {"vless", "trojan", "vmess"}, t \in Transports,
     q \in {TlsQuery, RealityQuery, None, [security |-> "none", peer |-> "s"]}}

VMessBodies ==
  {[ps |-> "n", add |-> Host, port |-> "443", id |-> "u", aid |-> "1", scy |-> "zero"] @@ q :
     q \in {None, [net |-> "ws", path |-> "/p", host |-> "h", tls |-> "tls", sni |-> "s"],
            [net |-> "h2", tls |-> "tls"], [net |-> "tcp", type |-> "http", path |-> "/p"]}}

OtherLinks ==
  { Link("ss", "b64", "m", "w", Host, "8388", [plugin |-> "simple-obfs;o"], "n"),
    Link("ss", "pair", "2022-m", "w", Host, "8388", None, "n"),
    Link("ss", "pair", "m", "w", Addr, "", None, ""),
    Link("ss", "user", "opaque", "", Host, "8388", None, "n"),
    Link("socks4", "none", "", "", Host, "", None, "n"),
    Link("socks5", "pair", "u", "w", Host, "1080", None, "n"),
    Link("socks5", "pair", "u", "w", Host, "1080", [security |-> "none"], "n"),
    Link("socks", "user", "u", "", Host, "1080", [security |-> "tls", sni |-> "s"], "n"),
    Link("https", "b64", "u", "w", Host, "443", [sni |-> "s"], "n"),
    Link("http", "pair", "u", "w", Host, "80", None, "n"),
    Link("hy2", "user", "w", "", Host, "443",
         "sni" :> "s" @@ "mport" :> "2000-3000" @@ "obfs-password" :> "o" @@ "insecure" :> "true", "n"),
    Link("hysteria2", "pair", "u", "w", Host, "", None, ""),
    Link("tuic", "pair", "u", "w", Host, "443",
         [sni |-> "s", congestion_control |-> "bbr", alpn |-> "h3", udp_relay_mode |-> "quic",
          allow_insecure |-> "1", disable_sni |-> "1"], "n"),
    Link("naive+https", "pair", "u", "w", Host, "443", [sni |-> "s", alpn |-> "h2", quic |-> "1"], "n"),
    Link("naive", "user", "u", "", Host, "", None, ""),
    Link("anytls", "pair", "x", "w", Host, "8443", [alpn |-> "h2", min_idle_session |-> "5"], "n"),
    Link("ssh", "pair", "u", "w", Host, "", [private_key |-> "k", host_key_algorithms |-> "a"], "n"),
    Link("wg", "user", "k", "", Host, "51820", [public_key |-> "q", mtu |-> "1280"], "n"),
    Link("ftp", "none", "", "", Host, "21", None, ""),
    Link("vless", "none", "", "", Host, "443", None, "n") }

VMessLinks == {Link("vmess", "json", "", "", "", "", body, "") : body \in VMessBodies}

MCContents ==
  {[layers |-> 0, kind |-> "links", entries |-> <<l>>] :
     l \in StreamLinks \union OtherLinks \union VMessLinks}
  \union
  {[layers |-> n, kind |-> "links",
    entries |-> <<Link("ftp", "none", "", "", Host, "21", None, ""),
                  Link("trojan", "user", "w", "", Host, "", None, "n")>>] : n \in {1, 4, 5}}
  \union
  {[layers |-> 0, kind |-> "sip008",
    entries |-> <<[server |-> Host, server_port |-> "1", method |-> "m", password |-> "w"]>>]}

Form(type, f, stream) == Profile(type, "n", Host, "443", f, stream)

FormStreams ==
  {None, [net |-> "tcp", sec |-> "tls", sni |-> "s", alpn |-> "h2"],
   [net |-> "ws", path |-> "/p", host |-> "h", sec |-> "tls", utls |-> "ios", insecure |-> "1"],
   [net |-> "grpc", path |-> "g"], [net |-> "quic"], [net |-> "http", host |-> "h", sec |-> "tls"],
   [net |-> "tcp", sec |-> "reality", pbk |-> "k", sid |-> "i"],
   [net |-> "tcp", sec |-> "tls", pbk |-> "k", sid |-> "i", spx |-> "x"]}

MCEditorForms ==
  {Form(t, [password |-> "w"], s) : t \in {"vless", "trojan"}, s \in FormStreams}
  \union {Form("vmess", [id |-> "u", sec |-> "auto"], s) : s \in FormStreams}
  \union {Form(t, [username |-> "u", password |-> "w"], s) : t \in {"socks", "http"}, s \in FormStreams}
  \union
  { Form("vmess", [id |-> "u"], [net |-> "tcp"]),
    Form("vless", [password |-> "w", flow |-> "xtls-rprx-vision"], [net |-> "tcp", sec |-> "tls"]),
    Form("shadowsocks", [method |-> "m", password |-> "w", uot |-> "2", plugin |-> "p"],
         [net |-> "ws", path |-> "/p", sec |-> "tls"]),
    Form("shadowsocks", [method |-> "m", password |-> "w", plugin |-> "simple-obfs;o"], None),
    Form("hysteria2", [password |-> "w", uploadMbps |-> "9", hopPort |-> "1-2", hopInterval |-> "3",
                       obfsPassword |-> "o", sni |-> "s", alpn |-> "h3"], None),
    Form("tuic", [uuid |-> "u", password |-> "w", zeroRttHandshake |-> "1", alpn |-> "h3"], None),
    Form("naive", [username |-> "u", password |-> "w", sni |-> "s", udpOverTcp |-> "1"], None),
    Form("anytls", [password |-> "w", sni |-> "s", alpn |-> "h2", minIdleSession |-> "5"], None),
    Form("ssh", [user |-> "u", privateKey |-> "k", privateKeyPassphrase |-> "x"], None),
    Form("wireguard", [privateKey |-> "k", address |-> "10.0.0.3/32", peerPublicKey |-> "q",
                       system |-> "1", peerReserved |-> "1,2,3"], None),
    Form("custom", None, None) }
  \union
  { Form("custom", [core |-> "internal", config_simple |-> "j", password |-> "w", c_out |-> out],
         [net |-> "tcp", sec |-> "tls", sni |-> "s"]) : out \in {"names-type", "names-tag", "says-tls", "no json"} }
  \union
  { Form("shadowsocks", [method |-> "m", password |-> "w", c_out |-> "says-tls"], [net |-> "tcp"]) }

\* What the texts of c_out say; "no json" is none.
MCJsonObject ==
  "names-type" :> [type |-> "hysteria", server |-> "o.example"]
    @@ "names-tag" :> [tag |-> "mine"] @@ "says-tls" :> [tls |-> "object", multiplex |-> "object"]

\* geosite-cn and geosite-ai share a name.
MCRuleSetItems == {"geosite-cn", "geosite-ai", "geoip-cn"}
MCPrivateItems == {"private"}
MCIPItems == {"geoip-cn", "10.0.0.0/8"}
MCInRuleSet == "geosite-cn" :> {"cn.example", "both.example"}
            @@ "geosite-ai" :> {"ai.example", "both.example"} @@ "geoip-cn" :> {"203.0.113.1"}
MCDestinations ==
  [item : {"cn.example", "ai.example", "both.example", "203.0.113.1", "other.example"},
   conds : {{}, {"network"}, {"network", "source"}}]

R(items, conds, out) == [enabled |-> TRUE, items |-> items, conds |-> conds, out |-> out]

MCRules ==
  { <<>>,
    <<R({"geosite-cn", "geoip-cn"}, {}, "direct"), R({"geosite-ai"}, {}, "proxy")>>,
    <<R({"geosite-ai"}, {}, "proxy"), R({"geosite-cn", "private"}, {}, "direct"),
      R({"cn.example"}, {}, "block")>>,
    <<R({"other.example"}, {"network"}, "block"), R({"geosite-ai"}, {"network", "source"}, "direct"),
      [R({"geosite-cn"}, {}, "proxy") EXCEPT !.enabled = FALSE]>> }

Cfg(rules, f, d, o) ==
  [rules |-> rules, final |-> f, dnsRouting |-> d, dnsFinalOut |-> o, sniff |-> d, strategy |-> d]

MCRoutings ==
  {Cfg(rules, "proxy", TRUE, "direct") : rules \in MCRules}
  \union {Cfg(rules, "direct", TRUE, "bypass") : rules \in MCRules}
  \union {Cfg(<<>>, "direct", FALSE, "direct")}

MCDataStores ==
  { [portValid |-> TRUE, tun |-> FALSE, fakeDns |-> TRUE],
    [portValid |-> FALSE, tun |-> TRUE, fakeDns |-> TRUE] }

MCIPAddresses == {Addr}
=============================================================================
