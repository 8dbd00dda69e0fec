------------------------ MODULE ProfileServiceProofs ------------------------
(***************************************************************************)
(* Proofs about ProfileService and the operators of ShareLink and          *)
(* ConfigBuild it is built from: what a profile's label, a link's word on  *)
(* encryption and a configuration of the routing page come to in the config*)
(* the core builds, for every link, form and configuration.                *)
(***************************************************************************)
EXTENDS ProfileService, SequenceTheorems, WellFoundedInduction, TLAPS

-----------------------------------------------------------------------------
(* Natural numbers.  Induction is stated over a set, which the provers can *)
(* instantiate where they cannot instantiate an operator.                  *)

\* A set of naturals has a least element.
LEMMA LeastNatural ==
  ASSUME NEW T, T \subseteq Nat, T # {}
  PROVE  \E x \in T : \A y \in T : x <= y
<1> DEFINE R == OpToRel(<, Nat)
<1>1. IsWellFoundedOn(R, Nat)
  BY NatLessThanWellFounded
<1>2. PICK x \in T : \A y \in T : <<y, x>> \notin R
  <2> HIDE DEF R
  <2> QED  BY <1>1, WFMin
<1>3. \A y \in T : ~(y < x)
  BY <1>2 DEF OpToRel
<1> QED  BY <1>3

\* A set with 0 that is closed under successor holds every natural.
LEMMA InductionOnSet ==
  ASSUME NEW T, 0 \in T, \A n \in Nat : n \in T => n + 1 \in T
  PROVE  Nat \subseteq T
<1>1. SUFFICES ASSUME Nat \ T # {} PROVE FALSE
  OBVIOUS
<1>2. PICK x \in Nat \ T : \A y \in Nat \ T : x <= y
  BY <1>1, LeastNatural
<1>3. x # 0 /\ x - 1 \in Nat /\ x - 1 \in T
  BY <1>2
<1> QED  BY <1>2, <1>3

\* Min of a set of naturals is in it, and below the others.
LEMMA MinIsLeast ==
  ASSUME NEW T, T \subseteq Nat, T # {}
  PROVE  Min(T) \in T /\ \A y \in T : Min(T) <= y
BY LeastNatural DEF Min

-----------------------------------------------------------------------------
(* Keyed functions: what Val says of each way to build one.                *)

\* The empty string is none of these words (the SMT backend knows no empty
\* string: Empty stays a name, and this is what there is to know of it).
LEMMA NotEmpty ==
  /\ Empty # "unsupported" /\ Empty # "proxy" /\ Empty # "bypass" /\ Empty # "block"
  /\ Empty # "dns-remote" /\ Empty # "dns-direct" /\ Empty # "dns-local"
  /\ Empty # "1" /\ Empty # "2" /\ Empty # "3" /\ Empty # "tls" /\ Empty # "none"
  /\ Empty # "reality" /\ Empty # "0" /\ Empty # "443" /\ Empty # "auto"
  /\ Empty \notin Types
BY Zenon DEF Empty, Types, StreamTypes

\* A single key.
LEMMA ValOfKey ==
  ASSUME NEW k, NEW v, NEW key
  PROVE  /\ Val(k :> v, key) = IF key = k THEN v ELSE Empty
         /\ key \in DOMAIN (k :> v) <=> key = k
BY DEF :>, Val

\* A merge: the left side wins, even with the empty value.
LEMMA ValOfMerge ==
  ASSUME NEW f, NEW g, NEW key
  PROVE  /\ Val(f @@ g, key) = IF key \in DOMAIN f THEN f[key] ELSE Val(g, key)
         /\ key \in DOMAIN (f @@ g) <=> key \in DOMAIN f \/ key \in DOMAIN g
BY DEF @@, Val

\* A copy of some keys under other names.
LEMMA ValOfCopy ==
  ASSUME NEW m, NEW table, NEW key
  PROVE  /\ Val(Copy(m, table), key) =
              IF key \in DOMAIN table THEN Val(m, table[key]) ELSE Empty
         /\ key \in DOMAIN Copy(m, table) =>
              key \in DOMAIN table /\ Val(m, table[key]) # Empty
BY DEF Copy, Val

-----------------------------------------------------------------------------
(* Sequences by their ranges.                                              *)

IsSeq(s) == s \in Seq(Range(s))

\* A sequence over some set is one over its own range, which the set holds.
LEMMA SeqOverRange ==
  ASSUME NEW S, NEW s \in Seq(S)
  PROVE  IsSeq(s) /\ Range(s) \subseteq S
<1>1. Len(s) \in Nat /\ s \in [1..Len(s) -> S] /\ DOMAIN s = 1..Len(s)
  BY LenProperties
<1>2. s \in [1..Len(s) -> Range(s)]
  BY <1>1 DEF Range
<1>3. s \in Seq(Range(s))
  BY <1>1, <1>2
<1>4. Range(s) \subseteq S
  BY <1>1 DEF Range
<1> QED  BY <1>3, <1>4 DEF IsSeq

\* The range of a concatenation is the union of the ranges.
LEMMA RangeOfConcat ==
  ASSUME NEW s, NEW t, IsSeq(s), IsSeq(t)
  PROVE  IsSeq(s \o t) /\ Range(s \o t) = Range(s) \union Range(t)
<1> DEFINE S == Range(s) \union Range(t)
<1>1. s \in Seq(S) /\ t \in Seq(S)
  BY SeqMonotonic DEF IsSeq
<1>2. /\ s \o t \in Seq(S)
      /\ Len(s \o t) = Len(s) + Len(t)
      /\ \A i \in 1..Len(s) + Len(t) :
           (s \o t)[i] = IF i <= Len(s) THEN s[i] ELSE t[i - Len(s)]
  <2> HIDE DEF S
  <2> QED  BY <1>1, ConcatProperties
<1>3. Len(s) \in Nat /\ DOMAIN s = 1..Len(s)
      /\ Len(t) \in Nat /\ DOMAIN t = 1..Len(t)
      /\ DOMAIN (s \o t) = 1..Len(s \o t)
  <2> HIDE DEF S
  <2> QED  BY <1>1, <1>2, LenProperties
<1>4. IsSeq(s \o t) /\ Range(s \o t) \subseteq S
  <2> HIDE DEF S
  <2> QED  BY <1>2, SeqOverRange
<1>5. ASSUME NEW x \in Range(s)  PROVE x \in Range(s \o t)
  <2>1. PICK i \in 1..Len(s) : x = s[i]
    BY <1>3 DEF Range
  <2> QED  BY <1>2, <1>3, <2>1 DEF Range
<1>6. ASSUME NEW x \in Range(t)  PROVE x \in Range(s \o t)
  <2>1. PICK i \in 1..Len(t) : x = t[i]
    BY <1>3 DEF Range
  <2>2. i + Len(s) \in 1..Len(s) + Len(t) /\ ~(i + Len(s) <= Len(s))
        /\ (i + Len(s)) - Len(s) = i
    BY <1>3, <2>1
  <2>3. (s \o t)[i + Len(s)] = x
    BY <1>2, <2>1, <2>2
  <2> QED  BY <1>2, <1>3, <2>2, <2>3 DEF Range
<1> QED  BY <1>4, <1>5, <1>6

\* Sequences written out.
LEMMA RangeOfFew ==
  /\ IsSeq(<<>>) /\ Range(<<>>) = {}
  /\ \A x : IsSeq(<<x>>) /\ Range(<<x>>) = {x}
<1>1. IsSeq(<<>>) /\ Range(<<>>) = {}
  BY DEF IsSeq, Range
<1>2. ASSUME NEW x  PROVE IsSeq(<<x>>) /\ Range(<<x>>) = {x}
  BY DEF IsSeq, Range
<1> QED  BY <1>1, <1>2

\* Two elements,
LEMMA RangeOfTwo ==
  ASSUME NEW x, NEW y
  PROVE  IsSeq(<<x, y>>) /\ Range(<<x, y>>) = {x, y}
BY DEF IsSeq, Range

\* and three.
LEMMA RangeOfThree ==
  ASSUME NEW x, NEW y, NEW z
  PROVE  IsSeq(<<x, y, z>>) /\ Range(<<x, y, z>>) = {x, y, z}
BY DEF IsSeq, Range

-----------------------------------------------------------------------------
(* The rules of the routing page.                                          *)

CustomStep(rules, s, n) ==
  IF IsCustom(rules[n]) THEN Append(s, Compiled(rules[n])) ELSE s

\* The loop of toGrpcRouting is well defined and compiles each rule it keeps.
LEMMA CustomRules ==
  ASSUME NEW rules, Len(rules) \in Nat
  PROVE  CustomOf(rules) \in Seq({Compiled(rules[i]) : i \in 1..Len(rules)})
<1> DEFINE N == Len(rules)
           S == {Compiled(rules[i]) : i \in 1..N}
           Loop(g, n) == IF n = 0 THEN <<>> ELSE CustomStep(rules, g[n - 1], n)
           f == CHOOSE g : g = [n \in 0..N |-> Loop(g, n)]
<1>1. CustomOf(rules) = f[N]
  BY DEF CustomOf, CustomStep
<1>2. \E g : g = [n \in 0..N |-> Loop(g, n)]
  <2> DEFINE T == {n \in Nat : \E g : g = [m \in 0..n |-> Loop(g, m)]}
  <2>1. 0 \in T
    <3>1. [m \in 0..0 |-> <<>>] = [m \in 0..0 |-> Loop([k \in 0..0 |-> <<>>], m)]
      OBVIOUS
    <3> QED  BY <3>1
  <2>2. ASSUME NEW n \in Nat, n \in T  PROVE n + 1 \in T
    <3>1. PICK g : g = [m \in 0..n |-> Loop(g, m)]
      BY <2>2
    <3> DEFINE h == [m \in 0..(n + 1) |->
                       IF m <= n THEN g[m] ELSE CustomStep(rules, g[n], n + 1)]
    <3>2. ASSUME NEW m \in 0..(n + 1)  PROVE h[m] = Loop(h, m)
      <4>1. CASE m = 0
        BY <3>1, <4>1
      <4>2. CASE m # 0 /\ m <= n
        <5>1. h[m] = g[m] /\ g[m] = Loop(g, m) /\ m - 1 \in 0..n
          BY <3>1, <4>2
        <5>2. h[m - 1] = g[m - 1]
          BY <5>1
        <5> QED  BY <4>2, <5>1, <5>2
      <4>3. CASE m = n + 1
        BY <4>3
      <4> QED  BY <4>1, <4>2, <4>3
    <3>3. h = [m \in 0..(n + 1) |-> Loop(h, m)]
      <4> HIDE DEF Loop
      <4> QED  BY <3>2
    <3> HIDE DEF h, Loop
    <3> QED  BY <3>3
  <2> HIDE DEF T, Loop
  <2>3. N \in T
    BY <2>1, <2>2, InductionOnSet
  <2> QED  BY <2>3 DEF T
<1>3. f = [n \in 0..N |-> Loop(f, n)]
  <2> HIDE DEF Loop
  <2> QED  BY <1>2
<1> DEFINE U == {n \in Nat : n <= N => f[n] \in Seq(S)}
<1> HIDE DEF f
<1>4. 0 \in U
  BY <1>3
<1>5. ASSUME NEW n \in Nat, n \in U  PROVE n + 1 \in U
  <2>1. SUFFICES ASSUME n + 1 <= N PROVE f[n + 1] \in Seq(S)
    OBVIOUS
  <2>2. f[n + 1] = CustomStep(rules, f[n], n + 1) /\ n + 1 \in 1..N
    BY <1>3, <2>1
  <2>3. f[n] \in Seq(S) /\ Compiled(rules[n + 1]) \in S
    BY <1>5, <2>1, <2>2
  <2> HIDE DEF S
  <2> QED  BY <2>2, <2>3 DEF CustomStep
<1> HIDE DEF U
<1>6. N \in U
  BY <1>4, <1>5, InductionOnSet
<1> QED  BY <1>1, <1>6 DEF U

\* What is made of a list: at most one rule, without conditions.
LEMMA ListRuleRange ==
  ASSUME NEW items, NEW out
  PROVE  /\ IsSeq(ListRule(items, out))
         /\ Range(ListRule(items, out)) \subseteq {Rule("go", items, {}, out)}
<1>1. CASE items = {}
  BY <1>1, RangeOfFew DEF ListRule
<1>2. CASE items # {}
  <2>1. ListRule(items, out) = <<Rule("go", items, {}, out)>>
    BY <1>2 DEF ListRule
  <2> QED  BY <2>1, RangeOfFew
<1> QED  BY <1>1, <1>2

\* The fields of a rule, and of one the builder always writes.
LEMMA RuleFields ==
  ASSUME NEW make, NEW items, NEW conds, NEW out
  PROVE  /\ Rule(make, items, conds, out).make = make
         /\ Rule(make, items, conds, out).conds = conds
         /\ Rule(make, items, conds, out).out = out
BY DEF Rule

\* and so has a rule of the builder.
LEMMA BuiltinFields ==
  ASSUME NEW cond, NEW out
  PROVE  /\ Builtin(cond, out).make = "go"
         /\ Builtin(cond, out).conds = {cond}
         /\ Builtin(cond, out).out = out
BY DEF Builtin, Rule

\* Every rule of the route is a JSON rule or one of the builder's own, which go
\* nowhere, to the proxy, out directly or nowhere at all.
LEMMA RouteRange ==
  ASSUME NEW r, NEW ds, NEW forTest, NEW tagProxy, IsSeq(r.custom)
  PROVE  /\ IsSeq(RouteRules(r, ds, forTest, tagProxy))
         /\ \A x \in Range(RouteRules(r, ds, forTest, tagProxy)) :
              x \in Range(r.custom) \/ x.out \in {Empty, "block", tagProxy, "bypass"}
<1> DEFINE lists(items) == IF forTest THEN {} ELSE items
           Outs == {Empty, "block", tagProxy, "bypass"}
           Fine(s) == /\ IsSeq(s)
                      /\ \A x \in Range(s) : x \in Range(r.custom) \/ x.out \in Outs
           s1 == IF r.sniff THEN <<Builtin("action-sniff", Empty)>> ELSE <<>>
           s2 == IF forTest THEN <<>> ELSE <<Builtin("protocol-dns", Empty)>>
           s3 == <<Builtin("udp-ports", "block"), Builtin("multicast", "block"),
                   Builtin("multicast-source", "block")>>
<1>1. ASSUME NEW s, NEW t, Fine(s), Fine(t)  PROVE Fine(s \o t)
  <2>1. IsSeq(s \o t) /\ Range(s \o t) = Range(s) \union Range(t)
    BY <1>1, RangeOfConcat
  <2>2. ASSUME NEW x \in Range(s \o t)  PROVE x \in Range(s) \/ x \in Range(t)
    BY <2>1, <2>2
  <2> QED  BY <1>1, <2>1, <2>2
<1>2. Fine(r.custom)
  OBVIOUS
<1>3. ASSUME NEW cond, NEW out \in Outs  PROVE Fine(<<Builtin(cond, out)>>)
  <2>1. Builtin(cond, out).out \in Outs
    BY BuiltinFields
  <2> HIDE DEF Outs
  <2> QED  BY <2>1, RangeOfFew
<1>4. Fine(<<>>)
  BY RangeOfFew
<1>5. Fine(s1) /\ Fine(s2)
  <2> HIDE DEF Fine
  <2> QED  BY <1>3, <1>4
<1>6. Fine(s3)
  <2>1. \A cond : Builtin(cond, "block").out \in Outs
    BY BuiltinFields
  <2>2. /\ IsSeq(s3)
        /\ Range(s3) = {Builtin("udp-ports", "block"), Builtin("multicast", "block"),
                        Builtin("multicast-source", "block")}
    BY RangeOfThree
  <2> HIDE DEF s3, Outs
  <2> QED  BY <2>1, <2>2
<1>7. ASSUME NEW items, NEW out \in Outs  PROVE Fine(ListRule(items, out))
  <2> HIDE DEF Outs
  <2>1. Rule("go", items, {}, out).out \in Outs
    BY RuleFields
  <2> QED  BY <2>1, ListRuleRange
<1> HIDE DEF Fine, s1, s2, s3
<1>8. RouteRules(r, ds, forTest, tagProxy) =
        s1 \o r.custom \o s2
          \o ListRule(lists(r.block \ IPItems), "block")
          \o ListRule(lists(r.proxy \ IPItems), tagProxy)
          \o ListRule(lists(r.direct \ IPItems), "bypass")
          \o ListRule(lists(r.block \cap IPItems), "block")
          \o ListRule(lists(r.proxy \cap IPItems), tagProxy)
          \o ListRule(lists(r.direct \cap IPItems), "bypass")
          \o s3
  BY DEF RouteRules, s1, s2, s3
<1> HIDE DEF lists
<1>9. Fine(RouteRules(r, ds, forTest, tagProxy))
  BY <1>1, <1>2, <1>5, <1>6, <1>7, <1>8
<1> QED  BY <1>9 DEF Fine

\* Every DNS rule answers from a server that DnsServers has for the same
\* settings; one for the TUN is there only with it.
LEMMA DnsRulesRange ==
  ASSUME NEW b, NEW r, NEW ds, NEW forTest, NEW IPs
  PROVE  /\ IsSeq(DnsRules(b, r, ds, forTest, IPs))
         /\ \A x \in Range(DnsRules(b, r, ds, forTest, IPs)) :
              /\ \/ x.out = "dns-direct"
                 \/ ~forTest /\ x.out \in {"dns-remote", "dns-block"}
                 \/ FakeDNS(ds, forTest) /\ x.out = "dns-fake"
              /\ "tun-in" \in x.conds => FakeDNS(ds, forTest)
<1> DEFINE lists == r.dnsRouting /\ ~forTest
           remote == IF lists THEN r.proxy \ IPItems ELSE {}
           direct == IF lists THEN r.direct \ IPItems ELSE {}
           Fine(s) == /\ IsSeq(s)
                      /\ \A x \in Range(s) :
                           /\ \/ x.out = "dns-direct"
                              \/ ~forTest /\ x.out \in {"dns-remote", "dns-block"}
                              \/ FakeDNS(ds, forTest) /\ x.out = "dns-fake"
                           /\ "tun-in" \in x.conds => FakeDNS(ds, forTest)
           s1 == <<Builtin("outbound-any", "dns-direct")>>
           s2 == IF forTest THEN <<>>
                 ELSE <<Builtin("query-type", "dns-block"), Builtin("lan", "dns-block")>>
           s3 == IF FakeDNS(ds, forTest) THEN <<Builtin("tun-in", "dns-fake")>> ELSE <<>>
<1>1. ASSUME NEW s, NEW t, Fine(s), Fine(t)  PROVE Fine(s \o t)
  <2>1. IsSeq(s \o t) /\ Range(s \o t) = Range(s) \union Range(t)
    BY <1>1, RangeOfConcat
  <2>2. ASSUME NEW x \in Range(s \o t)  PROVE x \in Range(s) \/ x \in Range(t)
    BY <2>1, <2>2
  <2> QED  BY <1>1, <2>1, <2>2
<1>2. Fine(<<>>)
  BY RangeOfFew
<1>3. ASSUME NEW cond, NEW out,
             \/ out = "dns-direct"
             \/ ~forTest /\ out \in {"dns-remote", "dns-block"}
             \/ FakeDNS(ds, forTest) /\ out = "dns-fake",
             cond = "tun-in" => FakeDNS(ds, forTest)
      PROVE  Fine(<<Builtin(cond, out)>>)
  <2>1. Builtin(cond, out).out = out /\ Builtin(cond, out).conds = {cond}
    BY BuiltinFields
  <2> QED  BY <1>3, <2>1, RangeOfFew
<1>4. Fine(s1) /\ Fine(s3)
  <2> HIDE DEF Fine
  <2> QED  BY <1>2, <1>3
<1>5. Fine(s2)
  <2>1. CASE forTest
    BY <1>2, <2>1
  <2>2. CASE ~forTest
    <3> DEFINE q == Builtin("query-type", "dns-block")
               l == Builtin("lan", "dns-block")
    <3>1. /\ q.out = "dns-block" /\ "tun-in" \notin q.conds
          /\ l.out = "dns-block" /\ "tun-in" \notin l.conds
      BY DEF Builtin, Rule
    <3>2. /\ IsSeq(s2)
          /\ Range(s2) = {q, l}
      BY <2>2, RangeOfTwo
    <3>3. \A x \in Range(s2) : x.out = "dns-block" /\ "tun-in" \notin x.conds
      <4> HIDE DEF s2, q, l
      <4> QED  BY <3>1, <3>2
    <3> HIDE DEF s2
    <3> QED  BY <2>2, <3>2, <3>3
  <2> QED  BY <2>1, <2>2
<1>6. ASSUME NEW items, NEW out,
             \/ out = "dns-direct"
             \/ ~forTest /\ out \in {"dns-remote", "dns-block"}
      PROVE  Fine(ListRule(items, out))
  <2>1. Rule("go", items, {}, out).out = out /\ Rule("go", items, {}, out).conds = {}
    BY RuleFields
  <2> QED  BY <1>6, <2>1, ListRuleRange
<1>7. Fine(ListRule(remote, "dns-remote"))
  <2>1. CASE forTest
    <3>1. ListRule(remote, "dns-remote") = <<>>
      BY <2>1 DEF ListRule
    <3> HIDE DEF Fine, remote
    <3> QED  BY <1>2, <3>1
  <2>2. CASE ~forTest
    <3> HIDE DEF Fine, remote
    <3> QED  BY <1>6, <2>2
  <2> QED  BY <2>1, <2>2
<1>8. Fine(ListRule(ServerNames(b, IPs) \union direct, "dns-direct"))
  <2> HIDE DEF Fine, direct
  <2> QED  BY <1>6
<1>9. DnsRules(b, r, ds, forTest, IPs) =
        s1 \o ListRule(remote, "dns-remote")
           \o ListRule(ServerNames(b, IPs) \union direct, "dns-direct") \o s2 \o s3
  BY DEF DnsRules
<1> HIDE DEF s1, s2, s3, remote, direct, Fine
<1>10. Fine(DnsRules(b, r, ds, forTest, IPs))
  BY <1>1, <1>4, <1>5, <1>7, <1>8, <1>9
<1> QED  BY <1>10 DEF Fine

\* The servers of a config: two for a test, four for a start, one more for
\* fake addresses.
LEMMA DnsServersRange ==
  ASSUME NEW r, NEW ds, NEW forTest
  PROVE  Range(DnsServers(r, ds, forTest)) =
           {DnsServer("dns-direct", "dns-local", "direct"),
            DnsServer("dns-local", Empty, "direct")}
             \union (IF forTest THEN {}
                     ELSE {DnsServer("dns-remote", "dns-local", "proxy"),
                           DnsServer("dns-block", Empty, Empty)})
             \union (IF FakeDNS(ds, forTest) THEN {DnsServer("dns-fake", Empty, Empty)} ELSE {})
<1> DEFINE remote == IF forTest THEN <<>>
                     ELSE <<DnsServer("dns-remote", "dns-local", "proxy")>>
           direct == <<DnsServer("dns-direct", "dns-local", "direct")>>
           s1 == IF r.dnsFinalOut = "bypass" THEN direct \o remote ELSE remote \o direct
           s2 == IF forTest THEN <<>> ELSE <<DnsServer("dns-block", Empty, Empty)>>
           s3 == IF FakeDNS(ds, forTest) THEN <<DnsServer("dns-fake", Empty, Empty)>> ELSE <<>>
           s4 == <<DnsServer("dns-local", Empty, "direct")>>
<1>1. /\ IsSeq(remote) /\ IsSeq(direct) /\ IsSeq(s2) /\ IsSeq(s3) /\ IsSeq(s4)
      /\ Range(remote) = IF forTest THEN {} ELSE {DnsServer("dns-remote", "dns-local", "proxy")}
      /\ Range(direct) = {DnsServer("dns-direct", "dns-local", "direct")}
      /\ Range(s2) = IF forTest THEN {} ELSE {DnsServer("dns-block", Empty, Empty)}
      /\ Range(s3) = IF FakeDNS(ds, forTest) THEN {DnsServer("dns-fake", Empty, Empty)} ELSE {}
      /\ Range(s4) = {DnsServer("dns-local", Empty, "direct")}
  BY RangeOfFew
<1>2. DnsServers(r, ds, forTest) = ((s1 \o s2) \o s3) \o s4
  BY DEF DnsServers
<1> HIDE DEF remote, direct, s2, s3, s4
<1>3. IsSeq(s1) /\ Range(s1) = Range(remote) \union Range(direct)
  <2>1. CASE r.dnsFinalOut = "bypass"
    <3>1. s1 = direct \o remote
      BY <2>1
    <3>2. IsSeq(direct \o remote) /\ Range(direct \o remote) = Range(direct) \union Range(remote)
      BY <1>1, RangeOfConcat
    <3> QED  BY <3>1, <3>2
  <2>2. CASE r.dnsFinalOut # "bypass"
    <3>1. s1 = remote \o direct
      BY <2>2
    <3> HIDE DEF s1
    <3> QED  BY <1>1, <3>1, RangeOfConcat
  <2> QED  BY <2>1, <2>2
<1> HIDE DEF s1
<1>4. IsSeq(s1 \o s2) /\ Range(s1 \o s2) = Range(s1) \union Range(s2)
  BY <1>1, <1>3, RangeOfConcat
<1>5. /\ IsSeq((s1 \o s2) \o s3)
      /\ Range((s1 \o s2) \o s3) = Range(s1 \o s2) \union Range(s3)
  BY <1>1, <1>4, RangeOfConcat
<1>6. Range(((s1 \o s2) \o s3) \o s4) = Range((s1 \o s2) \o s3) \union Range(s4)
  BY <1>1, <1>5, RangeOfConcat
<1> QED  BY <1>1, <1>2, <1>3, <1>4, <1>5, <1>6

-----------------------------------------------------------------------------
(* Outbounds.                                                              *)

\* What the bean's own builder makes, before c_out.
Raw(b) == BuildOutboundSingBox(b)

\* c_out leaves the outbound of a profile without one as it is.
LEMMA Uncustomized ==
  ASSUME NEW b, CustomOutbound(b) = None, NEW out
  PROVE  /\ DOMAIN Customized(b, out) = DOMAIN out
         /\ \A x : Val(Customized(b, out), x) = Val(out, x)
<1>1. Customized(b, out) = None @@ [path \in DOMAIN out |-> out[path]]
  <2>1. DOMAIN None = {}
    BY DEF None
  <2> QED  BY <2>1 DEF Customized
<1> QED  BY <1>1 DEF None, @@, Val

\* And it leaves the type and the tag it does not name.
LEMMA NamesKept ==
  ASSUME NEW b, NEW out, NEW x \in {"type", "tag"}, x \notin DOMAIN CustomOutbound(b)
  PROVE  Val(Customized(b, out), x) = Val(out, x)
<1> DEFINE custom == CustomOutbound(b)
           replaced == UNION {Within(key) : key \in DOMAIN custom}
           kept == [path \in DOMAIN out \ replaced |-> out[path]]
<1>1. \A key : x \notin Within(key)
  BY DEF Within, TlsPaths, TransportPaths
<1>2. x \notin replaced
  <2> HIDE DEF custom
  <2> QED  BY <1>1
<1>3. Customized(b, out) = custom @@ kept
  BY DEF Customized
<1> HIDE DEF custom, replaced
<1>4. Val(kept, x) = Val(out, x)
  BY <1>2 DEF Val
<1> HIDE DEF kept
<1> QED  BY <1>3, <1>4 DEF Val, @@, custom

\* The stream settings never name the outbound's type, nor an error.
LEMMA StreamKeys ==
  ASSUME NEW s, NEW type
  PROVE  /\ "type" \notin DOMAIN BuildStreamSettingsSingBox(s, type)
         /\ "error" \notin DOMAIN BuildStreamSettingsSingBox(s, type)
<1>1. "type" \notin DOMAIN TransportOf(s) /\ "error" \notin DOMAIN TransportOf(s)
  BY DEF TransportOf, Copy, :>, @@, None
<1>2. "type" \notin DOMAIN TlsOf(s) /\ "error" \notin DOMAIN TlsOf(s)
  BY Zenon DEF TlsOf, Copy, :>, @@, None
<1>3. /\ "type" \notin DOMAIN Copy(s, "packet_encoding" :> "pac_enc")
      /\ "error" \notin DOMAIN Copy(s, "packet_encoding" :> "pac_enc")
  BY DEF Copy, :>
<1>4. "type" \notin DOMAIN None /\ "error" \notin DOMAIN None
  BY DEF None
<1> QED  BY <1>1, <1>2, <1>3, <1>4, ValOfMerge DEF BuildStreamSettingsSingBox

\* An outbound with an error is the one of a protocol the core does not build.
LEMMA ErrorOfOutbound ==
  ASSUME NEW b, "error" \in DOMAIN Raw(b)
  PROVE  Raw(b)["error"] = "unsupported"
<1>1. "error" \notin DOMAIN Server(b)
  BY DEF Server, :>, @@
<1>2. "error" \notin DOMAIN BuildSocksHttp(b)
  BY <1>1, StreamKeys DEF @@, BuildSocksHttp, Copy, :>, None
<1>3. "error" \notin DOMAIN BuildShadowsocks(b)
  BY <1>1, StreamKeys, Zenon DEF @@, BuildShadowsocks, Copy, :>, None
<1>4. "error" \notin DOMAIN BuildVMess(b)
  BY <1>1, StreamKeys DEF @@, BuildVMess, :>
<1>5. "error" \notin DOMAIN BuildTrojanVLESS(b)
  BY <1>1, StreamKeys DEF @@, BuildTrojanVLESS, :>
<1>6. "error" \notin DOMAIN BuildQUIC(b)
  <2>1. "error" \notin DOMAIN TlsOfQUIC(b)
    BY DEF @@, TlsOfQUIC, Copy, :>
  <2>2. "error" \notin DOMAIN BuildHysteria2(b)
    BY DEF @@, BuildHysteria2, Copy, :>, None
  <2>3. "error" \notin DOMAIN BuildTuic(b)
    BY Zenon DEF @@, BuildTuic, Copy, :>
  <2> QED  BY <1>1, <2>1, <2>2, <2>3 DEF @@, BuildQUIC, None
<1>7. "error" \notin DOMAIN BuildTLS(b)
  BY DEF BuildTLS, Copy, :>, @@
<1>8. "error" \notin DOMAIN BuildNaive(b)
  BY <1>1, <1>7 DEF @@, BuildNaive, Copy, :>
<1>9. "error" \notin DOMAIN BuildAnyTLS(b)
  BY <1>1, <1>7 DEF @@, BuildAnyTLS, Copy, :>
<1>10. "error" \notin DOMAIN BuildSSH(b)
  BY <1>1 DEF @@, BuildSSH, Copy, :>
<1>11. "error" \notin DOMAIN BuildWireGuard(b)
  BY Zenon DEF @@, BuildWireGuard, Copy, :>
<1>12. "error" \notin DOMAIN ("raw" :> Val(b.f, "config_simple"))
  BY DEF :>
<1>13. Unsupported["error"] = "unsupported"
  BY DEF Unsupported, :>
<1>14. Raw(b) \in {BuildSocksHttp(b), BuildShadowsocks(b), BuildVMess(b), BuildTrojanVLESS(b),
         BuildQUIC(b), BuildNaive(b), BuildAnyTLS(b), BuildSSH(b), BuildWireGuard(b),
         "raw" :> Val(b.f, "config_simple"), Unsupported}
  BY DEF Raw, BuildOutboundSingBox
<1> QED  BY <1>2, <1>3, <1>4, <1>5, <1>6, <1>8, <1>9, <1>10, <1>11, <1>12, <1>13, <1>14

\* What the proofs need to know of a config.
IsConfig(c, b, r, ds, forTest, IPs) ==
  LET route == RouteRules(r, ds, forTest, "proxy")
      dns   == DnsRules(b, r, ds, forTest, IPs)
  IN  /\ c.forTest = forTest
      /\ c.inbounds = MixedInbound(ds, forTest) \union TunInbound(ds, forTest)
      /\ c.outbounds \union c.endpoints = {Val(BuildChain(b, r), "tag"), "direct", "bypass", "block"}
      /\ c.dnsServers = DnsServers(r, ds, forTest)
      /\ c.dnsRules = dns
      /\ c.route = route
      /\ c.ruleSets = RuleSetList(route, dns)
      /\ c.resolver = DefaultDomainResolver
      /\ c.final = IF forTest THEN Empty ELSE r.final
      /\ c.statsOf = IF forTest THEN {} ELSE {"proxy"}

\* A config is built unless its outbound is unsupported, which is an error.
LEMMA ConfigOrError ==
  ASSUME NEW b, NEW r, NEW ds, NEW forTest, NEW IPs,
         NEW c, c = BuildConfigSingBox(b, r, ds, forTest, IPs), c.error = Empty
  PROVE  IsConfig(c, b, r, ds, forTest, IPs)
<1>1. "error" \notin DOMAIN BuildOutboundSingBox(b)
  <2>1. SUFFICES ASSUME "error" \in DOMAIN BuildOutboundSingBox(b) PROVE FALSE
    OBVIOUS
  <2>2. c = [error |-> "unsupported"]
    BY <2>1, ErrorOfOutbound DEF BuildConfigSingBox, Raw
  <2>3. [error |-> "unsupported"].error # Empty
    BY NotEmpty
  <2> QED  BY <2>2, <2>3
<1> QED  BY <1>1 DEF BuildConfigSingBox, IsConfig

\* The tag of the outbound is "proxy" unless c_out has one.
LEMMA TagOfChain ==
  ASSUME NEW b, NEW r, "tag" \notin DOMAIN CustomOutbound(b)
  PROVE  Val(BuildChain(b, r), "tag") = "proxy"
<1> DEFINE out == "tag" :> "proxy"
              @@ (IF r.strategy /\ b.type # "wireguard" THEN "domain_strategy" :> "1" ELSE None)
              @@ BuildOutboundSingBox(b)
<1>1. Val(out, "tag") = "proxy"
  BY DEF Val, :>, @@
<1>2. BuildChain(b, r) = Customized(b, out)
  BY DEF BuildChain
<1> HIDE DEF out
<1> QED  BY <1>1, <1>2, NamesKept

-----------------------------------------------------------------------------
(* Configs.                                                                *)

\* What the routing page compiles to has JSON rules with the outbounds the page
\* offers.
LEMMA CompiledRouting ==
  ASSUME NEW cfg \in Routings
  PROVE  LET r == ToGrpcRouting(cfg)
         IN  /\ IsSeq(r.custom)
             /\ \A x \in Range(r.custom) : x.make = "json" /\ x.out \in RuleOutbounds
             /\ r.final \in {"proxy", "direct"}
<1> DEFINE rules == cfg.rules
           S == {Compiled(rules[i]) : i \in 1..Len(rules)}
<1>1. /\ Len(rules) \in Nat
      /\ \A i \in 1..Len(rules) : rules[i].out \in RuleOutbounds
      /\ cfg.final \in {"proxy", "direct"}
  BY ServiceAssumption
<1>2. CustomOf(rules) \in Seq(S)
  BY <1>1, CustomRules
<1>3. \A x \in S : x.make = "json" /\ x.out \in RuleOutbounds
  BY <1>1 DEF Compiled, Rule
<1>4. IsSeq(CustomOf(rules)) /\ Range(CustomOf(rules)) \subseteq S
  <2> HIDE DEF S, rules
  <2> QED  BY <1>2, SeqOverRange
<1>5. ToGrpcRouting(cfg).custom = CustomOf(rules) /\ ToGrpcRouting(cfg).final = cfg.final
  BY DEF ToGrpcRouting
<1> QED
  <2> HIDE DEF S, rules
  <2> QED  BY <1>1, <1>3, <1>4, <1>5

\* A config was built from the profile and the routing beside it.
ConfigInv ==
  config # NoConfig =>
    \E ds \in DataStores, forTest \in BOOLEAN :
      /\ routing \in Routings
      /\ config = BuildConfigSingBox(profile, ToGrpcRouting(routing),
                                     ds, forTest, IPAddresses)

\* Every tag of such a config is defined in it.
LEMMA ConfigReferences ==
  ConfigInv => ReferencesResolve
<1>1. SUFFICES ASSUME ConfigInv, Built, "tag" \notin DOMAIN CustomOutbound(profile)
               PROVE  ReferencesResolve
  BY DEF ReferencesResolve
<1>2. PICK ds \in DataStores, forTest \in BOOLEAN :
        /\ routing \in Routings
        /\ config = BuildConfigSingBox(profile, ToGrpcRouting(routing),
                                       ds, forTest, IPAddresses)
  BY <1>1 DEF ConfigInv, Built
<1> DEFINE r == ToGrpcRouting(routing)
           route == RouteRules(r, ds, forTest, "proxy")
           dns == DnsRules(profile, r, ds, forTest, IPAddresses)
           servers == DnsServers(r, ds, forTest)
           tags == {s.tag : s \in Range(servers)}
           outs == {"proxy", "direct", "bypass", "block"}
<1>3. /\ IsSeq(r.custom)
      /\ \A x \in Range(r.custom) : x.make = "json" /\ x.out \in RuleOutbounds
      /\ r.final \in {"proxy", "direct"}
  BY <1>2, CompiledRouting
<1> HIDE DEF r
<1>4. /\ config.inbounds = MixedInbound(ds, forTest) \union TunInbound(ds, forTest)
      /\ config.outbounds \union config.endpoints = outs
      /\ config.dnsServers = servers /\ config.dnsRules = dns /\ config.route = route
      /\ config.ruleSets = RuleSetList(route, dns)
      /\ config.resolver = "dns-direct"
      /\ config.final \in {Empty, "proxy", "direct"}
      /\ config.statsOf \subseteq {"proxy"}
  <2>1. /\ config.inbounds = MixedInbound(ds, forTest) \union TunInbound(ds, forTest)
        /\ config.outbounds \union config.endpoints = outs
        /\ config.dnsServers = servers /\ config.dnsRules = dns /\ config.route = route
        /\ config.ruleSets = RuleSetList(route, dns)
        /\ config.resolver = DefaultDomainResolver
        /\ config.final = IF forTest THEN Empty ELSE r.final
        /\ config.statsOf = IF forTest THEN {} ELSE {"proxy"}
    <3>1. config = BuildConfigSingBox(profile, r, ds, forTest, IPAddresses)
      BY <1>2 DEF r
    <3>2. IsConfig(config, profile, r, ds, forTest, IPAddresses)
      BY <1>1, <3>1, ConfigOrError DEF Built
    <3>3. Val(BuildChain(profile, r), "tag") = "proxy"
      BY <1>1, TagOfChain
    <3> QED  BY <3>2, <3>3 DEF IsConfig
  <2> QED  BY <1>3, <2>1 DEF DefaultDomainResolver
<1>5. \A x \in Range(route) : x.out \in outs \union {Empty}
  <2>1. \A x \in Range(route) :
          x \in Range(r.custom) \/ x.out \in {Empty, "block", "proxy", "bypass"}
    BY <1>3, RouteRange
  <2> HIDE DEF route
  <2> QED  BY <1>3, <2>1 DEF RuleOutbounds
<1>6. /\ \A x \in Range(dns) : x.out \in tags
      /\ "dns-direct" \in tags
      /\ \A s \in Range(servers) : /\ s.resolver \in tags \union {Empty}
                                   /\ s.detour \in outs \union {Empty}
  <2>1. Range(servers) =
           {DnsServer("dns-direct", "dns-local", "direct"),
            DnsServer("dns-local", Empty, "direct")}
             \union (IF forTest THEN {}
                     ELSE {DnsServer("dns-remote", "dns-local", "proxy"),
                           DnsServer("dns-block", Empty, Empty)})
             \union (IF FakeDNS(ds, forTest) THEN {DnsServer("dns-fake", Empty, Empty)} ELSE {})
    BY DnsServersRange
  <2>3. \A x \in Range(dns) :
          \/ x.out = "dns-direct"
          \/ ~forTest /\ x.out \in {"dns-remote", "dns-block"}
          \/ FakeDNS(ds, forTest) /\ x.out = "dns-fake"
    BY DnsRulesRange
  <2> HIDE DEF servers, dns
  <2>4. /\ "dns-direct" \in tags /\ "dns-local" \in tags
        /\ ~forTest => "dns-remote" \in tags /\ "dns-block" \in tags
        /\ FakeDNS(ds, forTest) => "dns-fake" \in tags
    <3>1. \A tag, resolver, detour :
            DnsServer(tag, resolver, detour) \in Range(servers) => tag \in tags
      BY DEF DnsServer
    <3> QED  BY <2>1, <3>1
  <2>5. \A s \in Range(servers) : /\ s.resolver \in {"dns-local", Empty}
                                  /\ s.detour \in {"proxy", "direct", Empty}
    <3>1. ASSUME NEW tag, NEW resolver \in {"dns-local", Empty},
                 NEW detour \in {"proxy", "direct", Empty}
          PROVE  LET s == DnsServer(tag, resolver, detour)
                 IN  /\ s.resolver \in {"dns-local", Empty}
                     /\ s.detour \in {"proxy", "direct", Empty}
      BY DEF DnsServer
    <3> QED  BY <2>1, <3>1
  <2> QED  BY <2>3, <2>4, <2>5
<1>7. UNION {x.sets : x \in Range(route) \union Range(dns)} \subseteq RuleSetList(route, dns)
  BY DEF RuleSetList, RuleSetsIn, Range
<1>8. \A x \in Range(dns) : "tun-in" \in x.conds => "tun-in" \in TunInbound(ds, forTest)
  BY DnsRulesRange DEF FakeDNS, TunInbound
<1> DEFINE Tags == {s.tag : s \in Range(config.dnsServers)}
           Outs == config.outbounds \union config.endpoints
<1>9. Tags = tags /\ Outs = outs
  BY <1>4
<1> HIDE DEF route, dns, servers, outs, tags, Tags, Outs
<1>10. {x.out : x \in Range(config.route)} \union {config.final} \subseteq Outs \union {Empty}
  BY <1>4, <1>5, <1>9 DEF outs
<1>11. {x.out : x \in Range(config.dnsRules)} \union {config.resolver} \subseteq Tags
  BY <1>4, <1>6, <1>9
<1>12. \A s \in Range(config.dnsServers) :
         s.resolver \in Tags \union {Empty} /\ s.detour \in Outs \union {Empty}
  BY <1>4, <1>6, <1>9
<1>13. UNION {x.sets : x \in Range(config.route) \union Range(config.dnsRules)}
         \subseteq config.ruleSets
  BY <1>4, <1>7
<1>14. \A x \in Range(config.dnsRules) : "tun-in" \in x.conds => "tun-in" \in config.inbounds
  BY <1>4, <1>8
<1>15. config.statsOf \subseteq Outs
  BY <1>4, <1>9 DEF outs
<1> QED
  BY <1>10, <1>11, <1>12, <1>13, <1>14, <1>15 DEF ReferencesResolve, Tags, Outs

\* The default resolver of such a config goes out directly, and so does the
\* local one it finds its own address with.
LEMMA ConfigResolver ==
  ConfigInv => ProxyNameNeedsNoProxy
<1>1. SUFFICES ASSUME ConfigInv, Built
               PROVE  \A t \in AskedFor(config.resolver) : ServerOf(t).detour # "proxy"
  BY DEF ProxyNameNeedsNoProxy
<1>2. PICK ds \in DataStores, forTest \in BOOLEAN :
        /\ routing \in Routings
        /\ config = BuildConfigSingBox(profile, ToGrpcRouting(routing),
                                       ds, forTest, IPAddresses)
  BY <1>1 DEF ConfigInv, Built
<1> DEFINE servers == DnsServers(ToGrpcRouting(routing), ds, forTest)
<1>3. config.dnsServers = servers /\ config.resolver = "dns-direct"
  <2>1. IsConfig(config, profile, ToGrpcRouting(routing), ds, forTest, IPAddresses)
    BY <1>1, <1>2, ConfigOrError DEF Built
  <2> QED  BY <2>1 DEF IsConfig, DefaultDomainResolver
<1> DEFINE direct == DnsServer("dns-direct", "dns-local", "direct")
           local == DnsServer("dns-local", Empty, "direct")
<1>4. Range(servers) =
        {direct, local}
          \union (IF forTest THEN {}
                  ELSE {DnsServer("dns-remote", "dns-local", "proxy"),
                        DnsServer("dns-block", Empty, Empty)})
          \union (IF FakeDNS(ds, forTest) THEN {DnsServer("dns-fake", Empty, Empty)} ELSE {})
  BY DnsServersRange
<1>5. /\ direct.tag = "dns-direct" /\ direct.resolver = "dns-local" /\ direct.detour = "direct"
      /\ local.tag = "dns-local" /\ local.resolver = Empty /\ local.detour = "direct"
      /\ DnsServer("dns-remote", "dns-local", "proxy").tag = "dns-remote"
      /\ DnsServer("dns-block", Empty, Empty).tag = "dns-block"
      /\ DnsServer("dns-fake", Empty, Empty).tag = "dns-fake"
  BY DEF DnsServer
<1> HIDE DEF servers, direct, local
<1>6. \A s \in Range(servers) :
        /\ s.tag = "dns-direct" <=> s = direct
        /\ s.tag = "dns-local" <=> s = local
  BY <1>4, <1>5
<1>7. ServerOf("dns-direct") = direct /\ ServerOf("dns-local") = local
  BY <1>3, <1>4, <1>6 DEF ServerOf
<1>8. AskedFor("dns-direct") = {"dns-direct", "dns-local"}
  BY <1>5, <1>7, NotEmpty DEF AskedFor
<1> QED  BY <1>3, <1>5, <1>7, <1>8

-----------------------------------------------------------------------------
(* The first rule that matches.                                            *)

Hit(rule, makes, dest) ==
  rule.make \in makes /\ rule.out # Empty /\ Holds(rule, dest)

Hits(rules, makes, dest) == {i \in DOMAIN rules : Hit(rules[i], makes, dest)}

\* The least element is the one below all others.
LEMMA MinIs ==
  ASSUME NEW T, T \subseteq Nat, NEW x \in T, \A y \in T : x <= y
  PROVE  Min(T) = x
<1>1. Min(T) \in T /\ \A y \in T : Min(T) <= y
  BY MinIsLeast
<1>2. Min(T) <= x /\ x <= Min(T) /\ x \in Nat /\ Min(T) \in Nat
  BY <1>1
<1> QED  BY <1>2

\* FirstOut looks at the rules that are hit.
LEMMA FirstOutByHits ==
  ASSUME NEW rules, NEW makes, NEW dest, NEW default
  PROVE  FirstOut(rules, makes, dest, default) =
           IF Hits(rules, makes, dest) = {} THEN default
           ELSE rules[Min(Hits(rules, makes, dest))].out
BY DEF FirstOut, Hits, Hit

\* Where no rule is hit the default decides.
LEMMA FirstOutOfMisses ==
  ASSUME NEW rules, NEW makes, NEW dest, NEW default,
         \A x \in Range(rules) : ~Hit(x, makes, dest)
  PROVE  FirstOut(rules, makes, dest, default) = default
BY FirstOutByHits DEF Hits, Range

\* The rules of a concatenation are looked at one part after the other.
LEMMA FirstOutOfConcat ==
  ASSUME NEW s, NEW t, NEW makes, NEW dest, NEW default, IsSeq(s), IsSeq(t)
  PROVE  FirstOut(s \o t, makes, dest, default) =
           FirstOut(s, makes, dest, FirstOut(t, makes, dest, default))
<1> DEFINE S == Range(s) \union Range(t)
           hits == Hits(s \o t, makes, dest)
           before == Hits(s, makes, dest)
           after == Hits(t, makes, dest)
<1>1. s \in Seq(S) /\ t \in Seq(S)
  BY SeqMonotonic DEF IsSeq
<1>2. /\ s \o t \in Seq(S)
      /\ Len(s \o t) = Len(s) + Len(t)
      /\ \A i \in 1..Len(s) + Len(t) :
           (s \o t)[i] = IF i <= Len(s) THEN s[i] ELSE t[i - Len(s)]
  <2> HIDE DEF S
  <2> QED  BY <1>1, ConcatProperties
<1>3. /\ Len(s) \in Nat /\ DOMAIN s = 1..Len(s)
      /\ Len(t) \in Nat /\ DOMAIN t = 1..Len(t)
      /\ DOMAIN (s \o t) = 1..Len(s) + Len(t)
  <2> HIDE DEF S
  <2> QED  BY <1>1, <1>2, LenProperties
<1>4. before \subseteq 1..Len(s) /\ after \subseteq 1..Len(t) /\ hits \subseteq 1..Len(s) + Len(t)
  BY <1>3 DEF Hits
<1>5. \A i \in 1..Len(s) : i \in hits <=> i \in before
  BY <1>2, <1>3 DEF Hits
<1>6. \A i \in 1..Len(t) : i + Len(s) \in hits <=> i \in after
  BY <1>2, <1>3 DEF Hits
<1> HIDE DEF S, hits, before, after
<1>. before \subseteq Nat /\ after \subseteq Nat /\ hits \subseteq Nat
  BY <1>3, <1>4
<1>7. CASE before # {}
  <2> DEFINE m == Min(before)
  <2>1. m \in before /\ \A i \in before : m <= i
    BY <1>7, MinIsLeast
  <2> HIDE DEF m
  <2>2. m \in 1..Len(s) /\ m \in hits
    BY <1>4, <1>5, <2>1
  <2>3. ASSUME NEW i \in hits  PROVE m <= i
    <3>1. CASE i \in 1..Len(s)
      BY <1>5, <2>1, <2>3, <3>1
    <3>2. CASE i \notin 1..Len(s)
      BY <1>3, <1>4, <2>2, <2>3, <3>2
    <3> QED  BY <3>1, <3>2
  <2>4. Min(hits) = m
    BY <2>2, <2>3, MinIs
  <2>5. (s \o t)[m] = s[m]
    BY <1>2, <1>3, <2>2
  <2> QED  BY <1>7, <2>2, <2>4, <2>5, FirstOutByHits DEF hits, before, m
<1>8. CASE before = {} /\ after # {}
  <2> DEFINE m == Min(after)
  <2>1. m \in after /\ \A i \in after : m <= i
    BY <1>8, MinIsLeast
  <2> HIDE DEF m
  <2>2. m \in 1..Len(t) /\ m + Len(s) \in hits
    BY <1>4, <1>6, <2>1
  <2>3. ASSUME NEW i \in hits  PROVE m + Len(s) <= i
    <3>1. i \in Nat /\ i > Len(s) /\ i - Len(s) \in 1..Len(t)
      BY <1>3, <1>4, <1>5, <1>8, <2>3
    <3>2. (i - Len(s)) + Len(s) = i
      BY <1>3, <3>1
    <3>3. i - Len(s) \in after
      BY <1>6, <2>3, <3>1, <3>2
    <3>4. m <= i - Len(s)
      BY <2>1, <3>3
    <3> QED  BY <1>3, <2>2, <3>1, <3>4
  <2>4. Min(hits) = m + Len(s)
    BY <2>2, <2>3, MinIs
  <2>5. (s \o t)[m + Len(s)] = t[m]
    <3>1. /\ m + Len(s) \in 1..Len(s) + Len(t)
          /\ ~(m + Len(s) <= Len(s))
          /\ (m + Len(s)) - Len(s) = m
      BY <1>3, <2>2
    <3> QED  BY <1>2, <3>1
  <2> QED  BY <1>8, <2>2, <2>4, <2>5, FirstOutByHits DEF hits, before, after, m
<1>9. CASE before = {} /\ after = {}
  <2>1. ASSUME NEW i \in hits  PROVE FALSE
    <3>1. i \in Nat /\ i > Len(s) /\ i - Len(s) \in 1..Len(t) /\ (i - Len(s)) + Len(s) = i
      BY <1>3, <1>4, <1>5, <1>9, <2>1
    <3> QED  BY <1>6, <1>9, <2>1, <3>1
  <2>2. hits = {}
    BY <2>1
  <2> QED  BY <1>9, <2>2, FirstOutByHits DEF hits, before, after
<1> QED  BY <1>7, <1>8, <1>9

\* The one index of a sequence of one.
LEMMA OneRule ==
  ASSUME NEW x
  PROVE  DOMAIN <<x>> = {1} /\ <<x>>[1] = x
OBVIOUS

\* The least of one number is that number.
LEMMA LeastOfOne == Min({1}) = 1
<1> DEFINE T == {1}
<1>1. T \subseteq Nat /\ 1 \in T /\ \A y \in T : 1 <= y
  OBVIOUS
<1> HIDE DEF T
<1>2. Min(T) = 1
  BY <1>1, MinIs
<1> QED  BY <1>2 DEF T

\* A list holds a connection's name.
Listed(items, dest) == items # {} /\ Holds(Rule("go", items, {}, "proxy"), dest)

\* Where the builder's own rules send a connection.
Own(s, dest, d) == FirstOut(s, {"go"}, dest, d)

\* The rule made of a list sends out what the list holds.
LEMMA FirstOutOfList ==
  ASSUME NEW items, NEW out, out # Empty, NEW dest, NEW default
  PROVE  /\ Listed(items, dest) => Own(ListRule(items, out), dest, default) = out
         /\ ~Listed(items, dest) => Own(ListRule(items, out), dest, default) = default
<1> DEFINE rule == Rule("go", items, {}, out)
<1>1. rule.out = out /\ rule.make = "go"
  BY DEF Rule
<1>2. Holds(rule, dest) <=> Holds(Rule("go", items, {}, "proxy"), dest)
  BY DEF Holds, Rule
<1>3. ASSUME ~Listed(items, dest)
      PROVE  Own(ListRule(items, out), dest, default) = default
  <2>1. \A x \in Range(ListRule(items, out)) : x = rule
    BY ListRuleRange
  <2>2. items = {} => Range(ListRule(items, out)) = {}
    BY RangeOfFew DEF ListRule
  <2> HIDE DEF rule
  <2>3. \A x \in Range(ListRule(items, out)) : ~Hit(x, {"go"}, dest)
    BY <1>2, <1>3, <2>1, <2>2 DEF Hit, Listed
  <2> QED  BY <2>3, FirstOutOfMisses DEF Own
<1>4. ASSUME Listed(items, dest)
      PROVE  Own(ListRule(items, out), dest, default) = out
  <2>1. ListRule(items, out) = <<rule>>
    BY <1>4 DEF ListRule, Listed
  <2> HIDE DEF rule
  <2>2. Hit(rule, {"go"}, dest)
    BY <1>1, <1>2, <1>4 DEF Hit, Listed
  <2> DEFINE one == <<rule>>
  <2>3. DOMAIN one = {1} /\ one[1] = rule
    BY OneRule
  <2>4. ListRule(items, out) = one
    BY <2>1
  <2> HIDE DEF one
  <2>5. Hits(one, {"go"}, dest) = {1}
    BY <2>2, <2>3 DEF Hits
  <2>6. FirstOut(one, {"go"}, dest, default) = one[1].out
    BY <2>5, LeastOfOne, FirstOutByHits
  <2> QED  BY <1>1, <2>3, <2>4, <2>6 DEF Own
<1> QED  BY <1>3, <1>4

\* A longer list holds what a shorter one does.
LEMMA ListedInLonger ==
  ASSUME NEW items, NEW more, items \subseteq more, NEW dest, Listed(items, dest)
  PROVE  Listed(more, dest)
BY DEF Listed, Holds, Rule

-----------------------------------------------------------------------------
(* DNS against the routes.                                                 *)

\* A rule with a condition a connection does not meet does not hold for it.
LEMMA MissedCondition ==
  ASSUME NEW cond, NEW out, NEW makes, NEW dest, cond \notin dest.conds
  PROVE  ~Hit(Builtin(cond, out), makes, dest)
BY DEF Hit, Holds, Builtin, Rule

\* They are looked at one part after the other,
LEMMA OwnOfConcat ==
  ASSUME NEW s, NEW t, IsSeq(s), IsSeq(t), NEW dest
  PROVE  /\ IsSeq(s \o t)
         /\ \A d : Own(s \o t, dest, d) = Own(s, dest, Own(t, dest, d))
<1>1. IsSeq(s \o t)
  BY RangeOfConcat
<1>2. ASSUME NEW d
      PROVE  Own(s \o t, dest, d) = Own(s, dest, Own(t, dest, d))
  BY FirstOutOfConcat DEF Own
<1> QED  BY <1>1, <1>2

\* the rule of a list sends out what the list holds,
LEMMA OwnOfList ==
  ASSUME NEW items, NEW out, out # Empty, NEW dest
  PROVE  /\ IsSeq(ListRule(items, out))
         /\ Listed(items, dest) => \A x : Own(ListRule(items, out), dest, x) = out
         /\ ~Listed(items, dest) => \A x : Own(ListRule(items, out), dest, x) = x
<1>1. IsSeq(ListRule(items, out))
  BY ListRuleRange
<1> QED  BY <1>1, FirstOutOfList

\* and a part none of whose rules is hit decides nothing.
LEMMA OwnOfMisses ==
  ASSUME NEW s, NEW dest, \A x \in Range(s) : ~Hit(x, {"go"}, dest)
  PROVE  \A d : Own(s, dest, d) = d
<1>1. ASSUME NEW d  PROVE Own(s, dest, d) = d
  BY FirstOutOfMisses DEF Own
<1> QED  BY <1>1

\* A rule that goes nowhere is not hit.
LEMMA MissedAction ==
  ASSUME NEW cond, NEW dest
  PROVE  ~Hit(Builtin(cond, Empty), {"go"}, dest)
BY DEF Hit, Builtin, Rule

\* For a start the builder's own rules come to: the names blocked, the names
\* proxied, the names sent out directly, and then others.
LEMMA RouteOfStart ==
  ASSUME NEW r, NEW ds, NEW dest, IsSeq(r.custom),
         \A x \in Range(r.custom) : x.make = "json"
  PROVE  \E other :
           Own(RouteRules(r, ds, FALSE, "proxy"), dest, Empty) =
             IF Listed(r.block \ IPItems, dest) THEN "block"
             ELSE IF Listed(r.proxy \ IPItems, dest) THEN "proxy"
             ELSE IF Listed(r.direct \ IPItems, dest) THEN "bypass" ELSE other
<1> DEFINE F(s, d) == Own(s, dest, d)
           s1 == IF r.sniff THEN <<Builtin("action-sniff", Empty)>> ELSE <<>>
           s2 == <<Builtin("protocol-dns", Empty)>>
           b1 == ListRule(r.block \ IPItems, "block")
           p1 == ListRule(r.proxy \ IPItems, "proxy")
           d1 == ListRule(r.direct \ IPItems, "bypass")
           b2 == ListRule(r.block \cap IPItems, "block")
           p2 == ListRule(r.proxy \cap IPItems, "proxy")
           d2 == ListRule(r.direct \cap IPItems, "bypass")
           s3 == <<Builtin("udp-ports", "block"), Builtin("multicast", "block"),
                   Builtin("multicast-source", "block")>>
           q1 == s1 \o r.custom
           q2 == q1 \o s2
           q3 == q2 \o b1
           q4 == q3 \o p1
           q5 == q4 \o d1
           q6 == q5 \o b2
           q7 == q6 \o p2
           q8 == q7 \o d2
<1>1. RouteRules(r, ds, FALSE, "proxy") = q8 \o s3
  BY DEF RouteRules
<1>2. IsSeq(s1) /\ \A d : F(s1, d) = d
  <2>1. CASE r.sniff
    <3>1. s1 = <<Builtin("action-sniff", Empty)>>
      BY <2>1
    <3> HIDE DEF s1
    <3>2. Range(s1) = {Builtin("action-sniff", Empty)} /\ IsSeq(s1)
      BY <3>1, RangeOfFew
    <3> QED  BY <3>2, MissedAction, OwnOfMisses
  <2>2. CASE ~r.sniff
    <3>1. s1 = <<>>
      BY <2>2
    <3> HIDE DEF s1
    <3>2. Range(s1) = {} /\ IsSeq(s1)
      BY <3>1, RangeOfFew
    <3> QED  BY <3>2, OwnOfMisses
  <2> QED  BY <2>1, <2>2
<1>3. IsSeq(s2) /\ \A d : F(s2, d) = d
  <2>1. Range(s2) = {Builtin("protocol-dns", Empty)} /\ IsSeq(s2)
    BY RangeOfFew
  <2> HIDE DEF s2
  <2> QED  BY <2>1, MissedAction, OwnOfMisses
<1>4. \A d : F(r.custom, d) = d
  <2>1. \A x \in Range(r.custom) : ~Hit(x, {"go"}, dest)
    BY DEF Hit
  <2> QED  BY <2>1, OwnOfMisses
<1>5. IsSeq(s3)
  BY RangeOfThree
<1>6. /\ IsSeq(b1)
      /\ Listed(r.block \ IPItems, dest) => \A d : F(b1, d) = "block"
      /\ ~Listed(r.block \ IPItems, dest) => \A d : F(b1, d) = d
  BY OwnOfList, NotEmpty
<1>7. /\ IsSeq(p1)
      /\ Listed(r.proxy \ IPItems, dest) => \A d : F(p1, d) = "proxy"
      /\ ~Listed(r.proxy \ IPItems, dest) => \A d : F(p1, d) = d
  BY OwnOfList, NotEmpty
<1>8. /\ IsSeq(d1)
      /\ Listed(r.direct \ IPItems, dest) => \A d : F(d1, d) = "bypass"
      /\ ~Listed(r.direct \ IPItems, dest) => \A d : F(d1, d) = d
  BY OwnOfList, NotEmpty
<1>9. IsSeq(b2) /\ IsSeq(p2) /\ IsSeq(d2)
  BY ListRuleRange
<1> HIDE DEF s1, s2, s3, b1, p1, d1, b2, p2, d2
<1>10. IsSeq(q1) /\ \A d : F(q1, d) = F(s1, F(r.custom, d))
  BY <1>2, OwnOfConcat
<1> HIDE DEF q1
<1>11. IsSeq(q2) /\ \A d : F(q2, d) = F(q1, F(s2, d))
  BY <1>3, <1>10, OwnOfConcat
<1> HIDE DEF q2
<1>12. IsSeq(q3) /\ \A d : F(q3, d) = F(q2, F(b1, d))
  BY <1>6, <1>11, OwnOfConcat
<1> HIDE DEF q3
<1>13. IsSeq(q4) /\ \A d : F(q4, d) = F(q3, F(p1, d))
  BY <1>7, <1>12, OwnOfConcat
<1> HIDE DEF q4
<1>14. IsSeq(q5) /\ \A d : F(q5, d) = F(q4, F(d1, d))
  BY <1>8, <1>13, OwnOfConcat
<1> HIDE DEF q5
<1>15. IsSeq(q6) /\ \A d : F(q6, d) = F(q5, F(b2, d))
  BY <1>9, <1>14, OwnOfConcat
<1> HIDE DEF q6
<1>16. IsSeq(q7) /\ \A d : F(q7, d) = F(q6, F(p2, d))
  BY <1>9, <1>15, OwnOfConcat
<1> HIDE DEF q7
<1>17. IsSeq(q8) /\ \A d : F(q8, d) = F(q7, F(d2, d))
  BY <1>9, <1>16, OwnOfConcat
<1> HIDE DEF q8
<1>18. \A d : F(q8 \o s3, d) = F(q8, F(s3, d))
  BY <1>5, <1>17, OwnOfConcat
<1> HIDE DEF F
<1> DEFINE other == F(b2, F(p2, F(d2, F(s3, Empty))))
<1>19. F(q8 \o s3, Empty) = F(q5, other)
  BY <1>15, <1>16, <1>17, <1>18
<1> HIDE DEF other
<1>20. F(q5, other) = F(b1, F(p1, F(d1, other)))
  BY <1>2, <1>3, <1>4, <1>10, <1>11, <1>12, <1>13, <1>14
<1>21. F(q8 \o s3, Empty) =
         IF Listed(r.block \ IPItems, dest) THEN "block"
         ELSE IF Listed(r.proxy \ IPItems, dest) THEN "proxy"
         ELSE IF Listed(r.direct \ IPItems, dest) THEN "bypass" ELSE other
  BY <1>6, <1>7, <1>8, <1>19, <1>20
<1> QED  BY <1>1, <1>21 DEF F

\* The rule of the servers' own names does not concern a connection.
LEMMA NamesRuleMissed ==
  ASSUME NEW dest, "outbound-any" \notin dest.conds
  PROVE  \A d : Own(<<Builtin("outbound-any", "dns-direct")>>, dest, d) = d
<1> DEFINE any == Builtin("outbound-any", "dns-direct")
           s == <<any>>
<1>1. ~Hit(any, {"go"}, dest)
  BY MissedCondition
<1> HIDE DEF any
<1>2. Range(s) = {any}
  BY RangeOfFew
<1> HIDE DEF s
<1>3. \A d : Own(s, dest, d) = d
  BY <1>1, <1>2, OwnOfMisses
<1> QED  BY <1>3 DEF s, any

\* For a start with DNS routing the DNS rules come to: the proxied names to the
\* remote server, the direct ones and the server's own to the direct one.
LEMMA DnsOfStart ==
  ASSUME NEW b, NEW r, NEW ds, NEW IPs, NEW dest,
         \A d : Own(<<Builtin("outbound-any", "dns-direct")>>, dest, d) = d
  PROVE  r.dnsRouting =>
         \E other :
           Own(DnsRules(b, r, ds, FALSE, IPs), dest, Empty) =
             IF Listed(r.proxy \ IPItems, dest) THEN "dns-remote"
             ELSE IF Listed(ServerNames(b, IPs) \union (r.direct \ IPItems), dest)
                  THEN "dns-direct" ELSE other
<1> DEFINE F(s, d) == Own(s, dest, d)
           s1 == <<Builtin("outbound-any", "dns-direct")>>
           p1 == ListRule(r.proxy \ IPItems, "dns-remote")
           direct == ServerNames(b, IPs) \union (r.direct \ IPItems)
           d1 == ListRule(direct, "dns-direct")
           s2 == <<Builtin("query-type", "dns-block"), Builtin("lan", "dns-block")>>
           s3 == IF FakeDNS(ds, FALSE) THEN <<Builtin("tun-in", "dns-fake")>> ELSE <<>>
           q1 == s1 \o p1
           q2 == q1 \o d1
           q3 == q2 \o s2
<1>1. r.dnsRouting => DnsRules(b, r, ds, FALSE, IPs) = q3 \o s3
  BY DEF DnsRules
<1>2. IsSeq(s1) /\ \A d : F(s1, d) = d
  BY RangeOfFew
<1>3. IsSeq(s2)
  BY RangeOfTwo
<1>4. IsSeq(s3)
  BY RangeOfFew
<1>5. /\ IsSeq(p1)
      /\ Listed(r.proxy \ IPItems, dest) => \A d : F(p1, d) = "dns-remote"
      /\ ~Listed(r.proxy \ IPItems, dest) => \A d : F(p1, d) = d
  BY OwnOfList, NotEmpty
<1>6. /\ IsSeq(d1)
      /\ Listed(direct, dest) => \A d : F(d1, d) = "dns-direct"
      /\ ~Listed(direct, dest) => \A d : F(d1, d) = d
  <2> HIDE DEF direct
  <2> QED  BY OwnOfList, NotEmpty
<1> HIDE DEF s1, s2, s3, p1, d1, direct
<1>7. IsSeq(q1) /\ \A d : F(q1, d) = F(s1, F(p1, d))
  BY <1>2, <1>5, OwnOfConcat
<1> HIDE DEF q1
<1>8. IsSeq(q2) /\ \A d : F(q2, d) = F(q1, F(d1, d))
  BY <1>6, <1>7, OwnOfConcat
<1> HIDE DEF q2
<1>9. IsSeq(q3) /\ \A d : F(q3, d) = F(q2, F(s2, d))
  BY <1>3, <1>8, OwnOfConcat
<1> HIDE DEF q3
<1>10. \A d : F(q3 \o s3, d) = F(q3, F(s3, d))
  BY <1>4, <1>9, OwnOfConcat
<1> HIDE DEF F
<1> DEFINE other == F(s2, F(s3, Empty))
<1>11. F(q3 \o s3, Empty) = F(q2, other)
  BY <1>9, <1>10
<1> HIDE DEF other
<1>12. F(q2, other) = F(p1, F(d1, other))
  BY <1>2, <1>7, <1>8
<1>13. F(q3 \o s3, Empty) =
         IF Listed(r.proxy \ IPItems, dest) THEN "dns-remote"
         ELSE IF Listed(direct, dest) THEN "dns-direct" ELSE other
  BY <1>5, <1>6, <1>11, <1>12
<1> QED  BY <1>1, <1>13 DEF F, direct

\* In a config with DNS routing the resolver follows the lists' outbounds.
LEMMA ConfigDns ==
  ConfigInv => DnsFollowsRoute
<1>1. SUFFICES
        ASSUME ConfigInv, Built, ~config.forTest, routing.dnsRouting,
               NEW dest \in Destinations,
               NEW i \in DOMAIN routing.rules,
               routing.rules[i].enabled, routing.rules[i].conds = {},
               Holds(Rule("go", routing.rules[i].items \ IPItems, {}, routing.rules[i].out), dest),
               routing.rules[i].items \ IPItems # {}
        PROVE  /\ FirstOut(config.route, {"go"}, dest, Empty) = "proxy" =>
                    FirstOut(config.dnsRules, {"go"}, dest, Empty) = "dns-remote"
               /\ FirstOut(config.route, {"go"}, dest, Empty) = "bypass" =>
                    FirstOut(config.dnsRules, {"go"}, dest, Empty) = "dns-direct"
  BY DEF DnsFollowsRoute
<1>2. PICK ds \in DataStores, forTest \in BOOLEAN :
        /\ routing \in Routings
        /\ config = BuildConfigSingBox(profile, ToGrpcRouting(routing),
                                       ds, forTest, IPAddresses)
  BY <1>1 DEF ConfigInv, Built
<1> DEFINE rule == routing.rules[i]
           r == ToGrpcRouting(routing)
           P == Listed(r.proxy \ IPItems, dest)
           D == Listed(r.direct \ IPItems, dest)
           B == Listed(r.block \ IPItems, dest)
<1>3. IsConfig(config, profile, r, ds, forTest, IPAddresses)
  BY <1>1, <1>2, ConfigOrError DEF Built
<1>4. /\ forTest = FALSE
      /\ config.route = RouteRules(r, ds, FALSE, "proxy")
      /\ config.dnsRules = DnsRules(profile, r, ds, FALSE, IPAddresses)
  <2> HIDE DEF r
  <2>1. forTest = FALSE
    BY <1>1, <1>3 DEF IsConfig
  <2> QED  BY <1>3, <2>1 DEF IsConfig
<1>5. IsSeq(r.custom) /\ \A x \in Range(r.custom) : x.make = "json"
  BY <1>2, CompiledRouting
<1>6. r.dnsRouting /\ "outbound-any" \notin dest.conds
  BY <1>1, ServiceAssumption DEF ToGrpcRouting
<1>7. P \/ D \/ B
  <2>1. Listed(rule.items \ IPItems, dest)
    BY <1>1 DEF Listed, Holds, Rule
  <2>2. rule.out \in RuleOutbounds
    BY <1>1, <1>2, ServiceAssumption
  <2>3. /\ rule.out = "proxy" => rule.items \subseteq r.proxy
        /\ rule.out \in {"direct", "bypass"} => rule.items \subseteq r.direct
        /\ rule.out = "block" => rule.items \subseteq r.block
    BY <1>1 DEF ToGrpcRouting, ListsOf
  <2>4. \/ rule.items \ IPItems \subseteq r.proxy \ IPItems
        \/ rule.items \ IPItems \subseteq r.direct \ IPItems
        \/ rule.items \ IPItems \subseteq r.block \ IPItems
    <3> HIDE DEF r, rule
    <3> QED  BY <2>2, <2>3 DEF RuleOutbounds
  <2> HIDE DEF r, rule
  <2> QED  BY <2>1, <2>4, ListedInLonger
<1>8. D => Listed(ServerNames(profile, IPAddresses) \union (r.direct \ IPItems), dest)
  <2> HIDE DEF r
  <2> QED  BY ListedInLonger
<1> HIDE DEF r
<1>9. PICK a : Own(config.route, dest, Empty) =
        IF B THEN "block" ELSE IF P THEN "proxy" ELSE IF D THEN "bypass" ELSE a
  BY <1>4, <1>5, RouteOfStart
<1>10. \A d : Own(<<Builtin("outbound-any", "dns-direct")>>, dest, d) = d
  BY <1>6, NamesRuleMissed
<1>11. PICK c : Own(config.dnsRules, dest, Empty) =
         IF P THEN "dns-remote"
         ELSE IF Listed(ServerNames(profile, IPAddresses) \union (r.direct \ IPItems), dest)
              THEN "dns-direct" ELSE c
  BY <1>4, <1>6, <1>10, DnsOfStart
<1> HIDE DEF P, D, B
<1> QED  BY <1>7, <1>8, <1>9, <1>11 DEF Own

-----------------------------------------------------------------------------
(* Labels.                                                                 *)

\* The bean holds the discriminator of the label, and it alone.
Labelled(b) ==
  /\ b.type \in Types
  /\ \A k \in DiscriminatorKeys(b.type) : Val(b.f, k) = Val(Discriminator(b.type), k)

\* What a parser or a form returns has the fields toJson looks at.
HasFields(b) == {"type", "port", "f", "stream"} \subseteq DOMAIN b

\* Profile gives them, and keeps the stream where the type has one.
LEMMA ProfileFields ==
  ASSUME NEW type, NEW name, NEW addr, NEW port, NEW f, NEW stream
  PROVE  LET b == Profile(type, name, addr, port, f, stream)
         IN  /\ HasFields(b)
             /\ b.type = type
             /\ b.f = f
             /\ type \in StreamTypes => b.stream = stream
BY DEF Profile, HasFields

\* toJson changes the bean's own fields, and sets the discriminator in them.
LEMMA JsonFields ==
  ASSUME NEW b, HasFields(b)
  PROVE  /\ ToJson(b).type = b.type
         /\ ToJson(b).stream = b.stream
         /\ \A k \in DiscriminatorKeys(b.type) :
              Val(ToJson(b).f, k) = Val(Discriminator(b.type), k)
<1> DEFINE d == Discriminator(b.type)
           keys == DiscriminatorKeys(b.type)
           rest == [k \in DOMAIN b.f \ keys |-> b.f[k]]
<1>1. /\ ToJson(b).type = b.type
      /\ ToJson(b).stream = b.stream
      /\ ToJson(b).f = d @@ rest
  <2> HIDE DEF d, rest
  <2> QED  BY DEF HasFields, ToJson, d, rest
<1>2. \A k \in keys : k \notin DOMAIN rest
  OBVIOUS
<1> HIDE DEF d, rest, keys
<1>3. \A k \in keys : Val(d @@ rest, k) = Val(d, k)
  BY <1>2 DEF @@, Val
<1> QED  BY <1>1, <1>3 DEF d, keys

\* So every profile the client keeps is labelled.
LEMMA JsonLabelled ==
  ASSUME NEW b, HasFields(b), b.type \in Types
  PROVE  Labelled(ToJson(b)) /\ ToJson(b) # Rejected
<1>1. Labelled(ToJson(b))
  BY JsonFields DEF Labelled
<1>2. Rejected.type \notin Types
  BY ProfileFields, NotEmpty DEF Rejected
<1> QED  BY <1>1, <1>2 DEF Labelled

\* A discriminator tells the two protocols of its bean apart.
LEMMA DiscriminatorValues ==
  ASSUME NEW b, Labelled(b)
  PROVE  /\ b.type = "socks" => Val(b.f, "socks_http_type") = "1"
         /\ b.type = "http" => Val(b.f, "socks_http_type") = "2"
         /\ b.type = "trojan" => Val(b.f, "proxy_type") = Empty
         /\ b.type = "vless" => Val(b.f, "proxy_type") = "1"
         /\ b.type = "tuic" => Val(b.f, "proxy_type") = "1"
         /\ b.type = "hysteria2" => Val(b.f, "proxy_type") = "3"
<1>1. /\ Val(Discriminator("socks"), "socks_http_type") = "1"
      /\ Val(Discriminator("http"), "socks_http_type") = "2"
      /\ Val(Discriminator("trojan"), "proxy_type") = Empty
      /\ Val(Discriminator("vless"), "proxy_type") = "1"
      /\ Val(Discriminator("tuic"), "proxy_type") = "1"
      /\ Val(Discriminator("hysteria2"), "proxy_type") = "3"
  BY DEF Discriminator, ProxyType, Val, :>, None
<1>2. /\ "socks_http_type" \in DiscriminatorKeys("socks")
      /\ "socks_http_type" \in DiscriminatorKeys("http")
      /\ "proxy_type" \in DiscriminatorKeys("trojan")
      /\ "proxy_type" \in DiscriminatorKeys("vless")
      /\ "proxy_type" \in DiscriminatorKeys("tuic")
      /\ "proxy_type" \in DiscriminatorKeys("hysteria2")
  BY DEF DiscriminatorKeys
<1> QED  BY <1>1, <1>2 DEF Labelled

\* Which builder a label leads to.
LEMMA BuilderOf ==
  ASSUME NEW b
  PROVE  /\ b.type \in {"socks", "http"} => Raw(b) = BuildSocksHttp(b)
         /\ b.type = "shadowsocks" => Raw(b) = BuildShadowsocks(b)
         /\ b.type = "vmess" => Raw(b) = BuildVMess(b)
         /\ b.type \in {"vless", "trojan"} => Raw(b) = BuildTrojanVLESS(b)
         /\ b.type \in {"hysteria2", "tuic"} => Raw(b) = BuildQUIC(b)
         /\ b.type = "naive" => Raw(b) = BuildNaive(b)
         /\ b.type = "anytls" => Raw(b) = BuildAnyTLS(b)
         /\ b.type = "ssh" => Raw(b) = BuildSSH(b)
         /\ b.type = "wireguard" => Raw(b) = BuildWireGuard(b)
BY ZenonT(60) DEF Raw, BuildOutboundSingBox, DecodeBean

\* A labelled profile builds the protocol of its label.
LEMMA TypeOfOutbound ==
  ASSUME NEW b, Labelled(b), b.type # "custom"
  PROVE  Val(Raw(b), "type") = b.type
<1>1. "type" \notin DOMAIN Server(b)
  BY DEF Server, :>, @@
<1>2. CASE b.type \in {"socks", "http"}
  <2>1. Val(BuildSocksHttp(b), "type") =
          IF Val(b.f, "socks_http_type") = "2" THEN "http" ELSE "socks"
    BY <1>1 DEF BuildSocksHttp, @@, :>, Val
  <2> QED  BY <1>2, <2>1, BuilderOf, DiscriminatorValues
<1>3. CASE b.type = "shadowsocks"
  <2>1. Val(BuildShadowsocks(b), "type") = "shadowsocks"
    BY <1>1, ZenonT(60) DEF BuildShadowsocks, @@, :>, Val
  <2> QED  BY <1>3, <2>1, BuilderOf
<1>4. CASE b.type = "vmess"
  <2>1. Val(BuildVMess(b), "type") = "vmess"
    BY <1>1, Zenon DEF BuildVMess, @@, :>, Val
  <2> QED  BY <1>4, <2>1, BuilderOf
<1>5. CASE b.type \in {"vless", "trojan"}
  <2>1. Val(BuildTrojanVLESS(b), "type") =
          IF Val(b.f, "proxy_type") = "1" THEN "vless" ELSE "trojan"
    BY <1>1 DEF BuildTrojanVLESS, @@, :>, Val
  <2> QED  BY <1>5, <2>1, BuilderOf, DiscriminatorValues, NotEmpty
<1>6. CASE b.type \in {"hysteria2", "tuic"}
  <2>1. "type" \notin DOMAIN TlsOfQUIC(b)
    BY DEF TlsOfQUIC, @@, :>, Copy
  <2>2. "type" \in DOMAIN BuildHysteria2(b) /\ BuildHysteria2(b)["type"] = "hysteria2"
    BY ZenonT(60) DEF BuildHysteria2, @@, :>
  <2>3. "type" \in DOMAIN BuildTuic(b) /\ BuildTuic(b)["type"] = "tuic"
    BY Zenon DEF BuildTuic, @@, :>
  <2>4. Val(b.f, "proxy_type") = "3" => Val(BuildQUIC(b), "type") = "hysteria2"
    BY <1>1, <2>1, <2>2 DEF BuildQUIC, @@, Val
  <2>5. Val(b.f, "proxy_type") = "1" => Val(BuildQUIC(b), "type") = "tuic"
    BY <1>1, <2>1, <2>3 DEF BuildQUIC, @@, Val
  <2> QED  BY <1>6, <2>4, <2>5, BuilderOf, DiscriminatorValues
<1>7. CASE b.type = "naive"
  <2>1. Val(BuildNaive(b), "type") = "naive"
    BY <1>1, Zenon DEF BuildNaive, @@, :>, Val
  <2> QED  BY <1>7, <2>1, BuilderOf
<1>8. CASE b.type = "anytls"
  <2>1. Val(BuildAnyTLS(b), "type") = "anytls"
    BY <1>1 DEF BuildAnyTLS, @@, :>, Val
  <2> QED  BY <1>8, <2>1, BuilderOf
<1>9. CASE b.type = "ssh"
  <2>1. Val(BuildSSH(b), "type") = "ssh"
    BY <1>1 DEF BuildSSH, @@, :>, Val
  <2> QED  BY <1>9, <2>1, BuilderOf
<1>10. CASE b.type = "wireguard"
  <2>1. Val(BuildWireGuard(b), "type") = "wireguard"
    BY Zenon DEF BuildWireGuard, @@, :>, Val
  <2> QED  BY <1>10, <2>1, BuilderOf
<1>11. b.type \in Types
  BY DEF Labelled
<1> QED
  BY <1>2, <1>3, <1>4, <1>5, <1>6, <1>7, <1>8, <1>9, <1>10, <1>11
  DEF Types, StreamTypes

-----------------------------------------------------------------------------
(* Encryption.                                                             *)

\* The profile means an encrypted connection.
Encrypted(b) ==
  \/ /\ b.type \in {"http", "socks", "vmess", "vless", "trojan"}
     /\ Val(b.stream, "sec") = "tls"
  \/ b.type \in {"hysteria2", "tuic", "naive", "anytls"}

\* Stream settings that say tls are there, and reach the outbound.
LEMMA StreamSaysTls ==
  ASSUME NEW s, Val(s, "sec") = "tls", NEW type
  PROVE  /\ s # NilStream
         /\ "tls.enabled" \in DOMAIN BuildStreamSettingsSingBox(s, type)
         /\ BuildStreamSettingsSingBox(s, type)["tls.enabled"] = "1"
<1>1. s # NilStream
  BY NotEmpty DEF NilStream, Val, :>
<1>2. "tls.enabled" \notin DOMAIN TransportOf(s)
  BY DEF TransportOf, Copy, :>, @@, None
<1>3. "tls.enabled" \in DOMAIN TlsOf(s) /\ TlsOf(s)["tls.enabled"] = "1"
  BY Zenon DEF TlsOf, :>, @@
<1> QED  BY <1>1, <1>2, <1>3 DEF BuildStreamSettingsSingBox, @@

\* Such a profile builds an outbound with tls enabled.
LEMMA TlsOfOutbound ==
  ASSUME NEW b, Encrypted(b)
  PROVE  Val(Raw(b), "tls.enabled") = "1"
<1>1. "tls.enabled" \notin DOMAIN Server(b)
  BY DEF Server, :>, @@
<1>2. "tls.enabled" \in DOMAIN BuildTLS(b) /\ BuildTLS(b)["tls.enabled"] = "1"
  BY DEF BuildTLS, :>, @@
<1>3. CASE b.type \in {"http", "socks"} /\ Val(b.stream, "sec") = "tls"
  <2>1. Val(BuildSocksHttp(b), "tls.enabled") = "1"
    BY <1>1, <1>3, StreamSaysTls, ZenonT(60) DEF BuildSocksHttp, @@, :>, Val, Copy, None
  <2> QED  BY <1>3, <2>1, BuilderOf
<1>4. CASE b.type = "vmess" /\ Val(b.stream, "sec") = "tls"
  <2>1. Val(BuildVMess(b), "tls.enabled") = "1"
    BY <1>1, <1>4, StreamSaysTls, ZenonT(60) DEF BuildVMess, @@, :>, Val
  <2> QED  BY <1>4, <2>1, BuilderOf
<1>5. CASE b.type \in {"vless", "trojan"} /\ Val(b.stream, "sec") = "tls"
  <2>1. Val(BuildTrojanVLESS(b), "tls.enabled") = "1"
    BY <1>1, <1>5, StreamSaysTls, ZenonT(60) DEF BuildTrojanVLESS, @@, :>, Val
  <2> QED  BY <1>5, <2>1, BuilderOf
<1>6. CASE b.type \in {"hysteria2", "tuic"}
  <2>1. Val(BuildQUIC(b), "tls.enabled") = "1"
    BY <1>1, ZenonT(60) DEF BuildQUIC, TlsOfQUIC, @@, :>, Val
  <2> QED  BY <1>6, <2>1, BuilderOf
<1>7. CASE b.type = "naive"
  <2>1. Val(BuildNaive(b), "tls.enabled") = "1"
    BY <1>1, <1>2, Zenon DEF BuildNaive, @@, :>, Val, Copy
  <2> QED  BY <1>7, <2>1, BuilderOf
<1>8. CASE b.type = "anytls"
  <2>1. Val(BuildAnyTLS(b), "tls.enabled") = "1"
    BY <1>1, <1>2 DEF BuildAnyTLS, @@, :>, Val, Copy
  <2> QED  BY <1>8, <2>1, BuilderOf
<1> QED  BY <1>3, <1>4, <1>5, <1>6, <1>7, <1>8 DEF Encrypted

-----------------------------------------------------------------------------
(* Links.                                                                  *)

\* A parser refuses a link or returns a profile of one of some types.
ParsedAs(b, types) == b = Rejected \/ (HasFields(b) /\ b.type \in types)

\* Which parser a scheme leads to.
LEMMA ParserOf ==
  ASSUME NEW l
  PROVE  /\ l.scheme = "ss" => ParseLink(l) = ParseShadowsocks(l)
         /\ l.scheme = "vmess" => ParseLink(l) = ParseVMess(l)
         /\ l.scheme \in {"vless", "trojan"} => ParseLink(l) = ParseTrojanVLESS(l)
         /\ l.scheme \in {"hysteria2", "hy2", "tuic"} => ParseLink(l) = ParseQUIC(l)
         /\ l.scheme \in {"socks4", "socks4a", "socks5", "socks", "http", "https"} =>
              ParseLink(l) \in {Rejected, ParseSocksHTTP(l)}
         /\ l.scheme \in {"naive+https", "naive"} => ParseLink(l) = ParseNaive(l)
         /\ l.scheme = "anytls" => ParseLink(l) = ParseAnyTLS(l)
         /\ l.scheme = "ssh" => ParseLink(l) = ParseSSH(l)
         /\ l.scheme \in {"wireguard", "wg"} => ParseLink(l) = ParseWireGuard(l)
         /\ \/ l.scheme \in {"ss", "vmess", "vless", "trojan", "hysteria2", "hy2", "tuic",
                             "socks4", "socks4a", "socks5", "socks", "http", "https",
                             "naive+https", "naive", "anytls", "ssh", "wireguard", "wg"}
            \/ ParseLink(l) = Rejected
BY DEF ParseLink

\* Each parser labels what it returns with a protocol of its scheme.
LEMMA ParsedTypes ==
  ASSUME NEW l
  PROVE  /\ ParsedAs(ParseShadowsocks(l), {"shadowsocks"})
         /\ ParsedAs(ParseVMess(l), {"vmess"})
         /\ l.scheme \in {"vless", "trojan"} => ParsedAs(ParseTrojanVLESS(l), {"vless", "trojan"})
         /\ ParsedAs(ParseQUIC(l), {"hysteria2", "tuic"})
         /\ ParsedAs(ParseSocksHTTP(l), {"socks", "http"})
         /\ ParsedAs(ParseNaive(l), {"naive"})
         /\ ParsedAs(ParseAnyTLS(l), {"anytls"})
         /\ ParsedAs(ParseSSH(l), {"ssh"})
         /\ ParsedAs(ParseWireGuard(l), {"wireguard"})
<1>1. ParsedAs(ParseShadowsocks(l), {"shadowsocks"})
  BY ProfileFields DEF ParseShadowsocks, ParsedAs
<1>2. ParsedAs(ParseVMessJson(l), {"vmess"})
  BY ProfileFields DEF ParseVMessJson, ParsedAs
<1>3. ParsedAs(ParseVMess(l), {"vmess"})
  BY <1>2, ProfileFields DEF ParseVMess, ParsedAs
<1>4. l.scheme \in {"vless", "trojan"} => ParsedAs(ParseTrojanVLESS(l), {"vless", "trojan"})
  BY ProfileFields DEF ParseTrojanVLESS, ParsedAs
<1>5. ParsedAs(ParseQUIC(l), {"hysteria2", "tuic"})
  BY ProfileFields DEF ParseQUIC, ParsedAs
<1>6. ParsedAs(ParseSocksHTTP(l), {"socks", "http"})
  BY ProfileFields DEF ParseSocksHTTP, ParsedAs
<1>7. ParsedAs(ParseNaive(l), {"naive"})
  BY ProfileFields DEF ParseNaive, ParsedAs
<1>8. ParsedAs(ParseAnyTLS(l), {"anytls"})
  BY ProfileFields DEF ParseAnyTLS, ParsedAs
<1>9. ParsedAs(ParseSSH(l), {"ssh"})
  BY ProfileFields DEF ParseSSH, ParsedAs
<1>10. ParsedAs(ParseWireGuard(l), {"wireguard"})
  BY ProfileFields DEF ParseWireGuard, ParsedAs
<1> QED  BY <1>1, <1>3, <1>4, <1>5, <1>6, <1>7, <1>8, <1>9, <1>10

\* So a link is refused or becomes a profile of a protocol the editor offers.
LEMMA ParsedLink ==
  ASSUME NEW l
  PROVE  ParsedAs(ParseLink(l), Types)
<1>1. ParsedAs(Rejected, Types)
  BY DEF ParsedAs
<1>2. \A b, some : some \subseteq Types /\ ParsedAs(b, some) => ParsedAs(b, Types)
  BY DEF ParsedAs
<1>3. /\ {"shadowsocks"} \subseteq Types /\ {"vmess"} \subseteq Types
      /\ {"vless", "trojan"} \subseteq Types /\ {"hysteria2", "tuic"} \subseteq Types
      /\ {"socks", "http"} \subseteq Types /\ {"naive"} \subseteq Types
      /\ {"anytls"} \subseteq Types /\ {"ssh"} \subseteq Types /\ {"wireguard"} \subseteq Types
  BY DEF Types, StreamTypes
<1>4. CASE l.scheme \in {"ss", "vmess", "ssh", "wireguard", "wg"}
  BY <1>2, <1>3, <1>4, ParserOf, ParsedTypes
<1>5. CASE l.scheme \in {"vless", "trojan"}
  BY <1>2, <1>3, <1>5, ParserOf, ParsedTypes
<1>6. CASE l.scheme \in {"hysteria2", "hy2", "tuic", "naive+https", "naive", "anytls"}
  BY <1>2, <1>3, <1>6, ParserOf, ParsedTypes
<1>7. CASE l.scheme \in {"socks4", "socks4a", "socks5", "socks", "http", "https"}
  BY <1>1, <1>2, <1>3, <1>7, ParserOf, ParsedTypes
<1> QED  BY <1>1, <1>4, <1>5, <1>6, <1>7, ParserOf

\* The security a query asks for, in the stream settings made of it.
LEMMA TlsOfQueryStream ==
  ASSUME NEW q
  PROVE  Val(StreamOfQuery(q, "tls"), "sec") = "tls"
BY NotEmpty, Zenon DEF StreamOfQuery, Set, Val, @@, :>

\* A link that says tls, once accepted, is an encrypted profile.
LEMMA TlsOfLink ==
  ASSUME NEW l, SaysTls(l), ParseLink(l) # Rejected
  PROVE  Encrypted(ParseLink(l))
<1> DEFINE b == ParseLink(l)
           security == Val(l.query, "security")
<1>1. CASE l.scheme \in {"socks4", "socks4a", "socks5", "socks", "http", "https"}
  <2>1. b = ParseSocksHTTP(l)
    BY <1>1, ParserOf
  <2>2. l.scheme = "https" \/ security = "tls"
    BY <1>1 DEF SaysTls
  <2>3. b.type \in {"http", "socks"} /\ Val(b.stream, "sec") = "tls"
    <3> DEFINE stream == "net" :> "tcp"
                 @@ Set("sec", IF l.scheme = "https" THEN "tls" ELSE security)
                 @@ Set("sni", Val(l.query, "sni"))
    <3>1. Val(stream, "sec") = "tls"
      BY <2>2, NotEmpty, Zenon DEF Set, Val, @@, :>
    <3>2. b.type \in {"http", "socks"} /\ b.stream = stream
      <4> HIDE DEF b
      <4> QED  BY <2>1, ProfileFields DEF ParseSocksHTTP, StreamTypes
    <3> QED  BY <3>1, <3>2
  <2> QED  BY <2>3 DEF Encrypted
<1>2. CASE l.scheme \in {"vless", "trojan"}
  <2>1. b = ParseTrojanVLESS(l) /\ b # Rejected
    BY <1>2, ParserOf
  <2> DEFINE default == IF l.scheme = "trojan" THEN "tls" ELSE Empty
  <2>2. SecurityOf(l.query, default) = "tls"
    BY <1>2, NotEmpty DEF SaysTls, SecurityOf, ValOr
  <2> DEFINE stream == Copy(l.query, [alpn |-> "alpn"]) @@ StreamOfQuery(l.query, "tls")
  <2>3. Val(stream, "sec") = "tls"
    BY TlsOfQueryStream DEF Copy, @@, Val
  <2>4. b.type = l.scheme /\ b.stream = stream
    <3> HIDE DEF b
    <3> QED  BY <1>2, <2>1, <2>2, ProfileFields DEF ParseTrojanVLESS, StreamTypes
  <2> QED  BY <1>2, <2>3, <2>4 DEF Encrypted
<1>3. CASE l.scheme = "vmess" /\ l.form # "json"
  <2>1. b = ParseVMess(l) /\ b # Rejected
    BY <1>3, ParserOf
  <2> DEFINE sec == ValOr(l.query, "security", "tls")
  <2>2. (IF sec = "reality" THEN "tls" ELSE sec) = "tls"
    BY <1>3, NotEmpty DEF SaysTls, ValOr
  <2>3. b.type = "vmess" /\ b.stream = StreamOfQuery(l.query, "tls")
    <3> HIDE DEF b
    <3> QED  BY <1>3, <2>1, <2>2, ProfileFields DEF ParseVMess, StreamTypes
  <2> QED  BY <2>3, TlsOfQueryStream DEF Encrypted
<1>4. CASE l.scheme = "vmess" /\ l.form = "json"
  <2>1. b = ParseVMessJson(l) /\ b # Rejected
    BY <1>4, ParserOf DEF ParseVMess
  <2>2. Val(l.query, "tls") = "tls"
    BY <1>4 DEF SaysTls
  <2> DEFINE net == ValOr(l.query, "net", "tcp")
             stream == "net" :> (IF net = "h2" THEN "http" ELSE net)
               @@ Copy(l.query, [host |-> "host", path |-> "path", sni |-> "sni",
                                 h_type |-> "type", sec |-> "tls"])
  <2>3. Val(stream, "sec") = "tls"
    BY <2>2, NotEmpty, Zenon DEF Copy, Val, @@, :>
  <2>4. b.type = "vmess" /\ b.stream = stream
    <3> HIDE DEF b
    <3> QED  BY <2>1, ProfileFields DEF ParseVMessJson, StreamTypes
  <2> QED  BY <2>3, <2>4 DEF Encrypted
<1>5. CASE l.scheme \in {"hysteria2", "hy2", "tuic", "naive+https", "naive", "anytls"}
  <2>1. b.type \in {"hysteria2", "tuic", "naive", "anytls"}
    BY <1>5, ParserOf, ParsedTypes DEF ParsedAs
  <2> QED  BY <2>1 DEF Encrypted
<1> QED  BY <1>1, <1>2, <1>3, <1>4, <1>5 DEF SaysTls

\* A link has the parts it was made of.
LEMMA LinkFields ==
  ASSUME NEW scheme, NEW form, NEW user, NEW pass, NEW host, NEW port, NEW query, NEW name
  PROVE  LET l == Link(scheme, form, user, pass, host, port, query, name)
         IN  l.scheme = scheme /\ l.form = form /\ l.query = query
BY DEF Link

\* Which generator a label leads to.
LEMMA GeneratorOf ==
  ASSUME NEW b
  PROVE  /\ b.type \in {"socks", "http"} => GenerateLink(b) = GenSocksHTTP(b)
         /\ b.type = "vmess" => GenerateLink(b) = GenVMess(b)
         /\ b.type \in {"vless", "trojan"} => GenerateLink(b) = GenTrojanVLESS(b)
         /\ b.type \in {"hysteria2", "tuic"} => GenerateLink(b) = GenQUIC(b)
         /\ b.type = "naive" => GenerateLink(b) = GenNaive(b)
         /\ b.type = "anytls" => GenerateLink(b) = GenAnyTLS(b)
BY Zenon DEF GenerateLink, DecodeBean

\* The link of an encrypted profile, if it can be read at all, says tls.  (That
\* of a socks profile cannot: its scheme is "socks1".)
LEMMA TlsOfShared ==
  ASSUME NEW b, Labelled(b), Encrypted(b), ParseLink(GenerateLink(b)) # Rejected
  PROVE  SaysTls(GenerateLink(b))
<1> DEFINE l == GenerateLink(b)
           s == Stream(b)
<1>1. Val(b.stream, "sec") = "tls" => Val(s, "sec") = "tls"
  BY StreamSaysTls DEF Stream
<1>2. CASE b.type \in {"http", "socks"} /\ Val(b.stream, "sec") = "tls"
  <2>1. l = GenSocksHTTP(b)
    BY <1>2, GeneratorOf
  <2>2. CASE b.type = "http"
    <3>1. l.scheme = "https"
      <4>1. Val(b.f, "socks_http_type") = "2"
        BY <2>2, DiscriminatorValues
      <4> HIDE DEF l
      <4> QED  BY <1>1, <1>2, <2>1, <4>1, LinkFields DEF GenSocksHTTP
    <3> QED  BY <3>1 DEF SaysTls
  <2>3. CASE b.type = "socks"
    <3>1. l.scheme = "socks1"
      <4>1. Val(b.f, "socks_http_type") = "1"
        BY <2>3, DiscriminatorValues
      <4> HIDE DEF l
      <4> QED  BY <2>1, <4>1, LinkFields DEF GenSocksHTTP
    <3> QED  BY <3>1, ParserOf
  <2> QED  BY <1>2, <2>2, <2>3
<1>3. CASE b.type = "vmess" /\ Val(b.stream, "sec") = "tls"
  <2>1. l = GenVMess(b)
    BY <1>3, GeneratorOf
  <2> DEFINE query == Set("ps", b.name) @@ Set("add", b.addr) @@ "port" :> b.port
               @@ Copy(b.f, [id |-> "id", aid |-> "aid", scy |-> "sec"])
               @@ Copy(s, [net |-> "net", host |-> "host", path |-> "path",
                           type |-> "h_type", sni |-> "sni"])
               @@ Set("tls", IF Val(s, "sec") = "tls" THEN "tls" ELSE Empty)
  <2>2. l.scheme = "vmess" /\ l.form = "json" /\ l.query = query
    <3> HIDE DEF l
    <3> QED  BY <2>1, LinkFields DEF GenVMess
  <2>3. Val(query, "tls") = "tls"
    <3> HIDE DEF s
    <3> QED  BY <1>1, <1>3, NotEmpty, ZenonT(60) DEF Set, Copy, Val, @@, :>, None
  <2> QED  BY <2>2, <2>3 DEF SaysTls
<1>4. CASE b.type \in {"vless", "trojan"} /\ Val(b.stream, "sec") = "tls"
  <2>1. l = GenTrojanVLESS(b)
    BY <1>4, GeneratorOf
  <2> DEFINE reality == Val(s, "sec") = "tls" /\ Val(s, "pbk") # Empty
  <2>2. l.scheme \in {"vless", "trojan"}
    <3> HIDE DEF l
    <3> QED  BY <2>1, LinkFields DEF GenTrojanVLESS
  <2>3. Val(l.query, "security") \in {"tls", "reality"}
    <3> DEFINE v == IF reality THEN "reality" ELSE Val(s, "sec")
    <3>1. PICK more1, more2, more3, more4 :
            l.query = Set("security", v) @@ more1 @@ more2 @@ more3 @@ more4
      <4> HIDE DEF l
      <4> QED  BY <2>1, LinkFields DEF GenTrojanVLESS
    <3>2. v \in {"tls", "reality"}
      BY <1>1, <1>4
    <3> HIDE DEF l, v
    <3>3. Set("security", v) = "security" :> v
      BY <3>2, NotEmpty DEF Set
    <3>4. Val(l.query, "security") = v
      BY <3>1, <3>3 DEF Val, @@, :>
    <3> QED  BY <3>2, <3>4
  <2> QED  BY <2>2, <2>3 DEF SaysTls
<1>5. CASE b.type \in {"hysteria2", "tuic"}
  <2>1. l.scheme \in {"hysteria2", "tuic"}
    <3>1. l = GenQUIC(b)
      BY <1>5, GeneratorOf
    <3> HIDE DEF l
    <3> QED  BY <3>1, LinkFields DEF GenQUIC
  <2> QED  BY <2>1 DEF SaysTls
<1>6. CASE b.type = "naive"
  <2>1. l.scheme = "naive+https"
    BY <1>6, GeneratorOf, LinkFields DEF GenNaive
  <2> QED  BY <2>1 DEF SaysTls
<1>7. CASE b.type = "anytls"
  <2>1. l.scheme = "anytls"
    BY <1>7, GeneratorOf, LinkFields DEF GenAnyTLS
  <2> QED  BY <2>1 DEF SaysTls
<1> QED  BY <1>2, <1>3, <1>4, <1>5, <1>6, <1>7 DEF Encrypted

-----------------------------------------------------------------------------
(* Round trips.  A function without empty values is known by its values.   *)

Lean(f) ==
  /\ f = [k \in DOMAIN f |-> f[k]]
  /\ \A k \in DOMAIN f : f[k] # Empty

\* Two of them with the same values are the same.
LEMMA LeanEqual ==
  ASSUME NEW f, NEW g, Lean(f), Lean(g), \A k : Val(f, k) = Val(g, k)
  PROVE  f = g
<1>1. \A k : k \in DOMAIN f <=> Val(f, k) # Empty
  BY DEF Lean, Val
<1>2. \A k : k \in DOMAIN g <=> Val(g, k) # Empty
  BY DEF Lean, Val
<1>3. DOMAIN f = DOMAIN g
  BY <1>1, <1>2
<1>4. \A k \in DOMAIN f : f[k] = g[k]
  BY <1>3 DEF Val
<1> QED  BY <1>3, <1>4 DEF Lean

\* The value v under k, and nothing else (nor that, if v is empty).
LEMMA LeanSet ==
  ASSUME NEW k, NEW v
  PROVE  /\ Lean(Set(k, v))
         /\ \A x : Val(Set(k, v), x) = IF x = k THEN v ELSE Empty
BY DEF Lean, Set, Val, :>, None

\* A key with a value.
LEMMA LeanKey ==
  ASSUME NEW k, NEW v, v # Empty
  PROVE  /\ Lean(k :> v)
         /\ \A x : Val(k :> v, x) = IF x = k THEN v ELSE Empty
BY DEF Lean, Val, :>

\* No key.
LEMMA LeanNone == Lean(None) /\ \A x : Val(None, x) = Empty
BY DEF Lean, Val, None

\* A boolean.
LEMMA LeanFlag ==
  ASSUME NEW k, NEW condition
  PROVE  /\ Lean(Flag(k, condition))
         /\ condition => \A x : Val(Flag(k, condition), x) = IF x = k THEN "1" ELSE Empty
         /\ ~condition => \A x : Val(Flag(k, condition), x) = Empty
BY LeanKey, LeanNone, NotEmpty DEF Flag

\* A copy has the values the table names.
LEMMA LeanCopy ==
  ASSUME NEW m, NEW table
  PROVE  /\ Lean(Copy(m, table))
         /\ \A x : Val(Copy(m, table), x) =
                     IF x \in DOMAIN table THEN Val(m, table[x]) ELSE Empty
BY DEF Lean, Copy, Val

\* A merge has the values of the left side, then those of the right.
LEMMA LeanMerge ==
  ASSUME NEW f, NEW g, Lean(f), Lean(g)
  PROVE  /\ Lean(f @@ g)
         /\ \A x : Val(f @@ g, x) = IF Val(f, x) # Empty THEN Val(f, x) ELSE Val(g, x)
<1>1. Lean(f @@ g)
  BY DEF Lean, @@
<1>2. \A x : Val(f @@ g, x) = IF Val(f, x) # Empty THEN Val(f, x) ELSE Val(g, x)
  BY DEF Lean, @@, Val
<1> QED  BY <1>1, <1>2

\* A profile whose fields are these.
Made(b, type, name, addr, port, stream) ==
  /\ b = Profile(b.type, b.name, b.addr, b.port, b.f, b.stream)
  /\ b.type = type /\ b.name = name /\ b.addr = addr /\ b.port = port
  /\ b.stream = stream

\* Two such profiles with the same bean are the same.
LEMMA MadeEqual ==
  ASSUME NEW b, NEW c, NEW type, NEW name, NEW addr, NEW port, NEW stream,
         Made(b, type, name, addr, port, stream), Made(c, type, name, addr, port, stream),
         Lean(b.f), Lean(c.f), \A k : Val(b.f, k) = Val(c.f, k)
  PROVE  b = c
<1>1. b.f = c.f
  BY LeanEqual
<1> QED  BY <1>1 DEF Made

\* toJson of a parsed profile: the bean with the label's discriminator.
LEMMA JsonMade ==
  ASSUME NEW type, NEW name, NEW addr, NEW port, NEW f, NEW stream, Lean(f),
         NEW b, b = ToJson(Profile(type, name, addr, port, f, stream))
  PROVE  /\ Made(b, type, name, addr, port, IF type \in StreamTypes THEN stream ELSE NilStream)
         /\ Lean(b.f)
         /\ \A k : Val(b.f, k) = IF k \in DiscriminatorKeys(type)
                                 THEN Val(Discriminator(type), k) ELSE Val(f, k)
<1> DEFINE d == Discriminator(type)
           keys == DiscriminatorKeys(type)
           rest == [k \in DOMAIN f \ keys |-> f[k]]
           s == IF type \in StreamTypes THEN stream ELSE NilStream
<1>1. b = [type |-> type, name |-> name, addr |-> addr, port |-> port,
           f |-> d @@ rest, stream |-> s]
  <2> HIDE DEF d, keys
  <2>1. ToJson(Profile(type, name, addr, port, f, stream)) =
          [Profile(type, name, addr, port, f, stream) EXCEPT !.f = d @@ rest]
    BY DEF ToJson, Profile, d, keys
  <2> HIDE DEF rest
  <2> QED  BY <2>1 DEF Profile
<1>2. Lean(d)
  BY LeanKey, LeanNone, NotEmpty DEF Discriminator, ProxyType
<1>3. Lean(rest) /\ \A k : Val(rest, k) = IF k \in keys THEN Empty ELSE Val(f, k)
  <2> HIDE DEF keys
  <2> QED  BY DEF Lean, Val
<1>4. \A k : k \notin keys => Val(d, k) = Empty
  BY LeanKey, LeanNone, NotEmpty DEF Discriminator, ProxyType, DiscriminatorKeys
<1> HIDE DEF d, keys, rest
<1>5. Lean(d @@ rest)
      /\ \A k : Val(d @@ rest, k) = IF k \in keys THEN Val(d, k) ELSE Val(f, k)
  BY <1>2, <1>3, <1>4, LeanMerge
<1>6. Made(b, type, name, addr, port, s) /\ b.f = d @@ rest
  BY <1>1 DEF Made, Profile
<1> QED  BY <1>5, <1>6 DEF d, keys

\* A profile once it was shared and imported again.
After(q) == ToJson(ParseLink(GenerateLink(q)))

\* A link has the parts it was made of, and its port for one that is missing.
LEMMA LinkParts ==
  ASSUME NEW scheme, NEW form, NEW user, NEW pass, NEW host, NEW port, NEW query, NEW name,
         NEW l, l = Link(scheme, form, user, pass, host, port, query, name)
  PROVE  /\ l.scheme = scheme /\ l.form = form /\ l.user = user /\ l.pass = pass
         /\ l.host = host /\ l.port = port /\ l.query = query /\ l.name = name
         /\ \A default : ValOr(l, "port", default) = IF port = Empty THEN default ELSE port
BY DEF Link, ValOr, Val

\* Each protocol below has what becomes of a profile on a round trip, a lemma
\* that it does, and a lemma that the second time nothing changes.
SSHKeys == {"user", "password", "privateKey", "hostKeyAlgorithms", "clientVersion"}

SSHAfter(q, b) ==
  /\ Made(b, "ssh", Empty, q.addr, IF q.port = Empty THEN "22" ELSE q.port, NilStream)
  /\ Lean(b.f)
  /\ \A k : Val(b.f, k) = IF k \in SSHKeys THEN Val(q.f, k) ELSE Empty

\* What an ssh link gives back.
LEMMA SSHTrip ==
  ASSUME NEW q, q.type = "ssh", ParseLink(GenerateLink(q)) # Rejected
  PROVE  SSHAfter(q, After(q))
<1> DEFINE l == GenSSH(q)
           f == Set("user", l.user) @@ Set("password", l.pass)
                  @@ Copy(l.query, [privateKey |-> "private_key",
                                    clientVersion |-> "client_version",
                                    hostKeyAlgorithms |-> "host_key_algorithms"])
           port == IF q.port = Empty THEN "22" ELSE q.port
<1>1. /\ l.scheme = "ssh" /\ l.user = Val(q.f, "user") /\ l.pass = Val(q.f, "password")
      /\ l.host = q.addr
      /\ l.query = Copy(q.f, [private_key |-> "privateKey",
                              host_key_algorithms |-> "hostKeyAlgorithms",
                              client_version |-> "clientVersion"])
      /\ ValOr(l, "port", "22") = port
  BY LinkParts DEF GenSSH
<1>2. GenerateLink(q) = l
  BY DEF GenerateLink, DecodeBean
<1> HIDE DEF l
<1>3. ParseLink(l) = Profile("ssh", Empty, q.addr, port, f, NilStream)
  BY <1>1, <1>2, ParserOf DEF ParseSSH
<1>4. Lean(f)
  BY LeanSet, LeanCopy, LeanMerge
<1>5. \A k : Val(f, k) = IF k \in SSHKeys THEN Val(q.f, k) ELSE Empty
  BY <1>1, LeanSet, LeanCopy, LeanMerge DEF SSHKeys
<1> HIDE DEF f, port
<1>6. DiscriminatorKeys("ssh") = {}
  BY DEF DiscriminatorKeys
<1> QED  BY <1>2, <1>3, <1>4, <1>5, <1>6, JsonMade DEF After, SSHAfter, port, StreamTypes

\* Twice is once.
LEMMA SSHSettles ==
  ASSUME NEW q, NEW b, NEW c, SSHAfter(q, b), SSHAfter(b, c)
  PROVE  c = b
<1>1. Made(c, "ssh", Empty, q.addr, IF q.port = Empty THEN "22" ELSE q.port, NilStream)
  BY NotEmpty DEF SSHAfter, Made
<1>2. \A k : Val(c.f, k) = Val(b.f, k)
  BY DEF SSHAfter
<1> QED  BY <1>1, <1>2, MadeEqual DEF SSHAfter

\* A boolean of a link: only "1" survives.
One(v) == IF v = "1" THEN "1" ELSE Empty

NaiveValue(q, k) ==
  IF k \in {"username", "password", "alpn"} THEN Val(q.f, k)
  ELSE IF k \in {"allowInsecure", "quic"} THEN One(Val(q.f, k))
  ELSE IF k = "sni" THEN (IF Val(q.f, "sni") = Empty THEN q.addr ELSE Val(q.f, "sni"))
  ELSE Empty

NaiveAfter(q, b) ==
  /\ Made(b, "naive", Empty, q.addr, IF q.port = Empty THEN "443" ELSE q.port, NilStream)
  /\ Lean(b.f) /\ q.addr # Empty
  /\ \A k : Val(b.f, k) = NaiveValue(q, k)

\* What a naive link gives back: the SNI is the host if there was none.
LEMMA NaiveTrip ==
  ASSUME NEW q, q.type = "naive", ParseLink(GenerateLink(q)) # Rejected
  PROVE  NaiveAfter(q, After(q))
<1> DEFINE l == GenNaive(q)
           sni == ValOr(l.query, "sni", l.host)
           insecure == "1" \in {Val(l.query, "insecure"), Val(l.query, "allow_insecure")}
           quic == Val(l.query, "quic") = "1"
           tls == "sni" :> sni @@ Copy(l.query, [alpn |-> "alpn"])
                    @@ Flag("allowInsecure", insecure)
           f == Set("username", l.user) @@ Set("password", l.pass)
                  @@ tls @@ Flag("quic", quic)
           port == IF q.port = Empty THEN "443" ELSE q.port
<1>1. /\ l.scheme = "naive+https" /\ l.user = Val(q.f, "username")
      /\ l.pass = Val(q.f, "password") /\ l.host = q.addr
      /\ l.query = Copy(q.f, [sni |-> "sni", allow_insecure |-> "allowInsecure",
                              alpn |-> "alpn", quic |-> "quic"])
      /\ ValOr(l, "port", "443") = port
  BY LinkParts DEF GenNaive
<1>2. GenerateLink(q) = l
  BY DEF GenerateLink, DecodeBean
<1> HIDE DEF l
<1>3. /\ l.host # Empty
      /\ ParseLink(l) = Profile("naive", Empty, l.host, port, f, NilStream)
  BY <1>1, <1>2, ParserOf DEF ParseNaive, TlsOfQuery
<1>4. /\ Val(l.query, "sni") = Val(q.f, "sni") /\ Val(l.query, "alpn") = Val(q.f, "alpn")
      /\ Val(l.query, "allow_insecure") = Val(q.f, "allowInsecure")
      /\ Val(l.query, "insecure") = Empty
      /\ Val(l.query, "quic") = Val(q.f, "quic")
  BY <1>1, LeanCopy
<1>5. /\ sni = (IF Val(q.f, "sni") = Empty THEN q.addr ELSE Val(q.f, "sni")) /\ sni # Empty
      /\ insecure <=> Val(q.f, "allowInsecure") = "1"
      /\ quic <=> Val(q.f, "quic") = "1"
  BY <1>1, <1>3, <1>4, NotEmpty DEF ValOr
<1> HIDE DEF sni, insecure, quic
<1>6. /\ Lean(tls)
      /\ \A k : Val(tls, k)
           = IF k \in {"alpn", "allowInsecure", "sni"} THEN NaiveValue(q, k) ELSE Empty
  BY <1>4, <1>5, LeanKey, LeanCopy, LeanFlag, LeanMerge DEF NaiveValue, One
<1> HIDE DEF tls
<1>7. Lean(f) /\ \A k : Val(f, k) = NaiveValue(q, k)
  BY <1>1, <1>5, <1>6, LeanSet, LeanFlag, LeanMerge DEF NaiveValue, One
<1> HIDE DEF f, port
<1>8. DiscriminatorKeys("naive") = {}
  BY DEF DiscriminatorKeys
<1> QED  BY <1>1, <1>2, <1>3, <1>7, <1>8, JsonMade DEF After, NaiveAfter, port, StreamTypes

\* Twice is once.
LEMMA NaiveSettles ==
  ASSUME NEW q, NEW b, NEW c, NaiveAfter(q, b), NaiveAfter(b, c)
  PROVE  c = b
<1>1. Made(c, "naive", Empty, q.addr, IF q.port = Empty THEN "443" ELSE q.port, NilStream)
  BY NotEmpty DEF NaiveAfter, Made
<1>2. \A k : Val(c.f, k) = Val(b.f, k)
  BY NotEmpty DEF NaiveAfter, NaiveValue, One, Made
<1> QED  BY <1>1, <1>2, MadeEqual DEF NaiveAfter

AnyTLSValue(q, k) ==
  IF k \in {"password", "minIdleSession", "clientMetadata"} THEN Val(q.f, k)
  ELSE IF k = "allowInsecure" THEN One(Val(q.f, k))
  ELSE IF k = "sni" THEN (IF Val(q.f, "sni") = Empty THEN q.addr ELSE Val(q.f, "sni"))
  ELSE Empty

AnyTLSAfter(q, b) ==
  /\ Made(b, "anytls", Empty, q.addr, IF q.port = Empty THEN "443" ELSE q.port, NilStream)
  /\ Lean(b.f) /\ q.addr # Empty
  /\ \A k : Val(b.f, k) = AnyTLSValue(q, k)

\* What an anytls link gives back.
LEMMA AnyTLSTrip ==
  ASSUME NEW q, q.type = "anytls", ParseLink(GenerateLink(q)) # Rejected
  PROVE  AnyTLSAfter(q, After(q))
<1> DEFINE l == GenAnyTLS(q)
           sni == ValOr(l.query, "sni", l.host)
           insecure == "1" \in {Val(l.query, "insecure"), Val(l.query, "allow_insecure")}
           tls == "sni" :> sni @@ Copy(l.query, [alpn |-> "alpn"])
                    @@ Flag("allowInsecure", insecure)
           f == Set("password", l.user) @@ tls
                  @@ Copy(l.query, [minIdleSession |-> "min_idle_session",
                                    clientMetadata |-> "client_metadata"])
           port == IF q.port = Empty THEN "443" ELSE q.port
<1>1. /\ l.scheme = "anytls" /\ l.user = Val(q.f, "password") /\ l.host = q.addr
      /\ l.form = "user"
      /\ l.query = Copy(q.f, [sni |-> "sni", allow_insecure |-> "allowInsecure",
                              min_idle_session |-> "minIdleSession",
                              client_metadata |-> "clientMetadata"])
      /\ ValOr(l, "port", "443") = port
  BY LinkParts DEF GenAnyTLS
<1>2. GenerateLink(q) = l
  BY DEF GenerateLink, DecodeBean
<1> HIDE DEF l
<1>3. /\ l.host # Empty
      /\ ParseLink(l) = Profile("anytls", Empty, l.host, port, f, NilStream)
  BY <1>1, <1>2, ParserOf DEF ParseAnyTLS, TlsOfQuery
<1>4. /\ Val(l.query, "sni") = Val(q.f, "sni") /\ Val(l.query, "alpn") = Empty
      /\ Val(l.query, "allow_insecure") = Val(q.f, "allowInsecure")
      /\ Val(l.query, "insecure") = Empty
      /\ Val(l.query, "min_idle_session") = Val(q.f, "minIdleSession")
      /\ Val(l.query, "client_metadata") = Val(q.f, "clientMetadata")
  BY <1>1, LeanCopy
<1>5. /\ sni = (IF Val(q.f, "sni") = Empty THEN q.addr ELSE Val(q.f, "sni")) /\ sni # Empty
      /\ insecure <=> Val(q.f, "allowInsecure") = "1"
  BY <1>1, <1>3, <1>4, NotEmpty DEF ValOr
<1> HIDE DEF sni, insecure
<1>6. /\ Lean(tls)
      /\ \A k : Val(tls, k)
           = IF k \in {"allowInsecure", "sni"} THEN AnyTLSValue(q, k) ELSE Empty
  BY <1>4, <1>5, LeanKey, LeanCopy, LeanFlag, LeanMerge DEF AnyTLSValue, One
<1> HIDE DEF tls
<1>7. Lean(f) /\ \A k : Val(f, k) = AnyTLSValue(q, k)
  BY <1>1, <1>4, <1>6, LeanSet, LeanCopy, LeanMerge DEF AnyTLSValue
<1> HIDE DEF f, port
<1>8. DiscriminatorKeys("anytls") = {}
  BY DEF DiscriminatorKeys
<1> QED  BY <1>1, <1>2, <1>3, <1>7, <1>8, JsonMade DEF After, AnyTLSAfter, port, StreamTypes

\* Twice is once.
LEMMA AnyTLSSettles ==
  ASSUME NEW q, NEW b, NEW c, AnyTLSAfter(q, b), AnyTLSAfter(b, c)
  PROVE  c = b
<1>1. Made(c, "anytls", Empty, q.addr, IF q.port = Empty THEN "443" ELSE q.port, NilStream)
  BY NotEmpty DEF AnyTLSAfter, Made
<1>2. \A k : Val(c.f, k) = Val(b.f, k)
  BY NotEmpty DEF AnyTLSAfter, AnyTLSValue, One, Made
<1> QED  BY <1>1, <1>2, MadeEqual DEF AnyTLSAfter

WireGuardValue(q, k) ==
  IF k \in {"privateKey", "peerPublicKey", "peerPreSharedKey", "mtu", "peerKeepAlive",
            "peerReserved"} THEN Val(q.f, k)
  ELSE IF k = "peerAddress" THEN q.addr
  ELSE IF k = "peerPort" THEN (IF q.port = Empty THEN "51820" ELSE q.port)
  ELSE IF k = "address" THEN (IF Val(q.f, k) = Empty THEN "10.0.0.2/32" ELSE Val(q.f, k))
  ELSE IF k = "peerAllowedIPs" THEN (IF Val(q.f, k) = Empty THEN AnyAddress ELSE Val(q.f, k))
  ELSE Empty

WireGuardAfter(q, b) ==
  /\ Made(b, "wireguard", Empty, q.addr, IF q.port = Empty THEN "51820" ELSE q.port, NilStream)
  /\ Lean(b.f)
  /\ \A k : Val(b.f, k) = WireGuardValue(q, k)

\* What a wireguard link gives back: addresses have defaults.
LEMMA WireGuardTrip ==
  ASSUME NEW q, q.type = "wireguard", ParseLink(GenerateLink(q)) # Rejected
  PROVE  WireGuardAfter(q, After(q))
<1> DEFINE l == GenWireGuard(q)
           table == [address |-> "address", peerPublicKey |-> "public_key",
                     peerPreSharedKey |-> "pre_shared_key", peerAllowedIPs |-> "allowed_ips",
                     mtu |-> "mtu", peerKeepAlive |-> "keepalive", peerReserved |-> "reserved"]
           said == Copy(l.query, table)
           port == IF q.port = Empty THEN "51820" ELSE q.port
           f == Set("privateKey", l.user) @@ "peerAddress" :> l.host @@ "peerPort" :> port @@ said
                  @@ "address" :> "10.0.0.2/32" @@ "peerAllowedIPs" :> AnyAddress
<1>1. /\ l.scheme = "wireguard" /\ l.user = Val(q.f, "privateKey") /\ l.host = q.addr
      /\ l.form = "user"
      /\ l.query = Copy(q.f, [address |-> "address", public_key |-> "peerPublicKey",
                              pre_shared_key |-> "peerPreSharedKey",
                              allowed_ips |-> "peerAllowedIPs", mtu |-> "mtu",
                              keepalive |-> "peerKeepAlive", reserved |-> "peerReserved"])
      /\ ValOr(l, "port", "51820") = port
  BY LinkParts DEF GenWireGuard
<1>2. GenerateLink(q) = l
  BY DEF GenerateLink, DecodeBean
<1> HIDE DEF l
<1>3. /\ l.host # Empty
      /\ ParseLink(l) = Profile("wireguard", Empty, l.host, port, f, NilStream)
  BY <1>1, <1>2, ParserOf DEF ParseWireGuard
<1>4. /\ Val(l.query, "address") = Val(q.f, "address")
      /\ Val(l.query, "public_key") = Val(q.f, "peerPublicKey")
      /\ Val(l.query, "pre_shared_key") = Val(q.f, "peerPreSharedKey")
      /\ Val(l.query, "allowed_ips") = Val(q.f, "peerAllowedIPs")
      /\ Val(l.query, "mtu") = Val(q.f, "mtu")
      /\ Val(l.query, "keepalive") = Val(q.f, "peerKeepAlive")
      /\ Val(l.query, "reserved") = Val(q.f, "peerReserved")
  BY <1>1, LeanCopy
<1>5. Lean(said) /\ \A k : Val(said, k) = IF k \in DOMAIN table THEN Val(q.f, k) ELSE Empty
  BY <1>4, LeanCopy
<1>6. DOMAIN table = {"address", "peerPublicKey", "peerPreSharedKey", "peerAllowedIPs", "mtu",
                      "peerKeepAlive", "peerReserved"}
  OBVIOUS
<1>7. AnyAddress # Empty /\ "10.0.0.2/32" # Empty /\ "51820" # Empty
  BY Zenon DEF AnyAddress, Empty
<1> HIDE DEF table, said
<1>8. port # Empty
  BY <1>7
<1> HIDE DEF port
<1>9. Lean(f) /\ \A k : Val(f, k) = WireGuardValue(q, k)
  BY <1>1, <1>3, <1>5, <1>6, <1>7, <1>8, LeanSet, LeanKey, LeanMerge DEF WireGuardValue, port
<1> HIDE DEF f
<1>10. DiscriminatorKeys("wireguard") = {}
  BY DEF DiscriminatorKeys
<1> QED  BY <1>1, <1>2, <1>3, <1>9, <1>10, JsonMade DEF After, WireGuardAfter, port, StreamTypes

\* Twice is once.
LEMMA WireGuardSettles ==
  ASSUME NEW q, NEW b, NEW c, WireGuardAfter(q, b), WireGuardAfter(b, c)
  PROVE  c = b
<1>1. AnyAddress # Empty /\ "10.0.0.2/32" # Empty
  BY Zenon DEF AnyAddress, Empty
<1>2. Made(c, "wireguard", Empty, q.addr, IF q.port = Empty THEN "51820" ELSE q.port, NilStream)
  BY NotEmpty DEF WireGuardAfter, Made
<1>3. \A k : Val(c.f, k) = Val(b.f, k)
  BY <1>1, NotEmpty DEF WireGuardAfter, WireGuardValue, Made
<1> QED  BY <1>2, <1>3, MadeEqual DEF WireGuardAfter

\* The port of most links: none, or 0, means 443.
Port443(port) == IF port \in {Empty, "0"} THEN "443" ELSE port

\* That is what the parser reads from the link.
LEMMA PortIs443 ==
  ASSUME NEW scheme, NEW form, NEW user, NEW pass, NEW host, NEW port, NEW query, NEW name
  PROVE  PortOr(Link(scheme, form, user, pass, host, port, query, name), "443") = Port443(port)
BY DEF Link, PortOr, Port443

TuicValue(q, k) ==
  IF k \in {"uuid", "password", "congestionControl", "alpn", "sni", "udpRelayMode"}
  THEN Val(q.f, k)
  ELSE IF k \in {"allowInsecure", "disableSni"} THEN One(Val(q.f, k))
  ELSE IF k = "proxy_type" THEN "1" ELSE Empty

TuicAfter(q, b) ==
  /\ Made(b, "tuic", q.name, q.addr, Port443(q.port), NilStream)
  /\ Lean(b.f)
  /\ \A k : Val(b.f, k) = TuicValue(q, k)

\* What a tuic link gives back.
LEMMA TuicTrip ==
  ASSUME NEW q, q.type = "tuic", Labelled(q), ParseLink(GenerateLink(q)) # Rejected
  PROVE  TuicAfter(q, After(q))
<1> DEFINE form == IF Val(q.f, "password") = Empty THEN "user" ELSE "pair"
           query == Copy(q.f, [sni |-> "sni", congestion_control |-> "congestionControl",
                               alpn |-> "alpn", udp_relay_mode |-> "udpRelayMode",
                               allow_insecure |-> "allowInsecure", disable_sni |-> "disableSni"])
           l == Link("tuic", form, Val(q.f, "uuid"), Val(q.f, "password"), q.addr, q.port,
                     query, q.name)
           insecure == Val(l.query, "allow_insecure") = "1"
           disable == Val(l.query, "disable_sni") = "1"
           said == Copy(l.query, [congestionControl |-> "congestion_control", alpn |-> "alpn",
                                  sni |-> "sni", udpRelayMode |-> "udp_relay_mode"])
           f == ProxyType("tuic") @@ Set("uuid", l.user) @@ Set("password", l.pass) @@ said
                  @@ Flag("allowInsecure", insecure) @@ Flag("disableSni", disable)
<1>1. GenerateLink(q) = l
  <2>1. Val(q.f, "proxy_type") # "3"
    BY DiscriminatorValues
  <2> HIDE DEF query, form
  <2> QED  BY <2>1, GeneratorOf DEF GenQUIC, query, form
<1>2. /\ Val(query, "sni") = Val(q.f, "sni") /\ Val(query, "alpn") = Val(q.f, "alpn")
      /\ Val(query, "congestion_control") = Val(q.f, "congestionControl")
      /\ Val(query, "udp_relay_mode") = Val(q.f, "udpRelayMode")
      /\ Val(query, "allow_insecure") = Val(q.f, "allowInsecure")
      /\ Val(query, "disable_sni") = Val(q.f, "disableSni")
  BY LeanCopy
<1> HIDE DEF query, form
<1>3. /\ l.scheme = "tuic" /\ l.user = Val(q.f, "uuid") /\ l.pass = Val(q.f, "password")
      /\ l.host = q.addr /\ l.query = query /\ l.name = q.name
      /\ PortOr(l, "443") = Port443(q.port)
  BY LinkParts, PortIs443
<1> HIDE DEF l
<1>4. ParseLink(l) = Profile("tuic", q.name, q.addr, Port443(q.port), f, NilStream)
  BY <1>1, <1>3, ParserOf DEF ParseQUIC
<1>5. /\ insecure <=> Val(q.f, "allowInsecure") = "1"
      /\ disable <=> Val(q.f, "disableSni") = "1"
  BY <1>2, <1>3
<1>6. Lean(said) /\ \A k : Val(said, k) =
        IF k \in {"congestionControl", "alpn", "sni", "udpRelayMode"} THEN Val(q.f, k) ELSE Empty
  BY <1>2, <1>3, LeanCopy
<1>7. ProxyType("tuic") = "proxy_type" :> "1"
  BY DEF ProxyType
<1> HIDE DEF insecure, disable, said
<1>8. Lean(f) /\ \A k : Val(f, k) = TuicValue(q, k)
  BY <1>3, <1>5, <1>6, <1>7, LeanSet, LeanKey, LeanFlag, LeanMerge, NotEmpty DEF TuicValue, One
<1> HIDE DEF f
<1>9. DiscriminatorKeys("tuic") = {"proxy_type"}
  BY DEF DiscriminatorKeys
<1>10. Val(Discriminator("tuic"), "proxy_type") = "1"
  BY <1>7, ValOfKey DEF Discriminator
<1>11. \A k \in {"proxy_type"} : TuicValue(q, k) = "1"
  BY DEF TuicValue
<1> QED  BY <1>1, <1>4, <1>8, <1>9, <1>10, <1>11, JsonMade DEF After, TuicAfter, StreamTypes

\* Twice is once.
LEMMA TuicSettles ==
  ASSUME NEW q, NEW b, NEW c, TuicAfter(q, b), TuicAfter(b, c)
  PROVE  c = b
<1>1. Made(c, "tuic", q.name, q.addr, Port443(q.port), NilStream)
  BY NotEmpty DEF TuicAfter, Made, Port443
<1>2. \A k : Val(c.f, k) = Val(b.f, k)
  BY NotEmpty DEF TuicAfter, TuicValue, One, Made
<1> QED  BY <1>1, <1>2, MadeEqual DEF TuicAfter

HysteriaValue(q, k) ==
  IF k \in {"password", "hopPort", "obfsPassword", "sni"} THEN Val(q.f, k)
  ELSE IF k = "allowInsecure" THEN (IF Val(q.f, k) \in {"1", "true"} THEN "1" ELSE Empty)
  ELSE IF k = "proxy_type" THEN "3" ELSE Empty

HysteriaAfter(q, b) ==
  /\ Made(b, "hysteria2", q.name, q.addr, Port443(q.port), NilStream)
  /\ Lean(b.f)
  /\ \A k : Val(b.f, k) = HysteriaValue(q, k)

\* What a hysteria2 link gives back.
LEMMA HysteriaTrip ==
  ASSUME NEW q, q.type = "hysteria2", Labelled(q), ParseLink(GenerateLink(q)) # Rejected
  PROVE  HysteriaAfter(q, After(q))
<1> DEFINE form == IF Val(q.f, "password") = Empty THEN "none" ELSE "user"
           query == Copy(q.f, "sni" :> "sni" @@ "mport" :> "hopPort"
                                @@ "obfs-password" :> "obfsPassword"
                                @@ "insecure" :> "allowInsecure")
           l == Link("hysteria2", form, Val(q.f, "password"), Empty, q.addr, q.port,
                     query, q.name)
           insecure == Val(l.query, "insecure") \in {"1", "true"}
           said == Copy(l.query, "hopPort" :> "mport" @@ "obfsPassword" :> "obfs-password"
                                   @@ "sni" :> "sni")
           f == ProxyType("hysteria2") @@ Set("password", l.user) @@ said
                  @@ Flag("allowInsecure", insecure)
<1>1. GenerateLink(q) = l
  <2>1. Val(q.f, "proxy_type") = "3"
    BY DiscriminatorValues
  <2> HIDE DEF query, form
  <2> QED  BY <2>1, GeneratorOf DEF GenQUIC, query, form
<1>2. /\ Val(query, "sni") = Val(q.f, "sni") /\ Val(query, "mport") = Val(q.f, "hopPort")
      /\ Val(query, "obfs-password") = Val(q.f, "obfsPassword")
      /\ Val(query, "insecure") = Val(q.f, "allowInsecure")
  <2> DEFINE table == "sni" :> "sni" @@ "mport" :> "hopPort"
                        @@ "obfs-password" :> "obfsPassword" @@ "insecure" :> "allowInsecure"
  <2>1. /\ {"sni", "mport", "obfs-password", "insecure"} \subseteq DOMAIN table
        /\ table["sni"] = "sni" /\ table["mport"] = "hopPort"
        /\ table["obfs-password"] = "obfsPassword" /\ table["insecure"] = "allowInsecure"
    BY DEF :>, @@
  <2> HIDE DEF table
  <2> QED  BY <2>1, LeanCopy DEF table
<1> HIDE DEF query
<1>3. /\ l.scheme = "hysteria2" /\ l.user = Val(q.f, "password") /\ l.form # "pair"
      /\ l.host = q.addr /\ l.query = query /\ l.name = q.name
      /\ PortOr(l, "443") = Port443(q.port)
  BY LinkParts, PortIs443
<1> HIDE DEF l, form
<1>4. ParseLink(l) = Profile("hysteria2", q.name, q.addr, Port443(q.port), f, NilStream)
  BY <1>1, <1>3, ParserOf DEF ParseQUIC
<1>5. insecure <=> Val(q.f, "allowInsecure") \in {"1", "true"}
  BY <1>2, <1>3
<1>6. Lean(said) /\ \A k : Val(said, k) =
        IF k \in {"hopPort", "obfsPassword", "sni"} THEN Val(q.f, k) ELSE Empty
  <2> DEFINE table == "hopPort" :> "mport" @@ "obfsPassword" :> "obfs-password" @@ "sni" :> "sni"
  <2>1. /\ DOMAIN table = {"hopPort", "obfsPassword", "sni"}
        /\ table["hopPort"] = "mport" /\ table["obfsPassword"] = "obfs-password"
        /\ table["sni"] = "sni"
    BY DEF :>, @@
  <2> HIDE DEF table
  <2> QED  BY <1>2, <1>3, <2>1, LeanCopy DEF table
<1>7. ProxyType("hysteria2") = "proxy_type" :> "3"
  BY DEF ProxyType
<1> HIDE DEF insecure, said
<1>8. Lean(f) /\ \A k : Val(f, k) = HysteriaValue(q, k)
  BY <1>3, <1>5, <1>6, <1>7, LeanSet, LeanKey, LeanFlag, LeanMerge, NotEmpty DEF HysteriaValue
<1> HIDE DEF f
<1>9. DiscriminatorKeys("hysteria2") = {"proxy_type"}
  BY DEF DiscriminatorKeys
<1>10. Val(Discriminator("hysteria2"), "proxy_type") = "3"
  BY <1>7, ValOfKey DEF Discriminator
<1>11. \A k \in {"proxy_type"} : HysteriaValue(q, k) = "3"
  BY DEF HysteriaValue
<1> QED  BY <1>1, <1>4, <1>8, <1>9, <1>10, <1>11, JsonMade DEF After, HysteriaAfter, StreamTypes

\* Twice is once.
LEMMA HysteriaSettles ==
  ASSUME NEW q, NEW b, NEW c, HysteriaAfter(q, b), HysteriaAfter(b, c)
  PROVE  c = b
<1>1. Made(c, "hysteria2", q.name, q.addr, Port443(q.port), NilStream)
  BY NotEmpty DEF HysteriaAfter, Made, Port443
<1>2. Empty # "true"
  BY Zenon DEF Empty
<1>3. \A k : Val(c.f, k) = Val(b.f, k)
  BY <1>2, NotEmpty DEF HysteriaAfter, HysteriaValue, Made
<1> QED  BY <1>1, <1>3, MadeEqual DEF HysteriaAfter

ShadowsocksValue(q, k) ==
  IF k \in {"method", "password"} THEN Val(q.f, k)
  ELSE IF k = "plugin" THEN PluginOf(q.f) ELSE Empty

ShadowsocksAfter(q, b) ==
  /\ Made(b, "shadowsocks", q.name, q.addr, IF q.port = Empty THEN "0" ELSE q.port, "net" :> "tcp")
  /\ Lean(b.f)
  /\ \A k : Val(b.f, k) = ShadowsocksValue(q, k)

\* A plugin is renamed once.
LEMMA PluginSettles ==
  ASSUME NEW f, NEW g, Val(g, "plugin") = PluginOf(f)
  PROVE  PluginOf(g) = PluginOf(f)
<1>1. "obfs-local;o" # "simple-obfs;o"
  BY Zenon
<1> QED  BY <1>1, Zenon DEF PluginOf

\* It depends on the plugin alone.
LEMMA PluginOfValue ==
  ASSUME NEW f, NEW g, Val(g, "plugin") = Val(f, "plugin")
  PROVE  PluginOf(g) = PluginOf(f)
BY Zenon DEF PluginOf

\* What a shadowsocks link gives back.
LEMMA ShadowsocksTrip ==
  ASSUME NEW q, q.type = "shadowsocks", ParseLink(GenerateLink(q)) # Rejected
  PROVE  ShadowsocksAfter(q, After(q))
<1> DEFINE form == IF Val(q.f, "method") \in Methods2022 THEN "pair" ELSE "b64"
           l == Link("ss", form, Val(q.f, "method"), Val(q.f, "password"), q.addr, q.port,
                     Copy(q.f, [plugin |-> "plugin"]), q.name)
           plugin == PluginOf(l.query)
           f == "method" :> l.user @@ "password" :> l.pass @@ Set("plugin", plugin)
           port == IF q.port = Empty THEN "0" ELSE q.port
<1>1. GenerateLink(q) = l
  BY DEF GenerateLink, DecodeBean, GenShadowsocks
<1>2. form \in {"pair", "b64"}
  OBVIOUS
<1> HIDE DEF form
<1>3. /\ l.scheme = "ss" /\ l.form \in {"pair", "b64"}
      /\ l.user = Val(q.f, "method") /\ l.pass = Val(q.f, "password")
      /\ l.host = q.addr /\ l.query = Copy(q.f, [plugin |-> "plugin"]) /\ l.name = q.name
      /\ ValOr(l, "port", "0") = port
  BY <1>2, LinkParts
<1>4. Val(l.query, "plugin") = Val(q.f, "plugin")
  BY <1>3, LeanCopy
<1> HIDE DEF l
<1>5. plugin = PluginOf(q.f)
  BY <1>4, PluginOfValue
<1> HIDE DEF plugin
<1>6. /\ l.user # Empty /\ l.pass # Empty
      /\ ParseLink(l) = Profile("shadowsocks", q.name, q.addr, port, f, "net" :> "tcp")
  BY <1>1, <1>3, ParserOf DEF ParseShadowsocks, plugin
<1>7. Lean(f) /\ \A k : Val(f, k) = ShadowsocksValue(q, k)
  BY <1>3, <1>5, <1>6, LeanSet, LeanKey, LeanMerge DEF ShadowsocksValue
<1> HIDE DEF f, port
<1>8. DiscriminatorKeys("shadowsocks") = {}
  BY DEF DiscriminatorKeys
<1>9. "shadowsocks" \in StreamTypes
  BY DEF StreamTypes
<1> QED  BY <1>1, <1>6, <1>7, <1>8, <1>9, JsonMade DEF After, ShadowsocksAfter, port

\* Twice is once.
LEMMA ShadowsocksSettles ==
  ASSUME NEW q, NEW b, NEW c, ShadowsocksAfter(q, b), ShadowsocksAfter(b, c)
  PROVE  c = b
<1>1. Made(c, "shadowsocks", q.name, q.addr, IF q.port = Empty THEN "0" ELSE q.port, "net" :> "tcp")
  BY NotEmpty DEF ShadowsocksAfter, Made
<1>2. PluginOf(b.f) = PluginOf(q.f)
  BY PluginSettles DEF ShadowsocksAfter, ShadowsocksValue
<1>3. \A k : Val(c.f, k) = Val(b.f, k)
  BY <1>2 DEF ShadowsocksAfter, ShadowsocksValue
<1> QED  BY <1>1, <1>3, MadeEqual DEF ShadowsocksAfter

HttpValue(q, k) ==
  IF k = "username" THEN Val(q.f, k)
  ELSE IF k = "password" THEN (IF Val(q.f, "username") = Empty THEN Empty ELSE Val(q.f, k))
  ELSE IF k = "socks_http_type" THEN "2" ELSE Empty

HttpStream(q) ==
  "net" :> "tcp" @@ Set("sec", IF Val(Stream(q), "sec") = "tls" THEN "tls" ELSE Empty)

HttpAfter(q, b) ==
  /\ Made(b, "http", q.name, q.addr, IF q.port \in {Empty, "0"} THEN "1080" ELSE q.port,
          HttpStream(q))
  /\ Lean(b.f)
  /\ \A k : Val(b.f, k) = HttpValue(q, k)

\* The link of a socks profile is refused: its scheme is "socks1".
LEMMA SocksRefused ==
  ASSUME NEW q, q.type = "socks", Labelled(q)
  PROVE  ParseLink(GenerateLink(q)) = Rejected
<1>1. GenerateLink(q) = GenSocksHTTP(q)
  BY GeneratorOf
<1>2. Val(q.f, "socks_http_type") = "1"
  BY DiscriminatorValues
<1>3. GenSocksHTTP(q).scheme = "socks1"
  BY <1>2 DEF GenSocksHTTP, Link
<1> HIDE DEF GenSocksHTTP
<1> QED  BY <1>1, <1>3, ParserOf

\* A stream with a network is not the nil stream.
LEMMA StreamKept ==
  ASSUME NEW b, Val(b.stream, "net") # Empty
  PROVE  Stream(b) = b.stream
<1>1. Val(NilStream, "net") = Empty
  BY ValOfKey DEF NilStream
<1> HIDE DEF NilStream
<1> QED  BY <1>1 DEF Stream

\* The network every parser knows.
LEMMA TcpIsSaid == "tcp" # Empty
BY Zenon DEF Empty

\* What an http link gives back: no password without a user, and tls as https.
LEMMA HttpTrip ==
  ASSUME NEW q, q.type = "http", Labelled(q), ParseLink(GenerateLink(q)) # Rejected
  PROVE  HttpAfter(q, After(q))
<1> DEFINE tls == Val(Stream(q), "sec") = "tls"
           scheme == IF tls THEN "https" ELSE "http"
           user == Val(q.f, "username")
           pass == IF user = Empty THEN Empty ELSE Val(q.f, "password")
           form == IF user = Empty THEN "none" ELSE IF Val(q.f, "password") = Empty THEN "user" ELSE "pair"
           l == Link(scheme, form, user, pass, q.addr, q.port, None, q.name)
           f == Set("socks_http_type", "2") @@ Set("username", l.user) @@ Set("password", l.pass)
           stream == "net" :> "tcp"
                       @@ Set("sec", IF l.scheme = "https" THEN "tls" ELSE Val(l.query, "security"))
                       @@ Set("sni", Val(l.query, "sni"))
           port == IF q.port \in {Empty, "0"} THEN "1080" ELSE q.port
<1>1. GenerateLink(q) = l
  <2>1. GenerateLink(q) = GenSocksHTTP(q)
    BY GeneratorOf
  <2>2. Val(q.f, "socks_http_type") = "2"
    BY DiscriminatorValues
  <2> HIDE DEF scheme, user, pass, form
  <2>3. GenSocksHTTP(q) = l
    BY <2>2, Zenon DEF GenSocksHTTP, scheme, user, pass, form
  <2> QED  BY <2>1, <2>3
<1>2. scheme \in {"http", "https"} /\ (scheme = "https" <=> tls)
  OBVIOUS
<1> HIDE DEF scheme, form, tls
<1>3. /\ l.scheme = scheme /\ l.user = user /\ l.pass = pass
      /\ l.host = q.addr /\ l.query = None /\ l.name = q.name
      /\ PortOr(l, "1080") = port
  BY LinkParts DEF PortOr, Link
<1> HIDE DEF l
<1>4. stream = HttpStream(q)
  <2>1. Val(l.query, "security") = Empty /\ Val(l.query, "sni") = Empty
    BY <1>3, LeanNone
  <2>2. Set("sni", Empty) = None
    BY DEF Set
  <2> DEFINE s == "net" :> "tcp" @@ Set("sec", IF tls THEN "tls" ELSE Empty)
  <2>3. Lean(s)
    BY LeanKey, LeanSet, LeanMerge, TcpIsSaid
  <2>4. stream = s @@ None
    BY <1>2, <1>3, <2>1, <2>2
  <2>5. s = HttpStream(q)
    BY DEF HttpStream, tls
  <2> HIDE DEF s, stream
  <2>6. s @@ None = s
    BY <2>3, LeanNone, LeanMerge, LeanEqual
  <2> QED  BY <2>4, <2>5, <2>6
<1> HIDE DEF stream
<1>5. ParseLink(l) = Profile("http", q.name, q.addr, port, f, stream)
  BY <1>1, <1>2, <1>3, ParserOf DEF ParseSocksHTTP, stream
<1>6. Lean(f) /\ \A k : Val(f, k) = HttpValue(q, k)
  BY <1>3, LeanSet, LeanMerge, NotEmpty DEF HttpValue
<1> HIDE DEF f, port
<1>7. /\ DiscriminatorKeys("http") = {"socks_http_type"}
      /\ Discriminator("http") = "socks_http_type" :> "2"
  BY DEF DiscriminatorKeys, Discriminator
<1>8. Val(Discriminator("http"), "socks_http_type") = "2"
  BY <1>7, ValOfKey
<1>9. "http" \in StreamTypes /\ HttpValue(q, "socks_http_type") = "2"
  BY DEF StreamTypes, HttpValue
<1> QED  BY <1>1, <1>4, <1>5, <1>6, <1>7, <1>8, <1>9, JsonMade DEF After, HttpAfter, port

\* Twice is once.
LEMMA HttpSettles ==
  ASSUME NEW q, NEW b, NEW c, HttpAfter(q, b), HttpAfter(b, c)
  PROVE  c = b
<1>1. "1080" # Empty /\ "1080" # "0"
  BY Zenon DEF Empty
<1>2. Val(Stream(b), "sec") = IF Val(Stream(q), "sec") = "tls" THEN "tls" ELSE Empty
  <2>1. Stream(b) = HttpStream(q)
    <3>1. b.stream = HttpStream(q)
      BY DEF HttpAfter, Made
    <3>2. Val(HttpStream(q), "net") = "tcp"
      BY LeanKey, LeanSet, LeanMerge, TcpIsSaid DEF HttpStream
    <3> HIDE DEF HttpStream
    <3> QED  BY <3>1, <3>2, StreamKept, TcpIsSaid
  <2> QED  BY <2>1, LeanKey, LeanSet, LeanMerge, TcpIsSaid, NotEmpty DEF HttpStream
<1>3. HttpStream(b) = HttpStream(q)
  BY <1>2, NotEmpty DEF HttpStream
<1>4. Made(c, "http", q.name, q.addr, IF q.port \in {Empty, "0"} THEN "1080" ELSE q.port,
           HttpStream(q))
  BY <1>1, <1>3 DEF HttpAfter, Made
<1>5. Made(b, "http", q.name, q.addr, IF q.port \in {Empty, "0"} THEN "1080" ELSE q.port,
           HttpStream(q))
  BY DEF HttpAfter
<1>6. \A k : Val(c.f, k) = Val(b.f, k)
  BY NotEmpty DEF HttpAfter, HttpValue
<1> QED  BY <1>4, <1>5, <1>6, MadeEqual DEF HttpAfter

\* The network a link asks for, as the parsers of URLs and of vmess read it.
NetOf(net) == IF net = Empty THEN "tcp" ELSE IF net = "h2" THEN "http" ELSE net

\* It is read the same a second time, and never missing.
LEMMA NetSettles ==
  ASSUME NEW net
  PROVE  NetOf(NetOf(net)) = NetOf(net) /\ NetOf(net) # Empty
<1>1. "tcp" # Empty /\ "http" # Empty
  BY Zenon DEF Empty
<1> QED  BY <1>1 DEF NetOf

VMessValue(q, k) ==
  IF k \in {"id", "aid"} THEN Val(q.f, k)
  ELSE IF k = "sec" THEN (IF Val(q.f, k) = Empty THEN "auto" ELSE Val(q.f, k)) ELSE Empty

VMessStreamValue(s, k) ==
  IF k \in {"host", "path", "sni", "h_type"} THEN Val(s, k)
  ELSE IF k = "net" THEN NetOf(Val(s, k))
  ELSE IF k = "sec" THEN (IF Val(s, k) = "tls" THEN "tls" ELSE Empty) ELSE Empty

VMessAfter(q, b) ==
  /\ Made(b, "vmess", q.name, q.addr, IF q.port = Empty THEN "0" ELSE q.port, b.stream)
  /\ Lean(b.f) /\ Lean(b.stream)
  /\ \A k : Val(b.f, k) = VMessValue(q, k)
  /\ \A k : Val(b.stream, k) = VMessStreamValue(Stream(q), k)

\* A function with no other keys than these.
Over(f, keys) == DOMAIN f \subseteq keys

\* What a merge says of a key, by the keys of its sides.
LEMMA MergeOver ==
  ASSUME NEW f, NEW g, NEW keys, NEW more, Over(f, keys), Over(g, more)
  PROVE  /\ \A both : keys \union more \subseteq both => Over(f @@ g, both)
         /\ \A x : x \notin keys => Val(f @@ g, x) = Val(g, x)
         /\ \A x : x \notin more => Val(f @@ g, x) = Val(f, x)
BY DEF Over, @@, Val

\* The parts a query is made of.
LEMMA PartKeys ==
  /\ \A k, v : Over(Set(k, v), {k}) /\ Val(Set(k, v), k) = v
  /\ \A k, v : Over(k :> v, {k}) /\ Val(k :> v, k) = v
  /\ \A m, table : Over(Copy(m, table), DOMAIN table)
BY DEF Over, Set, :>, None, Copy, Val

\* The object of a vmess link.
LEMMA VMessBody ==
  ASSUME NEW q, NEW s, NEW sec, NEW query,
         query = Set("ps", q.name) @@ Set("add", q.addr) @@ "port" :> q.port
             @@ Copy(q.f, [id |-> "id", aid |-> "aid", scy |-> "sec"])
             @@ Copy(s, [net |-> "net", host |-> "host", path |-> "path",
                         type |-> "h_type", sni |-> "sni"])
             @@ Set("tls", sec)
  PROVE  /\ Val(query, "ps") = q.name /\ Val(query, "add") = q.addr
         /\ Val(query, "port") = q.port
         /\ Val(query, "id") = Val(q.f, "id") /\ Val(query, "aid") = Val(q.f, "aid")
         /\ Val(query, "scy") = Val(q.f, "sec")
         /\ Val(query, "net") = Val(s, "net") /\ Val(query, "host") = Val(s, "host")
         /\ Val(query, "path") = Val(s, "path") /\ Val(query, "type") = Val(s, "h_type")
         /\ Val(query, "sni") = Val(s, "sni") /\ Val(query, "tls") = sec
<1> DEFINE bean == Copy(q.f, [id |-> "id", aid |-> "aid", scy |-> "sec"])
           stream == Copy(s, [net |-> "net", host |-> "host", path |-> "path",
                              type |-> "h_type", sni |-> "sni"])
           a == Set("ps", q.name) @@ Set("add", q.addr)
           b == a @@ "port" :> q.port
           c == b @@ bean
           d == c @@ stream
<1>1. /\ Over(a, {"ps", "add"}) /\ Val(a, "ps") = q.name /\ Val(a, "add") = q.addr
  <2>1. Over(Set("ps", q.name), {"ps"}) /\ Val(Set("ps", q.name), "ps") = q.name
    BY PartKeys
  <2>2. Over(Set("add", q.addr), {"add"}) /\ Val(Set("add", q.addr), "add") = q.addr
    BY PartKeys
  <2> QED  BY <2>1, <2>2, MergeOver
<1> HIDE DEF a
<1>2. /\ Over(b, {"ps", "add", "port"})
      /\ Val(b, "ps") = q.name /\ Val(b, "add") = q.addr /\ Val(b, "port") = q.port
  <2>1. Over("port" :> q.port, {"port"}) /\ Val("port" :> q.port, "port") = q.port
    BY PartKeys
  <2> QED  BY <1>1, <2>1, MergeOver
<1>3. /\ Over(bean, {"id", "aid", "scy"})
      /\ Val(bean, "id") = Val(q.f, "id") /\ Val(bean, "aid") = Val(q.f, "aid")
      /\ Val(bean, "scy") = Val(q.f, "sec")
  BY PartKeys, LeanCopy
<1>4. /\ Over(stream, {"net", "host", "path", "type", "sni"})
      /\ Val(stream, "net") = Val(s, "net") /\ Val(stream, "host") = Val(s, "host")
      /\ Val(stream, "path") = Val(s, "path") /\ Val(stream, "type") = Val(s, "h_type")
      /\ Val(stream, "sni") = Val(s, "sni")
  BY PartKeys, LeanCopy
<1> HIDE DEF b, bean, stream
<1>5. /\ Over(c, {"ps", "add", "port", "id", "aid", "scy"})
      /\ \A x \in {"ps", "add", "port"} : Val(c, x) = Val(b, x)
      /\ \A x \in {"id", "aid", "scy"} : Val(c, x) = Val(bean, x)
  BY <1>2, <1>3, MergeOver
<1> HIDE DEF c
<1>6. /\ Over(d, {"ps", "add", "port", "id", "aid", "scy", "net", "host", "path",
                             "type", "sni"})
      /\ \A x \in {"ps", "add", "port", "id", "aid", "scy"} : Val(d, x) = Val(c, x)
      /\ \A x \in {"net", "host", "path", "type", "sni"} : Val(d, x) = Val(stream, x)
  BY <1>4, <1>5, MergeOver
<1>7. query = d @@ Set("tls", sec)
  BY DEF d, c, b, a, bean, stream
<1> HIDE DEF d
<1>8. /\ \A x \in {"ps", "add", "port", "id", "aid", "scy", "net", "host", "path", "type",
                   "sni"} : Val(query, x) = Val(d, x)
      /\ Val(query, "tls") = sec
  <2>1. Over(Set("tls", sec), {"tls"}) /\ Val(Set("tls", sec), "tls") = sec
    BY PartKeys
  <2> QED  BY <1>6, <1>7, <2>1, MergeOver
<1> QED  BY <1>2, <1>3, <1>4, <1>5, <1>6, <1>8

\* What a vmess link gives back.
LEMMA VMessTrip ==
  ASSUME NEW q, q.type = "vmess", ParseLink(GenerateLink(q)) # Rejected
  PROVE  VMessAfter(q, After(q))
<1> DEFINE s == Stream(q)
           sec == IF Val(s, "sec") = "tls" THEN "tls" ELSE Empty
           query == Set("ps", q.name) @@ Set("add", q.addr) @@ "port" :> q.port
             @@ Copy(q.f, [id |-> "id", aid |-> "aid", scy |-> "sec"])
             @@ Copy(s, [net |-> "net", host |-> "host", path |-> "path",
                         type |-> "h_type", sni |-> "sni"])
             @@ Set("tls", sec)
           l == Link("vmess", "json", Empty, Empty, Empty, Empty, query, Empty)
           net == ValOr(l.query, "net", "tcp")
           port == IF q.port = Empty THEN "0" ELSE q.port
           f == "id" :> l.query["id"] @@ Set("aid", Val(l.query, "aid"))
                  @@ "sec" :> ValOr(l.query, "scy", "auto")
           stream == "net" :> (IF net = "h2" THEN "http" ELSE net)
                       @@ Copy(l.query, [host |-> "host", path |-> "path", sni |-> "sni",
                                         h_type |-> "type", sec |-> "tls"])
<1>1. GenerateLink(q) = l
  <2>1. GenerateLink(q) = GenVMess(q)
    BY GeneratorOf
  <2>2. GenVMess(q) = l
    BY Zenon DEF GenVMess
  <2> QED  BY <2>1, <2>2
<1>2. /\ Val(query, "ps") = q.name /\ Val(query, "add") = q.addr
      /\ Val(query, "port") = q.port
      /\ Val(query, "id") = Val(q.f, "id") /\ Val(query, "aid") = Val(q.f, "aid")
      /\ Val(query, "scy") = Val(q.f, "sec")
      /\ Val(query, "net") = Val(s, "net") /\ Val(query, "host") = Val(s, "host")
      /\ Val(query, "path") = Val(s, "path") /\ Val(query, "type") = Val(s, "h_type")
      /\ Val(query, "sni") = Val(s, "sni") /\ Val(query, "tls") = sec
  <2> HIDE DEF s, sec
  <2> QED  BY VMessBody
<1> HIDE DEF query
<1>3. l.scheme = "vmess" /\ l.form = "json" /\ l.query = query
  BY LinkParts
<1> HIDE DEF l
<1>4. ParseLink(l) = ParseVMessJson(l)
  BY <1>3, ParserOf DEF ParseVMess
<1>5. Val(query, "id") # Empty /\ Val(query, "add") # Empty
  BY <1>1, <1>3, <1>4 DEF ParseVMessJson
<1>6. l.query["id"] = Val(q.f, "id") /\ l.query["add"] = q.addr
  BY <1>2, <1>3, <1>5 DEF Val
<1>7. ValOr(l.query, "port", "0") = port /\ net = ValOr(s, "net", "tcp")
  BY <1>2, <1>3 DEF ValOr
<1>8. ParseLink(l) = Profile("vmess", q.name, q.addr, port, f, stream)
  <2> HIDE DEF port
  <2>1. ParseVMessJson(l) = Profile("vmess", Val(l.query, "ps"), l.query["add"],
                                    ValOr(l.query, "port", "0"), f, stream)
    BY <1>3, <1>5, Zenon DEF ParseVMessJson
  <2> HIDE DEF f, stream, net
  <2> QED  BY <1>2, <1>3, <1>4, <1>6, <1>7, <2>1
<1>9. "auto" # Empty
  BY NotEmpty
<1>10. Lean(f) /\ \A k : Val(f, k) = VMessValue(q, k)
  <2>1. ValOr(l.query, "scy", "auto") = VMessValue(q, "sec") /\ VMessValue(q, "sec") # Empty
    BY <1>2, <1>3, <1>9 DEF ValOr, VMessValue
  <2> QED  BY <1>2, <1>3, <1>5, <1>6, <2>1, LeanSet, LeanKey, LeanMerge DEF VMessValue
<1>11. (IF net = "h2" THEN "http" ELSE net) = NetOf(Val(s, "net"))
  BY <1>7 DEF ValOr, NetOf
<1>12. Lean(stream) /\ \A k : Val(stream, k) = VMessStreamValue(s, k)
  <2> DEFINE said == Copy(l.query, [host |-> "host", path |-> "path", sni |-> "sni",
                                    h_type |-> "type", sec |-> "tls"])
  <2>1. Lean(said) /\ \A k : Val(said, k) =
          IF k = "net" THEN Empty ELSE VMessStreamValue(s, k)
    BY <1>2, <1>3, LeanCopy DEF VMessStreamValue
  <2>2. VMessStreamValue(s, "net") = NetOf(Val(s, "net"))
    BY DEF VMessStreamValue
  <2>3. stream = "net" :> NetOf(Val(s, "net")) @@ said
    BY <1>11
  <2> HIDE DEF said, stream
  <2> QED  BY <2>1, <2>2, <2>3, LeanKey, LeanMerge, NetSettles
<1> HIDE DEF f, stream, port
<1>13. DiscriminatorKeys("vmess") = {} /\ "vmess" \in StreamTypes
  BY DEF DiscriminatorKeys, StreamTypes
<1>14. /\ Made(After(q), "vmess", q.name, q.addr, port, stream) /\ Lean(After(q).f)
       /\ \A k : Val(After(q).f, k) = Val(f, k)
  BY <1>1, <1>8, <1>10, <1>13, JsonMade DEF After
<1>15. After(q).stream = stream
  BY <1>14 DEF Made
<1> QED  BY <1>10, <1>12, <1>14, <1>15 DEF VMessAfter, port

\* Twice is once.
LEMMA VMessSettles ==
  ASSUME NEW q, NEW b, NEW c, VMessAfter(q, b), VMessAfter(b, c)
  PROVE  c = b
<1>1. Stream(b) = b.stream
  <2>1. Val(b.stream, "net") = NetOf(Val(Stream(q), "net"))
    BY DEF VMessAfter, VMessStreamValue
  <2> QED  BY <2>1, NetSettles, StreamKept
<1>2. \A k : Val(c.stream, k) = Val(b.stream, k)
  BY <1>1, NetSettles, NotEmpty DEF VMessAfter, VMessStreamValue
<1>3. c.stream = b.stream
  BY <1>2, LeanEqual DEF VMessAfter
<1>4. Made(c, "vmess", q.name, q.addr, IF q.port = Empty THEN "0" ELSE q.port, b.stream)
  BY <1>3, NotEmpty DEF VMessAfter, Made
<1>5. \A k : Val(c.f, k) = Val(b.f, k)
  BY NotEmpty DEF VMessAfter, VMessValue
<1> QED  BY <1>4, <1>5, MadeEqual DEF VMessAfter

(* The URLs of trojan and vless.  s is the stream that is shared. *)

PathNets == {"ws", "http", "httpupgrade"}

Headed(s) == Val(s, "net") = "tcp" /\ Val(s, "h_type") = "http"

\* What a URL says of the transport.
SaidTransport(s, k) ==
  IF k = "headerType" THEN (IF Headed(s) THEN "http" ELSE Empty)
  ELSE IF k \in {"path", "host"}
    THEN (IF Val(s, "net") \in PathNets \/ Headed(s) THEN Val(s, k) ELSE Empty)
  ELSE IF k = "serviceName" THEN (IF Val(s, "net") = "grpc" THEN Val(s, "path") ELSE Empty)
  ELSE Empty

\* That is the transport part of the query.
LEMMA TransportIsSaid ==
  ASSUME NEW s
  PROVE  Lean(QueryOfTransport(s)) /\ \A k : Val(QueryOfTransport(s), k) = SaidTransport(s, k)
<1> DEFINE both == Copy(s, [path |-> "path", host |-> "host"])
           name == Copy(s, [serviceName |-> "path"])
<1>1. /\ Lean(both)
      /\ \A k : Val(both, k) = IF k \in {"path", "host"} THEN Val(s, k) ELSE Empty
  BY LeanCopy
<1>2. Lean(name) /\ \A k : Val(name, k) = IF k = "serviceName" THEN Val(s, "path") ELSE Empty
  BY LeanCopy
<1>3. "http" # Empty
  BY Zenon DEF Empty
<1>4. CASE Val(s, "net") \in PathNets
  <2>1. QueryOfTransport(s) = both
    BY <1>4, Zenon DEF QueryOfTransport, PathNets
  <2>2. ~Headed(s) /\ Val(s, "net") # "grpc"
    BY <1>4 DEF Headed, PathNets
  <2> HIDE DEF both, name
  <2> QED  BY <1>1, <1>4, <2>1, <2>2 DEF SaidTransport
<1>5. CASE Val(s, "net") = "grpc"
  <2>1. QueryOfTransport(s) = name
    BY <1>5 DEF QueryOfTransport
  <2>2. ~Headed(s) /\ Val(s, "net") \notin PathNets
    BY <1>5 DEF Headed, PathNets
  <2> HIDE DEF both, name
  <2> QED  BY <1>2, <1>5, <2>1, <2>2 DEF SaidTransport
<1>6. CASE Headed(s)
  <2>1. QueryOfTransport(s) = ("headerType" :> "http") @@ both
    BY <1>6 DEF QueryOfTransport, Headed
  <2>2. Val(s, "net") # "grpc"
    BY <1>6 DEF Headed
  <2> HIDE DEF both, name
  <2> QED  BY <1>1, <1>3, <1>6, <2>1, <2>2, LeanKey, LeanMerge DEF SaidTransport
<1>7. CASE Val(s, "net") \notin PathNets \union {"grpc"} /\ ~Headed(s)
  <2>1. QueryOfTransport(s) = None
    BY <1>7 DEF QueryOfTransport, Headed, PathNets
  <2> HIDE DEF both, name
  <2> QED  BY <1>7, <2>1, LeanNone DEF SaidTransport
<1> QED  BY <1>4, <1>5, <1>6, <1>7

\* What a parser reads of the transport in a query.
ReadHeaded(q) == Network(q) = "tcp" /\ Val(q, "headerType") = "http"

ReadTransport(q, k) ==
  IF k = "h_type" THEN (IF ReadHeaded(q) THEN "http" ELSE Empty)
  ELSE IF k = "path" /\ Network(q) = "grpc" THEN Val(q, "serviceName")
  ELSE IF k \in {"path", "host"}
    THEN (IF Network(q) \in PathNets \/ ReadHeaded(q) THEN Val(q, k) ELSE Empty)
  ELSE Empty

\* That is the transport part of the stream.
LEMMA TransportIsRead ==
  ASSUME NEW q
  PROVE  Lean(TransportOfQuery(q)) /\ \A k : Val(TransportOfQuery(q), k) = ReadTransport(q, k)
<1> DEFINE both == Copy(q, [path |-> "path", host |-> "host"])
           name == Copy(q, [path |-> "serviceName"])
<1>1. /\ Lean(both)
      /\ \A k : Val(both, k) = IF k \in {"path", "host"} THEN Val(q, k) ELSE Empty
  BY LeanCopy
<1>2. Lean(name) /\ \A k : Val(name, k) = IF k = "path" THEN Val(q, "serviceName") ELSE Empty
  BY LeanCopy
<1>3. "http" # Empty
  BY Zenon DEF Empty
<1>4. CASE Network(q) \in PathNets
  <2>1. TransportOfQuery(q) = both
    BY <1>4, Zenon DEF TransportOfQuery, PathNets
  <2>2. ~ReadHeaded(q) /\ Network(q) # "grpc"
    BY <1>4 DEF ReadHeaded, PathNets
  <2> HIDE DEF both, name
  <2> QED  BY <1>1, <1>4, <2>1, <2>2 DEF ReadTransport
<1>5. CASE Network(q) = "grpc"
  <2>1. TransportOfQuery(q) = name
    BY <1>5 DEF TransportOfQuery
  <2>2. ~ReadHeaded(q) /\ Network(q) \notin PathNets
    BY <1>5 DEF ReadHeaded, PathNets
  <2> HIDE DEF both, name
  <2> QED  BY <1>2, <1>5, <2>1, <2>2 DEF ReadTransport
<1>6. CASE ReadHeaded(q)
  <2>1. TransportOfQuery(q) = ("h_type" :> "http") @@ both
    BY <1>6 DEF TransportOfQuery, ReadHeaded
  <2>2. Network(q) # "grpc"
    BY <1>6 DEF ReadHeaded
  <2> HIDE DEF both, name
  <2> QED  BY <1>1, <1>3, <1>6, <2>1, <2>2, LeanKey, LeanMerge DEF ReadTransport
<1>7. CASE Network(q) \notin PathNets \union {"grpc"} /\ ~ReadHeaded(q)
  <2>1. TransportOfQuery(q) = None
    BY <1>7 DEF TransportOfQuery, ReadHeaded, PathNets
  <2> HIDE DEF both, name
  <2> QED  BY <1>7, <2>1, LeanNone DEF ReadTransport
<1> QED  BY <1>4, <1>5, <1>6, <1>7

RealityOf(s) == Val(s, "sec") = "tls" /\ Val(s, "pbk") # Empty

RealityKeys == {"pbk", "sid", "spx"}

\* What the URL of a profile of this type says.
UrlValue(q, vless, k) ==
  LET s == Stream(q)
  IN  IF k = "security" THEN (IF RealityOf(s) THEN "reality" ELSE Val(s, "sec"))
      ELSE IF k \in {"sni", "alpn"} THEN Val(s, k)
      ELSE IF k = "allowInsecure" THEN Val(s, "insecure")
      ELSE IF k = "fp" THEN Val(s, "utls")
      ELSE IF k = "type" THEN Val(s, "net")
      ELSE IF k \in RealityKeys THEN (IF RealityOf(s) THEN Val(s, k) ELSE Empty)
      ELSE IF k \in {"headerType", "path", "host", "serviceName"} THEN SaidTransport(s, k)
      ELSE IF k = "flow" THEN (IF vless THEN Val(q.f, k) ELSE Empty)
      ELSE IF k = "encryption" THEN (IF vless THEN "none" ELSE Empty) ELSE Empty

\* The query of GenTrojanVLESS, by its keys.
LEMMA UrlSays ==
  ASSUME NEW q, NEW vless \in BOOLEAN, NEW s, s = Stream(q),
         NEW reality \in BOOLEAN, reality <=> RealityOf(s), NEW query,
         query = Set("security", IF reality THEN "reality" ELSE Val(s, "sec"))
             @@ Copy(s, [sni |-> "sni", alpn |-> "alpn", allowInsecure |-> "insecure", fp |-> "utls",
                         type |-> "net"])
             @@ (IF reality THEN Copy(s, [pbk |-> "pbk", sid |-> "sid", spx |-> "spx"]) ELSE None)
             @@ QueryOfTransport(s)
             @@ (IF vless THEN Copy(q.f, [flow |-> "flow"]) @@ "encryption" :> "none" ELSE None)
  PROVE  \A k : Val(query, k) = UrlValue(q, vless, k)
<1> DEFINE security == IF reality THEN "reality" ELSE Val(s, "sec")
           tls == Copy(s, [sni |-> "sni", alpn |-> "alpn", allowInsecure |-> "insecure",
                           fp |-> "utls", type |-> "net"])
           keys == IF reality THEN Copy(s, [pbk |-> "pbk", sid |-> "sid", spx |-> "spx"]) ELSE None
           own == IF vless THEN Copy(q.f, [flow |-> "flow"]) @@ "encryption" :> "none" ELSE None
<1>1. /\ Lean(Set("security", security))
      /\ \A k : Val(Set("security", security), k) = IF k = "security" THEN security ELSE Empty
  BY LeanSet
<1>2. Lean(tls) /\ \A k : Val(tls, k) =
        IF k \in {"sni", "alpn", "allowInsecure", "fp", "type"} THEN UrlValue(q, vless, k) ELSE Empty
  BY LeanCopy DEF UrlValue
<1>3. Lean(keys) /\ \A k : Val(keys, k) =
        IF k \in RealityKeys THEN UrlValue(q, vless, k) ELSE Empty
  BY LeanCopy, LeanNone DEF UrlValue, RealityKeys
<1>4. Lean(own) /\ \A k : Val(own, k) =
        IF k \in {"flow", "encryption"} THEN UrlValue(q, vless, k) ELSE Empty
  BY LeanCopy, LeanKey, LeanNone, LeanMerge, NotEmpty DEF UrlValue, RealityKeys
<1>5. /\ Lean(QueryOfTransport(s))
      /\ \A k : Val(QueryOfTransport(s), k) =
           IF k \in {"headerType", "path", "host", "serviceName"} THEN UrlValue(q, vless, k) ELSE Empty
  BY TransportIsSaid DEF UrlValue, RealityKeys, SaidTransport
<1>6. security = UrlValue(q, vless, "security")
  BY DEF UrlValue
<1>7. \A k : k \notin {"security", "sni", "alpn", "allowInsecure", "fp", "type", "flow",
                       "encryption", "headerType", "path", "host", "serviceName"} \union RealityKeys
        => UrlValue(q, vless, k) = Empty
  BY DEF UrlValue
<1>8. query = Set("security", security) @@ tls @@ keys @@ QueryOfTransport(s) @@ own
  OBVIOUS
<1> HIDE DEF security, tls, keys, own
<1> QED  BY <1>1, <1>2, <1>3, <1>4, <1>5, <1>6, <1>7, <1>8, LeanMerge DEF RealityKeys

\* The security a URL's reader takes from it.
SecAfter(sec, default) ==
  IF sec = Empty THEN default
  ELSE IF sec = "reality" THEN "tls" ELSE IF sec = "none" THEN Empty ELSE sec

\* It is SecurityOf of the query, reality said or not.
LEMMA SecurityIsRead ==
  ASSUME NEW s, NEW query, NEW default \in {"tls", Empty},
         Val(query, "security") = IF RealityOf(s) THEN "reality" ELSE Val(s, "sec")
  PROVE  SecurityOf(query, default) = SecAfter(Val(s, "sec"), default)
<1> DEFINE sec == Val(s, "sec")
           said == ValOr(query, "security", default)
<1>1. said = IF RealityOf(s) THEN "reality" ELSE IF sec = Empty THEN default ELSE sec
  BY NotEmpty DEF ValOr
<1>2. SecurityOf(query, default) = IF said = "reality" THEN "tls" ELSE IF said = "none" THEN Empty ELSE said
  <2> HIDE DEF said
  <2> QED  BY DEF SecurityOf, said
<1>3. RealityOf(s) => sec = "tls"
  BY DEF RealityOf
<1> HIDE DEF said, sec
<1> QED  BY <1>1, <1>2, <1>3, NotEmpty DEF SecAfter, sec

UrlStreamValue(s, default, k) ==
  IF k = "net" THEN NetOf(Val(s, k))
  ELSE IF k = "sec" THEN SecAfter(Val(s, k), default)
  ELSE IF k \in {"sni", "alpn", "utls"} THEN Val(s, k)
  ELSE IF k = "insecure" THEN (IF Val(s, k) = Empty THEN Empty ELSE "1")
  ELSE IF k \in RealityKeys THEN (IF RealityOf(s) THEN Val(s, k) ELSE Empty)
  ELSE IF k = "h_type" THEN (IF Headed(s) THEN "http" ELSE Empty)
  ELSE IF k = "path"
    THEN (IF Val(s, "net") \in PathNets \union {"grpc"} \/ Headed(s) THEN Val(s, k) ELSE Empty)
  ELSE IF k = "host"
    THEN (IF Val(s, "net") \in PathNets \/ Headed(s) THEN Val(s, k) ELSE Empty) ELSE Empty

\* The transport that is read is the one that was said.
LEMMA TransportKept ==
  ASSUME NEW q, NEW vless \in BOOLEAN, NEW s, s = Stream(q), NEW query, NEW default,
         \A k : Val(query, k) = UrlValue(q, vless, k)
  PROVE  /\ Network(query) = NetOf(Val(s, "net"))
         /\ \A k \in {"h_type", "path", "host"} :
              ReadTransport(query, k) = UrlStreamValue(s, default, k)
<1>1. /\ Val(query, "type") = Val(s, "net")
      /\ \A k \in {"headerType", "path", "host", "serviceName"} :
           Val(query, k) = SaidTransport(s, k)
  BY DEF UrlValue, RealityKeys
<1>2. Network(query) = NetOf(Val(s, "net"))
  BY <1>1 DEF Network, ValOr, NetOf
<1>3. ReadHeaded(query) <=> Headed(s)
  <2>1. "http" # Empty /\ "tcp" # Empty
    BY Zenon DEF Empty
  <2> QED  BY <1>1, <1>2, <2>1 DEF ReadHeaded, Headed, SaidTransport, NetOf
<1>4. Network(query) = "grpc" <=> Val(s, "net") = "grpc"
  <2>1. "grpc" # Empty
    BY Zenon DEF Empty
  <2> QED  BY <1>2, <2>1 DEF NetOf
<1>5. Val(s, "net") \in PathNets => Network(query) \in PathNets
  <2>1. \A x \in PathNets : x # Empty
    BY Zenon DEF PathNets, Empty
  <2> QED  BY <1>2, <2>1 DEF NetOf, PathNets
<1>6. CASE Val(s, "net") \in PathNets \union {"grpc"} \/ Headed(s)
  <2>1. Network(query) \in PathNets <=> Val(s, "net") \in PathNets
    <3>1. "http" # "grpc" /\ "tcp" # "grpc" /\ "tcp" \notin PathNets /\ "grpc" \notin PathNets
      BY DEF PathNets
    <3> QED  BY <1>2, <1>4, <1>5, <1>6, <3>1, TcpIsSaid DEF NetOf, Headed
  <2> QED  BY <1>1, <1>2, <1>3, <1>4, <1>6, <2>1 DEF ReadTransport, SaidTransport, UrlStreamValue, RealityKeys
<1>7. CASE ~(Val(s, "net") \in PathNets \union {"grpc"} \/ Headed(s))
  BY <1>1, <1>2, <1>3, <1>4, <1>7 DEF ReadTransport, SaidTransport, UrlStreamValue, RealityKeys
<1> QED  BY <1>2, <1>6, <1>7

DefaultSec(type) == IF type = "trojan" THEN "tls" ELSE Empty

\* The stream a parser makes of the query, by its keys.
LEMMA StreamIsRead ==
  ASSUME NEW q, NEW vless \in BOOLEAN, NEW s, s = Stream(q), NEW query,
         NEW default \in {"tls", Empty},
         \A k : Val(query, k) = UrlValue(q, vless, k),
         NEW stream,
         stream = Copy(query, [alpn |-> "alpn"])
                    @@ StreamOfQuery(query, SecurityOf(query, default))
  PROVE  Lean(stream) /\ \A k : Val(stream, k) = UrlStreamValue(s, default, k)
<1> DEFINE sec == SecurityOf(query, default)
           sni == ValOr(query, "peer", Val(query, "sni"))
           insecure == Val(query, "allowInsecure") # Empty
           keys == Copy(query, [pbk |-> "pbk", sid |-> "sid", spx |-> "spx", utls |-> "fp"])
           alpn == Copy(query, [alpn |-> "alpn"])
           head == "net" :> Network(query) @@ Set("sec", sec) @@ Set("sni", sni)
                     @@ Flag("insecure", insecure)
           V(k) == UrlStreamValue(s, default, k)
<1>1. /\ Network(query) = NetOf(Val(s, "net")) /\ Network(query) # Empty
      /\ \A k \in {"h_type", "path", "host"} : ReadTransport(query, k) = V(k)
  BY TransportKept, NetSettles
<1>2. sec = SecAfter(Val(s, "sec"), default)
  BY SecurityIsRead DEF UrlValue
<1>3. sni = Val(s, "sni")
  BY DEF ValOr, UrlValue, RealityKeys
<1>4. insecure <=> Val(s, "insecure") # Empty
  BY DEF UrlValue
<1>5. Lean(alpn) /\ \A k : Val(alpn, k) = IF k = "alpn" THEN V(k) ELSE Empty
  BY LeanCopy DEF UrlValue, UrlStreamValue
<1>6. Lean(keys) /\ \A k : Val(keys, k) = IF k \in RealityKeys \union {"utls"} THEN V(k) ELSE Empty
  BY LeanCopy DEF UrlValue, UrlStreamValue, RealityKeys
<1>7. /\ Lean(TransportOfQuery(query))
      /\ \A k : Val(TransportOfQuery(query), k) =
           IF k \in {"h_type", "path", "host"} THEN V(k) ELSE Empty
  BY <1>1, TransportIsRead DEF ReadTransport
<1>8. /\ V("net") = NetOf(Val(s, "net")) /\ V("sec") = SecAfter(Val(s, "sec"), default)
      /\ V("sni") = Val(s, "sni")
      /\ V("insecure") = (IF Val(s, "insecure") = Empty THEN Empty ELSE "1")
      /\ \A k : k \notin {"net", "sec", "sni", "alpn", "utls", "insecure", "h_type", "path",
                          "host"} \union RealityKeys => V(k) = Empty
  BY DEF UrlStreamValue
<1> HIDE DEF sec, sni, insecure, keys, alpn, V
<1>9. Lean(head) /\ \A k : Val(head, k) =
        IF k \in {"net", "sec", "sni", "insecure"} THEN V(k) ELSE Empty
  BY <1>1, <1>2, <1>3, <1>4, <1>8, LeanKey, LeanSet, LeanFlag, LeanMerge
<1>10. stream = alpn @@ (head @@ keys @@ TransportOfQuery(query))
  BY DEF StreamOfQuery, sec, sni, insecure, keys, alpn
<1> HIDE DEF head
<1>11. Lean(stream) /\ \A k : Val(stream, k) = V(k)
  BY <1>5, <1>6, <1>7, <1>8, <1>9, <1>10, LeanMerge DEF RealityKeys
<1> QED  BY <1>11 DEF V

UrlBeanValue(q, vless, k) ==
  IF k = "password" THEN Val(q.f, k)
  ELSE IF k = "proxy_type" THEN (IF vless THEN "1" ELSE Empty)
  ELSE IF k = "flow" THEN (IF vless THEN Val(q.f, k) ELSE Empty) ELSE Empty

UrlAfter(q, b, type) ==
  /\ Made(b, type, q.name, q.addr, Port443(q.port), b.stream)
  /\ Lean(b.f) /\ Lean(b.stream)
  /\ \A k : Val(b.f, k) = UrlBeanValue(q, type = "vless", k)
  /\ \A k : Val(b.stream, k) = UrlStreamValue(Stream(q), DefaultSec(type), k)

\* What a trojan or vless URL gives back.
LEMMA UrlTrip ==
  ASSUME NEW q, NEW type \in {"vless", "trojan"}, q.type = type, Labelled(q),
         ParseLink(GenerateLink(q)) # Rejected
  PROVE  UrlAfter(q, After(q), type)
<1> DEFINE s == Stream(q)
           vless == type = "vless"
           reality == Val(s, "sec") = "tls" /\ Val(s, "pbk") # Empty
           query == Set("security", IF reality THEN "reality" ELSE Val(s, "sec"))
             @@ Copy(s, [sni |-> "sni", alpn |-> "alpn", allowInsecure |-> "insecure", fp |-> "utls",
                         type |-> "net"])
             @@ (IF reality THEN Copy(s, [pbk |-> "pbk", sid |-> "sid", spx |-> "spx"]) ELSE None)
             @@ QueryOfTransport(s)
             @@ (IF vless THEN Copy(q.f, [flow |-> "flow"]) @@ "encryption" :> "none" ELSE None)
           l == Link(type, "user", Val(q.f, "password"), Empty, q.addr, q.port, query, q.name)
           f == "password" :> l.user @@ ProxyType(type)
                  @@ (IF vless THEN Copy(l.query, [flow |-> "flow"]) ELSE None)
           stream == Copy(l.query, [alpn |-> "alpn"])
                       @@ StreamOfQuery(l.query, SecurityOf(l.query, DefaultSec(type)))
<1>1. GenerateLink(q) = l
  <2>1. GenerateLink(q) = GenTrojanVLESS(q)
    BY GeneratorOf
  <2>2. (Val(q.f, "proxy_type") = "1") = vless
    BY DiscriminatorValues, NotEmpty
  <2>3. (IF vless THEN "vless" ELSE "trojan") = type
    OBVIOUS
  <2>4. GenTrojanVLESS(q) = l
    BY <2>2, <2>3, Zenon DEF GenTrojanVLESS
  <2> QED  BY <2>1, <2>4
<1>2. \A k : Val(query, k) = UrlValue(q, vless, k)
  <2>1. vless \in BOOLEAN /\ reality \in BOOLEAN /\ (reality <=> RealityOf(s))
    BY DEF RealityOf
  <2> HIDE DEF s, vless, reality
  <2> QED  BY <2>1, UrlSays DEF s
<1> HIDE DEF query, s
<1>3. /\ l.scheme = type /\ l.user = Val(q.f, "password") /\ l.host = q.addr
      /\ l.query = query /\ l.name = q.name /\ PortOr(l, "443") = Port443(q.port)
  BY LinkParts, PortIs443
<1> HIDE DEF l
<1>4. /\ l.user # Empty
      /\ ParseLink(l) = Profile(type, q.name, q.addr, Port443(q.port), f, stream)
  <2>1. ParseLink(l) = ParseTrojanVLESS(l)
    BY <1>3, ParserOf
  <2>2. l.user # Empty /\ l.host # Empty
    BY <1>1, <2>1 DEF ParseTrojanVLESS
  <2>3. ParseTrojanVLESS(l) = Profile(type, q.name, q.addr, Port443(q.port), f, stream)
    BY <1>3, <2>2, Zenon DEF ParseTrojanVLESS, DefaultSec
  <2> QED  BY <2>1, <2>2, <2>3
<1>5. vless \in BOOLEAN /\ DefaultSec(type) \in {"tls", Empty}
  BY DEF DefaultSec
<1>6. ProxyType(type) = IF vless THEN "proxy_type" :> "1" ELSE None
  BY DEF ProxyType
<1>7. Val(l.query, "flow") = IF vless THEN Val(q.f, "flow") ELSE Empty
  BY <1>2, <1>3 DEF UrlValue, RealityKeys
<1> HIDE DEF vless
<1>8. Lean(f) /\ \A k : Val(f, k) = UrlBeanValue(q, vless, k)
  BY <1>3, <1>4, <1>6, <1>7, LeanKey, LeanCopy, LeanNone, LeanMerge, NotEmpty DEF UrlBeanValue
<1>9. Lean(stream) /\ \A k : Val(stream, k) = UrlStreamValue(s, DefaultSec(type), k)
  BY <1>2, <1>3, <1>5, StreamIsRead DEF s
<1> HIDE DEF f, stream
<1>10. /\ DiscriminatorKeys(type) = {"proxy_type"} /\ type \in StreamTypes
       /\ Discriminator(type) = ProxyType(type)
  BY DEF DiscriminatorKeys, StreamTypes, Discriminator
<1>11. Val(Discriminator(type), "proxy_type") = UrlBeanValue(q, vless, "proxy_type")
  BY <1>6, <1>10, ValOfKey, LeanNone DEF UrlBeanValue
<1>12. /\ Made(After(q), type, q.name, q.addr, Port443(q.port), stream) /\ Lean(After(q).f)
       /\ \A k : Val(After(q).f, k) = UrlBeanValue(q, vless, k)
  BY <1>1, <1>4, <1>8, <1>10, <1>11, JsonMade DEF After
<1>13. After(q).stream = stream
  BY <1>12 DEF Made
<1> QED  BY <1>9, <1>12, <1>13 DEF UrlAfter, vless, s

\* Twice is once, unless a trojan lost its encryption.
LEMMA UrlSettles ==
  ASSUME NEW q, NEW b, NEW c, NEW type \in {"vless", "trojan"},
         UrlAfter(q, b, type), UrlAfter(b, c, type),
         type = "trojan" => Val(Stream(b), "sec") # Empty
  PROVE  c = b
<1> DEFINE s == Stream(q)
           t == Stream(b)
           default == DefaultSec(type)
<1>1. t = b.stream
  <2>1. Val(b.stream, "net") = NetOf(Val(s, "net"))
    BY DEF UrlAfter, UrlStreamValue
  <2> HIDE DEF s
  <2> QED  BY <2>1, NetSettles, StreamKept
<1> HIDE DEF s, t, default
<1>2. \A k : Val(t, k) = UrlStreamValue(s, default, k)
  BY <1>1 DEF UrlAfter, s, default
<1>3. NetOf(Val(t, "net")) = Val(t, "net")
  BY <1>2, NetSettles DEF UrlStreamValue
<1>4. SecAfter(Val(t, "sec"), default) = Val(t, "sec")
  <2>1. Val(t, "sec") = SecAfter(Val(s, "sec"), default)
    BY <1>2 DEF UrlStreamValue
  <2>2. Val(t, "sec") = Empty => default = Empty
    BY DEF default, DefaultSec, t
  <2>3. default \in {"tls", Empty}
    BY DEF default, DefaultSec
  <2> QED  BY <2>1, <2>2, <2>3, NotEmpty DEF SecAfter
<1>5. RealityOf(t) => RealityOf(s)
  BY <1>2, NotEmpty DEF RealityOf, UrlStreamValue, RealityKeys
<1>6. RealityOf(s) => RealityOf(t)
  BY <1>2, NotEmpty DEF RealityOf, UrlStreamValue, RealityKeys, SecAfter
<1>7. Headed(t) <=> Headed(s)
  <2>1. "http" # Empty /\ "tcp" # Empty
    BY Zenon DEF Empty
  <2> QED  BY <1>2, <2>1 DEF Headed, UrlStreamValue, RealityKeys, NetOf
<1>8. ASSUME Val(s, "net") \in PathNets \union {"grpc"} \/ Headed(s)
      PROVE  \A k \in {"h_type", "path", "host"} : UrlStreamValue(t, default, k) = Val(t, k)
  <2>1. Val(t, "net") = Val(s, "net")
    <3>1. \A x \in PathNets \union {"grpc", "tcp"} : x # Empty /\ x # "h2"
      BY Zenon DEF PathNets, Empty
    <3> QED  BY <1>2, <1>8, <3>1 DEF UrlStreamValue, NetOf, Headed
  <2> QED  BY <1>2, <1>7, <2>1 DEF UrlStreamValue, RealityKeys
<1>9. ASSUME ~(Val(s, "net") \in PathNets \union {"grpc"} \/ Headed(s))
      PROVE  \A k \in {"h_type", "path", "host"} : UrlStreamValue(t, default, k) = Val(t, k)
  BY <1>2, <1>7, <1>9 DEF UrlStreamValue, RealityKeys
<1>10. \A k \in {"h_type", "path", "host"} : UrlStreamValue(t, default, k) = Val(t, k)
  BY <1>8, <1>9
<1>11. \A k : k \notin {"h_type", "path", "host"} => UrlStreamValue(t, default, k) = Val(t, k)
  BY <1>2, <1>3, <1>4, <1>5, <1>6, NotEmpty DEF UrlStreamValue
<1>12. c.stream = b.stream
  <2>1. \A k : Val(c.stream, k) = Val(b.stream, k)
    BY <1>1, <1>10, <1>11 DEF UrlAfter, t, default
  <2> QED  BY <2>1, LeanEqual DEF UrlAfter
<1>13. Made(c, type, q.name, q.addr, Port443(q.port), b.stream)
  BY <1>12, NotEmpty DEF UrlAfter, Made, Port443
<1>14. \A k : Val(c.f, k) = Val(b.f, k)
  BY DEF UrlAfter, UrlBeanValue
<1> QED  BY <1>13, <1>14, MadeEqual DEF UrlAfter

-----------------------------------------------------------------------------
(* The inductive invariant.                                                *)

\* The profile stored is labelled, it is encrypted if the link it came from said
\* so, and the config at hand is the one built from it.
IInv ==
  /\ profile # Rejected => Labelled(profile)
  /\ profile = Rejected => from = NoLink
  /\ from # NoLink /\ SaysTls(from) => Encrypted(profile)
  /\ ConfigInv

\* It holds where nothing is stored yet.
LEMMA ServiceInit == Init => IInv
BY DEF Init, IInv, ConfigInv

\* What is kept is labelled, as encrypted as it came, and has no config yet.
LEMMA KeepStep ==
  ASSUME NEW b, HasFields(b), b.type \in Types, Keep(b)
  PROVE  /\ Labelled(profile') /\ profile' # Rejected
         /\ Encrypted(b) => Encrypted(profile')
         /\ ConfigInv'
<1>1. Labelled(profile') /\ profile' # Rejected
  BY JsonLabelled DEF Keep
<1>2. Encrypted(b) => Encrypted(profile')
  BY JsonFields DEF Keep, Encrypted
<1>3. ConfigInv'
  BY DEF Keep, ConfigInv
<1> QED  BY <1>1, <1>2, <1>3

\* What the editor's form collects has a label of the editor.
LEMMA CollectedFields ==
  ASSUME NEW b, NEW type
  PROVE  HasFields(Collected(b, type)) /\ Collected(b, type).type = type
BY ProfileFields DEF Collected

\* An entry of a content that is not refused is the link at its place, parsed.
LEMMA ImportedEntry ==
  ASSUME NEW content, NEW i \in DOMAIN ParseContent(content, "auto"),
         ParseContent(content, "auto")[i] # Rejected
  PROVE  ParseContent(content, "auto")[i] = ParseLink(content.entries[i])
<1>1. ParseContent(content, "auto") = ParseAuto(content, 0)
  BY DEF ParseContent
<1>2. DOMAIN <<Rejected>> = {1} /\ <<Rejected>>[1] = Rejected
  BY OneRule
<1>3. ParseAuto(content, 0) \in {<<Rejected>>, ParseRaw(content.entries)}
  BY DEF ParseAuto
<1>4. ParseAuto(content, 0) = ParseRaw(content.entries)
  <2> DEFINE refused == <<Rejected>>
  <2>1. DOMAIN refused = {1} /\ refused[1] = Rejected
    BY <1>2
  <2>2. ParseAuto(content, 0) \in {refused, ParseRaw(content.entries)}
    BY <1>3
  <2> HIDE DEF refused
  <2> QED  BY <1>1, <2>1, <2>2
<1> QED  BY <1>1, <1>4 DEF ParseRaw

\* Every step keeps the invariant.
LEMMA ServiceNext == IInv /\ [Next]_vars => IInv'
<1> SUFFICES ASSUME IInv, [Next]_vars
             PROVE  IInv'
  OBVIOUS
<1> USE DEF IInv
<1>1. ASSUME NEW content \in Contents, Import(content)
      PROVE  IInv'
  <2>1. PICK i \in DOMAIN ParseContent(content, "auto") :
          /\ ParseContent(content, "auto")[i] # Rejected
          /\ Keep(ParseContent(content, "auto")[i])
          /\ from' = content.entries[i]
    BY <1>1 DEF Import
  <2> DEFINE b == ParseLink(content.entries[i])
  <2>2. b # Rejected /\ Keep(b)
    BY <2>1, ImportedEntry
  <2>3. HasFields(b) /\ b.type \in Types
    BY <2>2, ParsedLink DEF ParsedAs
  <2>4. SaysTls(content.entries[i]) => Encrypted(b)
    BY <2>2, TlsOfLink
  <2> HIDE DEF b
  <2>5. /\ Labelled(profile') /\ profile' # Rejected /\ ConfigInv'
        /\ Encrypted(b) => Encrypted(profile')
    BY <2>2, <2>3, KeepStep
  <2>6. SaysTls(from') => Encrypted(profile')
    BY <2>1, <2>4, <2>5
  <2> QED  BY <2>5, <2>6
<1>2. ASSUME NEW form \in EditorForms, Create(form)
      PROVE  IInv'
  <2> DEFINE b == Collected(form, form.type)
  <2>1. HasFields(b) /\ b.type \in Types
    BY CollectedFields, ServiceAssumption
  <2> HIDE DEF b
  <2>2. Keep(b) /\ profile = Rejected /\ from' = from
    BY <1>2 DEF Create, b
  <2>3. Labelled(profile') /\ profile' # Rejected /\ ConfigInv'
    BY <2>1, <2>2, KeepStep
  <2> QED  BY <2>2, <2>3
<1>3. ASSUME NEW type \in Types, Retype(type)
      PROVE  IInv'
  <2> DEFINE b == Collected(profile, type)
  <2>1. HasFields(b) /\ b.type \in Types
    BY CollectedFields
  <2> HIDE DEF b
  <2>2. Keep(b) /\ from' = NoLink
    BY <1>3 DEF Retype, b
  <2>3. Labelled(profile') /\ profile' # Rejected /\ ConfigInv'
    BY <2>1, <2>2, KeepStep
  <2> QED  BY <2>2, <2>3
<1>4. CASE Share
  BY <1>4 DEF Share, ConfigInv
<1>5. CASE ImportShared
  <2> DEFINE l == GenerateLink(profile)
             b == ParseLink(l)
  <2>1. b # Rejected /\ Keep(b) /\ from' = from
    BY <1>5 DEF ImportShared
  <2>2. HasFields(b) /\ b.type \in Types
    BY <2>1, ParsedLink DEF ParsedAs
  <2>3. profile # Rejected /\ Encrypted(profile) => Encrypted(b)
    BY <2>1, TlsOfShared, TlsOfLink
  <2> HIDE DEF b, l
  <2>4. /\ Labelled(profile') /\ profile' # Rejected /\ ConfigInv'
        /\ Encrypted(b) => Encrypted(profile')
    BY <2>1, <2>2, KeepStep
  <2>5. from' # NoLink /\ SaysTls(from') => Encrypted(profile')
    BY <2>1, <2>3, <2>4
  <2> QED  BY <2>4, <2>5
<1>6. ASSUME NEW cfg \in Routings, NEW ds \in DataStores, NEW forTest \in BOOLEAN,
             BuildConfig(cfg, ds, forTest)
      PROVE  IInv'
  BY <1>6 DEF BuildConfig, ConfigInv
<1>7. CASE UNCHANGED vars
  BY <1>7 DEF vars, ConfigInv
<1> QED  BY <1>1, <1>2, <1>3, <1>4, <1>5, <1>6, <1>7 DEF Next

\* The invariant holds in every state the service reaches.
THEOREM ServiceInvariant == Spec => []IInv
BY ServiceInit, ServiceNext, PTL DEF Spec

\* A profile builds the protocol it is labelled with, whatever keys of other
\* protocols are left in its bean (BeanDiscriminator against BuildOutboundSingBox),
\* unless its own JSON (c_out, chain.go) names another.
THEOREM BuildsWhatItIsLabelled == Spec => []LabelIsProtocol
<1>1. ASSUME IInv, profile # Rejected, profile.type # "custom",
             "type" \notin DOMAIN CustomOutbound(profile)
      PROVE  Val(Out(profile), "type") = profile.type
  <2>1. Val(Raw(profile), "type") = profile.type
    BY <1>1, TypeOfOutbound DEF IInv
  <2> QED  BY <1>1, <2>1, NamesKept DEF Out, Raw
<1>2. IInv => LabelIsProtocol
  BY <1>1 DEF LabelIsProtocol
<1> QED  BY <1>2, ServiceInvariant, PTL

\* No config refers to an outbound, a DNS server, a rule set or an inbound that
\* it does not define (config/*.go), unless a c_out renames the outbound.
THEOREM NoDanglingReference == Spec => []ReferencesResolve
<1>1. IInv => ReferencesResolve
  BY ConfigReferences DEF IInv
<1> QED  BY <1>1, ServiceInvariant, PTL

\* Looking up the proxy's own server name never needs the proxy (dns.go).
THEOREM NoResolverLoop == Spec => []ProxyNameNeedsNoProxy
<1>1. IInv => ProxyNameNeedsNoProxy
  BY ConfigResolver DEF IInv
<1> QED  BY <1>1, ServiceInvariant, PTL

\* With DNS routing on, a listed name is resolved by the server that fits the
\* outbound its connections take (dns.go against route.go).
THEOREM ResolverFollowsRoute == Spec => []DnsFollowsRoute
<1>1. IInv => DnsFollowsRoute
  BY ConfigDns DEF IInv
<1> QED  BY <1>1, ServiceInvariant, PTL

-----------------------------------------------------------------------------
(* Trips, by the lemmas above.                                             *)

\* What has no link cannot be imported from one.
LEMMA NothingToShare ==
  ASSUME NEW q, q.type \in {"custom", Empty}
  PROVE  ParseLink(GenerateLink(q)) = Rejected
<1>1. DecodeBean(q.type) \in {"CustomBean", "UnknownBeanTypeError"}
  <2>1. CASE q.type = "custom"
    BY <2>1 DEF DecodeBean
  <2>2. CASE q.type = Empty
    <3>1. /\ Empty \notin {"socks", "http", "vless", "trojan", "hysteria2", "tuic"}
          /\ Empty # "shadowsocks" /\ Empty # "vmess" /\ Empty # "custom" /\ Empty # "chain"
          /\ Empty # "naive" /\ Empty # "anytls" /\ Empty # "ssh" /\ Empty # "wireguard"
      BY Zenon DEF Empty
    <3> QED  BY <2>2, <3>1 DEF DecodeBean
  <2> QED  BY <2>1, <2>2
<1>2. GenerateLink(q) = NoLink
  BY <1>1 DEF GenerateLink
<1>3. NoLink.scheme = Empty
  BY LinkParts DEF NoLink
<1>4. Empty \notin {"ss", "vmess", "vless", "trojan", "hysteria2", "hy2", "tuic",
                    "socks4", "socks4a", "socks5", "socks", "http", "https",
                    "naive+https", "naive", "anytls", "ssh", "wireguard", "wg"}
  BY Zenon DEF Empty
<1>5. ParseLink(NoLink) = Rejected
  BY <1>3, <1>4, ParserOf
<1> QED  BY <1>2, <1>5

\* A profile that came back is labelled as the one that was shared.
LEMMA AfterLabelled ==
  ASSUME NEW q, ParseLink(GenerateLink(q)) # Rejected
  PROVE  Labelled(After(q))
BY ParsedLink, JsonLabelled DEF After, ParsedAs

\* The second time nothing changes.
LEMMA SecondTripSettles ==
  ASSUME NEW q, Labelled(q), ParseLink(GenerateLink(q)) # Rejected,
         NEW b, b = After(q), ParseLink(GenerateLink(b)) # Rejected, ~Unsayable(b)
  PROVE  After(b) = b
<1>1. Labelled(b)
  BY AfterLabelled
<1>2. CASE q.type = "ssh"
  <2>1. SSHAfter(q, b)
    BY <1>2, SSHTrip
  <2>2. b.type = "ssh"
    BY <2>1 DEF SSHAfter, Made
  <2> QED  BY <2>1, <2>2, SSHTrip, SSHSettles
<1>3. CASE q.type = "naive"
  <2>1. NaiveAfter(q, b)
    BY <1>3, NaiveTrip
  <2>2. b.type = "naive"
    BY <2>1 DEF NaiveAfter, Made
  <2> QED  BY <2>1, <2>2, NaiveTrip, NaiveSettles
<1>4. CASE q.type = "anytls"
  <2>1. AnyTLSAfter(q, b)
    BY <1>4, AnyTLSTrip
  <2>2. b.type = "anytls"
    BY <2>1 DEF AnyTLSAfter, Made
  <2> QED  BY <2>1, <2>2, AnyTLSTrip, AnyTLSSettles
<1>5. CASE q.type = "wireguard"
  <2>1. WireGuardAfter(q, b)
    BY <1>5, WireGuardTrip
  <2>2. b.type = "wireguard"
    BY <2>1 DEF WireGuardAfter, Made
  <2> QED  BY <2>1, <2>2, WireGuardTrip, WireGuardSettles
<1>6. CASE q.type = "tuic"
  <2>1. TuicAfter(q, b)
    BY <1>6, TuicTrip
  <2>2. b.type = "tuic"
    BY <2>1 DEF TuicAfter, Made
  <2> QED  BY <1>1, <2>1, <2>2, TuicTrip, TuicSettles
<1>7. CASE q.type = "hysteria2"
  <2>1. HysteriaAfter(q, b)
    BY <1>7, HysteriaTrip
  <2>2. b.type = "hysteria2"
    BY <2>1 DEF HysteriaAfter, Made
  <2> QED  BY <1>1, <2>1, <2>2, HysteriaTrip, HysteriaSettles
<1>8. CASE q.type = "shadowsocks"
  <2>1. ShadowsocksAfter(q, b)
    BY <1>8, ShadowsocksTrip
  <2>2. b.type = "shadowsocks"
    BY <2>1 DEF ShadowsocksAfter, Made
  <2> QED  BY <2>1, <2>2, ShadowsocksTrip, ShadowsocksSettles
<1>9. CASE q.type = "http"
  <2>1. HttpAfter(q, b)
    BY <1>9, HttpTrip
  <2>2. b.type = "http"
    BY <2>1 DEF HttpAfter, Made
  <2> QED  BY <1>1, <2>1, <2>2, HttpTrip, HttpSettles
<1>10. CASE q.type = "vmess"
  <2>1. VMessAfter(q, b)
    BY <1>10, VMessTrip
  <2>2. b.type = "vmess"
    BY <2>1 DEF VMessAfter, Made
  <2> QED  BY <2>1, <2>2, VMessTrip, VMessSettles
<1>11. CASE q.type \in {"vless", "trojan"}
  <2>1. UrlAfter(q, b, q.type)
    BY <1>11, UrlTrip
  <2>2. b.type = q.type
    BY <2>1 DEF UrlAfter, Made
  <2>3. UrlAfter(b, After(b), q.type)
    BY <1>1, <1>11, <2>2, UrlTrip
  <2>4. q.type = "trojan" => Val(Stream(b), "sec") # Empty
    BY <2>2 DEF Unsayable
  <2> QED  BY <1>11, <2>1, <2>3, <2>4, UrlSettles
<1>12. q.type # "socks" /\ q.type # "custom"
  BY SocksRefused, NothingToShare
<1> QED  BY <1>2, <1>3, <1>4, <1>5, <1>6, <1>7, <1>8, <1>9, <1>10, <1>11, <1>12
         DEF Labelled, Types, StreamTypes

\* After a trip the profile is one that came back.
TripInv ==
  /\ trips \in Nat
  /\ trips > 0 => \E q : Labelled(q) /\ ParseLink(GenerateLink(q)) # Rejected /\ profile = After(q)

\* A step either leaves the trips alone and, once there was one, the profile, or
\* is a trip of a labelled profile.
LEMMA TripStep ==
  ASSUME IInv, TripInv, [Next]_vars
  PROVE  \/ trips' = trips /\ (trips > 0 => profile' = profile)
         \/ /\ trips' = trips + 1 /\ Labelled(profile)
            /\ ParseLink(GenerateLink(profile)) # Rejected
            /\ profile' = After(profile)
<1>1. trips > 0 => profile # Rejected
  BY AfterLabelled, ProfileFields, NotEmpty DEF TripInv, Labelled, Rejected
<1>2. ASSUME NEW content \in Contents, Import(content)
      PROVE  trips' = trips /\ ~(trips > 0)
  BY <1>1, <1>2 DEF Import
<1>3. ASSUME NEW form \in EditorForms, Create(form)
      PROVE  trips' = trips /\ ~(trips > 0)
  BY <1>1, <1>3 DEF Create
<1>4. ASSUME NEW type \in Types, Retype(type)
      PROVE  trips' = trips /\ ~(trips > 0)
  BY <1>4 DEF Retype
<1>5. CASE Share
  BY <1>5 DEF Share
<1>6. CASE ImportShared
  <2>1. /\ trips' = trips + 1 /\ ParseLink(GenerateLink(profile)) # Rejected
        /\ profile' = After(profile)
    BY <1>6 DEF ImportShared, Keep, After
  <2>2. profile # Rejected
    <3>1. Rejected.type = Empty
      BY ProfileFields DEF Rejected
    <3> QED  BY <2>1, <3>1, NothingToShare
  <2> QED  BY <2>1, <2>2 DEF IInv
<1>7. ASSUME NEW cfg \in Routings, NEW ds \in DataStores, NEW forTest \in BOOLEAN,
             BuildConfig(cfg, ds, forTest)
      PROVE  trips' = trips /\ profile' = profile
  BY <1>7 DEF BuildConfig
<1>8. CASE UNCHANGED vars
  BY <1>8 DEF vars
<1> QED  BY <1>2, <1>3, <1>4, <1>5, <1>6, <1>7, <1>8 DEF Next

\* So what was imported from a shared link is known, and stays what it is.
LEMMA TripKeeps == IInv /\ TripInv /\ [Next]_vars => TripInv'
<1> SUFFICES ASSUME IInv, TripInv, [Next]_vars
             PROVE  TripInv'
  OBVIOUS
<1>1. trips \in Nat
  BY DEF TripInv
<1>2. CASE trips' = trips /\ (trips > 0 => profile' = profile)
  BY <1>1, <1>2 DEF TripInv
<1>3. CASE /\ trips' = trips + 1 /\ Labelled(profile)
           /\ ParseLink(GenerateLink(profile)) # Rejected
           /\ profile' = After(profile)
  BY <1>1, <1>3 DEF TripInv
<1> QED  BY <1>2, <1>3, TripStep

\* Sharing again what was imported from a shared link changes nothing any more
\* (link_gen.go against link.go), but for a trojan without encryption.
THEOREM SecondShareIsFaithful == Spec => RoundTripSettles
<1>1. Init => TripInv
  BY DEF Init, TripInv
<1>2. ASSUME IInv, TripInv, [Next]_vars
      PROVE  [trips' > trips /\ trips > 0 /\ ~Unsayable(profile) => profile' = profile]_vars
  <2>1. trips \in Nat
    BY <1>2 DEF TripInv
  <2>2. CASE trips' = trips /\ (trips > 0 => profile' = profile)
    BY <2>1, <2>2
  <2>3. CASE /\ trips' = trips + 1 /\ Labelled(profile)
             /\ ParseLink(GenerateLink(profile)) # Rejected
             /\ profile' = After(profile)
    BY <1>2, <2>3, SecondTripSettles DEF TripInv
  <2> QED  BY <1>2, <2>2, <2>3, TripStep
<1> QED  BY <1>1, <1>2, TripKeeps, ServiceInvariant, PTL DEF Spec, RoundTripSettles

-----------------------------------------------------------------------------
(* What the client stores is what a form offers.                           *)

\* Keys no parser writes.
NeverSaid == {"caText", "uos", "heartbeat", "listenPort", "udpTimeout", "workers",
              "cert", "pac_enc", "c_out"}

Checkboxes == {"allowInsecure", "disableSni", "quic", "insecure"}

\* A key any parser may write, with any value.
Harmless(k) == k \notin NeverSaid \union Checkboxes \union {"net"}

\* A bean or a stream as the parsers write it.
Tame(f) ==
  \A k \in DOMAIN f :
    /\ k \notin NeverSaid
    /\ k \in Checkboxes => f[k] \in {Empty, "1"}
    /\ k = "net" => f[k] # "h2"

\* Every way to build one keeps it tame.
LEMMA TameParts ==
  /\ Tame(None)
  /\ \A k, v : Harmless(k) => Tame(k :> v) /\ Tame(Set(k, v))
  /\ \A k \in Checkboxes, condition \in BOOLEAN : Tame(Flag(k, condition))
  /\ \A v : v # "h2" => Tame("net" :> v)
  /\ \A m, table : (\A k \in DOMAIN table : Harmless(k)) => Tame(Copy(m, table))
  /\ \A f, g : Tame(f) /\ Tame(g) => Tame(f @@ g)
<1>1. Tame(None)
  BY DEF Tame, None
<1>2. \A k, v : Harmless(k) => Tame(k :> v) /\ Tame(Set(k, v))
  BY <1>1 DEF Tame, Harmless, Set, :>
<1>3. \A k \in Checkboxes, condition \in BOOLEAN : Tame(Flag(k, condition))
  <2>1. \A k \in Checkboxes : k \notin NeverSaid \union {"net"}
    BY DEF Checkboxes, NeverSaid
  <2> QED  BY <1>1, <2>1 DEF Tame, Flag, :>
<1>4. \A v : v # "h2" => Tame("net" :> v)
  BY DEF Tame, :>, NeverSaid, Checkboxes
<1>5. \A m, table : (\A k \in DOMAIN table : Harmless(k)) => Tame(Copy(m, table))
  BY DEF Tame, Harmless, Copy
<1>6. \A f, g : Tame(f) /\ Tame(g) => Tame(f @@ g)
  BY DEF Tame, @@
<1> QED  BY <1>1, <1>2, <1>3, <1>4, <1>5, <1>6

\* The types whose parser or form never leaves the port 0.
PortTypes == {"socks", "http", "vless", "trojan", "hysteria2", "tuic"}

\* A profile as forms and links make them.
FieldsOK(b) ==
  /\ b.port # Empty /\ (b.type \in PortTypes => b.port # "0")
  /\ \A k \in {"caText", "uos", "heartbeat", "listenPort", "udpTimeout", "workers"} :
       Val(b.f, k) = Empty
  /\ \A k \in {"allowInsecure", "disableSni", "quic"} : Val(b.f, k) \in {Empty, "1"}
  /\ \A k \in {"cert", "pac_enc"} : Val(Stream(b), k) = Empty
  /\ Val(Stream(b), "insecure") \in {Empty, "1"}
  /\ Val(Stream(b), "net") # "h2"

\* As links alone make them.
LinkOK(b) == FieldsOK(b) /\ Val(b.f, "c_out") = Empty

\* A profile made of tame parts is one of them.
LEMMA TameProfile ==
  ASSUME NEW type, NEW name, NEW addr, NEW port, NEW f, NEW stream, Tame(f), Tame(stream),
         port # Empty, type \in PortTypes => port # "0"
  PROVE  LinkOK(Profile(type, name, addr, port, f, stream))
<1> DEFINE b == Profile(type, name, addr, port, f, stream)
<1>1. /\ b.type = type /\ b.port = port /\ b.f = f /\ b.stream \in {stream, NilStream}
  BY DEF Profile
<1>2. Tame(Stream(b))
  <2>1. Stream(b) \in {stream, None}
    BY <1>1 DEF Stream
  <2> QED  BY <2>1, TameParts
<1> HIDE DEF b
<1>3. \A g, k : Tame(g) =>
        /\ k \in NeverSaid => Val(g, k) = Empty
        /\ k \in Checkboxes => Val(g, k) \in {Empty, "1"}
        /\ k = "net" => Val(g, k) # "h2"
  <2>1. Empty # "h2"
    BY Zenon DEF Empty
  <2> QED  BY <2>1 DEF Tame, Val
<1> HIDE DEF Tame
<1>4. LinkOK(b)
  BY <1>1, <1>2, <1>3 DEF LinkOK, FieldsOK, NeverSaid, Checkboxes
<1> QED  BY <1>4 DEF b

\* The keys the parsers write besides.
LEMMA HarmlessKeys ==
  \A k \in {"socks_http_type", "username", "password", "sec", "sni", "pbk", "sid", "spx", "utls",
            "path", "host", "h_type", "alpn", "flow", "proxy_type", "method", "plugin", "aid",
            "uuid", "congestionControl", "udpRelayMode", "hopPort", "obfsPassword", "user",
            "minIdleSession", "clientMetadata", "privateKey", "clientVersion",
            "hostKeyAlgorithms", "id", "peerAddress", "peerPort", "address", "peerPublicKey",
            "peerPreSharedKey", "peerAllowedIPs", "mtu", "peerKeepAlive", "peerReserved"} :
    Harmless(k)
BY DEF Harmless, NeverSaid, Checkboxes

\* Both discriminators are.
LEMMA TameProxyType ==
  ASSUME NEW type
  PROVE  Tame(ProxyType(type))
<1>1. ProxyType(type) \in {None, "proxy_type" :> "1", "proxy_type" :> "3"}
  BY DEF ProxyType
<1>2. \A v : Tame("proxy_type" :> v)
  BY TameParts, HarmlessKeys
<1> QED  BY <1>1, <1>2, TameParts

\* The stream a URL describes.
LEMMA TameStreamOfQuery ==
  ASSUME NEW q, NEW sec
  PROVE  Tame(StreamOfQuery(q, sec))
<1> DEFINE insecure == Val(q, "allowInsecure") # Empty
           sni == ValOr(q, "peer", Val(q, "sni"))
           keys == Copy(q, [pbk |-> "pbk", sid |-> "sid", spx |-> "spx", utls |-> "fp"])
<1>1. Tame("net" :> Network(q))
  <2>1. Network(q) # "h2"
    BY DEF Network
  <2> QED  BY <2>1, TameParts
<1>2. Tame(Set("sec", sec)) /\ Tame(Set("sni", sni))
  BY TameParts, HarmlessKeys
<1>3. Tame(Flag("insecure", insecure))
  <2>1. "insecure" \in Checkboxes /\ insecure \in BOOLEAN
    BY DEF Checkboxes
  <2> QED  BY <2>1, TameParts
<1>4. Tame(keys)
  BY TameParts, HarmlessKeys
<1>5. Tame(TransportOfQuery(q))
  <2> DEFINE both == Copy(q, [path |-> "path", host |-> "host"])
             name == Copy(q, [path |-> "serviceName"])
             head == "h_type" :> "http"
  <2>1. Tame(both) /\ Tame(name) /\ Tame(head)
    BY TameParts, HarmlessKeys
  <2>2. TransportOfQuery(q) \in {both, name, head @@ both, None}
    BY DEF TransportOfQuery
  <2> HIDE DEF both, name, head
  <2> QED  BY <2>1, <2>2, TameParts
<1> HIDE DEF insecure, sni, keys
<1>6. StreamOfQuery(q, sec) = "net" :> Network(q) @@ Set("sec", sec) @@ Set("sni", sni)
        @@ Flag("insecure", insecure) @@ keys @@ TransportOfQuery(q)
  BY DEF StreamOfQuery, insecure, sni, keys
<1> QED  BY <1>1, <1>2, <1>3, <1>4, <1>5, <1>6, TameParts

\* Ports the parsers put in the place of a missing one.
LEMMA PortDefaults ==
  ASSUME NEW l
  PROVE  /\ PortOr(l, "443") \notin {Empty, "0"} /\ PortOr(l, "1080") \notin {Empty, "0"}
         /\ ValOr(l, "port", "0") # Empty /\ ValOr(l, "port", "443") # Empty
         /\ ValOr(l, "port", "22") # Empty /\ ValOr(l, "port", "51820") # Empty
<1>1. Empty \notin {"443", "1080", "0", "22", "51820"}
  BY Zenon DEF Empty
<1> QED  BY <1>1 DEF PortOr, ValOr

\* What each parser returns is a profile as forms and links make them.
LEMMA SocksHTTPFields ==
  ASSUME NEW l
  PROVE  LinkOK(ParseSocksHTTP(l))
<1> DEFINE http == l.scheme \in {"http", "https"}
           socks4 == l.scheme \in {"socks4", "socks4a"}
           kind == IF http THEN "2" ELSE IF socks4 THEN Empty ELSE "1"
           sec == IF l.scheme = "https" THEN "tls" ELSE Val(l.query, "security")
           f == Set("socks_http_type", kind) @@ Set("username", l.user) @@ Set("password", l.pass)
           stream == "net" :> "tcp" @@ Set("sec", sec) @@ Set("sni", Val(l.query, "sni"))
<1>1. ParseSocksHTTP(l) =
        Profile(IF http THEN "http" ELSE "socks", l.name, l.host, PortOr(l, "1080"), f, stream)
  BY DEF ParseSocksHTTP
<1> HIDE DEF kind, sec
<1>2. Tame(f)
  BY TameParts, HarmlessKeys
<1>3. Tame(stream)
  BY TameParts, HarmlessKeys
<1> HIDE DEF f, stream, http
<1> QED  BY <1>1, <1>2, <1>3, PortDefaults, TameProfile

\* A trojan or vless link.
LEMMA TrojanVLESSFields ==
  ASSUME NEW l, ParseTrojanVLESS(l) # Rejected
  PROVE  LinkOK(ParseTrojanVLESS(l))
<1> DEFINE flow == IF l.scheme = "vless" THEN Copy(l.query, [flow |-> "flow"]) ELSE None
           sec == SecurityOf(l.query, IF l.scheme = "trojan" THEN "tls" ELSE Empty)
           f == "password" :> l.user @@ ProxyType(l.scheme) @@ flow
           stream == Copy(l.query, [alpn |-> "alpn"]) @@ StreamOfQuery(l.query, sec)
<1>1. ParseTrojanVLESS(l) =
        Profile(l.scheme, l.name, l.host, PortOr(l, "443"), f, stream)
  BY DEF ParseTrojanVLESS
<1>2. Tame(flow)
  BY TameParts, HarmlessKeys
<1> HIDE DEF sec, flow
<1>3. Tame(f)
  BY <1>2, TameParts, TameProxyType, HarmlessKeys
<1>4. Tame(stream)
  BY TameParts, TameStreamOfQuery, HarmlessKeys
<1> HIDE DEF f, stream
<1> QED  BY <1>1, <1>3, <1>4, PortDefaults, TameProfile

\* A shadowsocks link.
LEMMA ShadowsocksFields ==
  ASSUME NEW l, ParseShadowsocks(l) # Rejected
  PROVE  LinkOK(ParseShadowsocks(l))
<1> DEFINE plugin == PluginOf(l.query)
           f == "method" :> l.user @@ "password" :> l.pass @@ Set("plugin", plugin)
           stream == "net" :> "tcp"
<1>1. ParseShadowsocks(l) =
        Profile("shadowsocks", l.name, l.host, ValOr(l, "port", "0"), f, stream)
  BY DEF ParseShadowsocks
<1> HIDE DEF plugin
<1>2. Tame(f) /\ Tame(stream)
  BY TameParts, HarmlessKeys
<1>3. "shadowsocks" \notin PortTypes
  BY DEF PortTypes
<1> HIDE DEF f, stream
<1> QED  BY <1>1, <1>2, <1>3, PortDefaults, TameProfile

\* A hysteria2 or tuic link.
LEMMA QUICFields ==
  ASSUME NEW l, ParseQUIC(l) # Rejected
  PROVE  LinkOK(ParseQUIC(l))
<1> DEFINE said == Copy(l.query, [congestionControl |-> "congestion_control", alpn |-> "alpn",
                                  sni |-> "sni", udpRelayMode |-> "udp_relay_mode"])
           c1 == Val(l.query, "allow_insecure") = "1"
           c2 == Val(l.query, "disable_sni") = "1"
           tuic == ProxyType("tuic") @@ Set("uuid", l.user) @@ Set("password", l.pass) @@ said
                     @@ Flag("allowInsecure", c1) @@ Flag("disableSni", c2)
           password == IF l.form = "pair" THEN l.user \o ":" \o l.pass ELSE l.user
           told == Copy(l.query, "hopPort" :> "mport" @@ "obfsPassword" :> "obfs-password"
                                   @@ "sni" :> "sni")
           c3 == Val(l.query, "insecure") \in {"1", "true"}
           hysteria == ProxyType("hysteria2") @@ Set("password", password) @@ told
                         @@ Flag("allowInsecure", c3)
<1>1. ParseQUIC(l) \in {Profile("tuic", l.name, l.host, PortOr(l, "443"), tuic, NilStream),
                        Profile("hysteria2", l.name, l.host, PortOr(l, "443"), hysteria, NilStream)}
  BY DEF ParseQUIC
<1>2. "allowInsecure" \in Checkboxes /\ "disableSni" \in Checkboxes
      /\ c1 \in BOOLEAN /\ c2 \in BOOLEAN /\ c3 \in BOOLEAN
  BY DEF Checkboxes
<1>3. Tame(said)
  BY TameParts, HarmlessKeys
<1>4. Tame(told)
  <2> DEFINE table == "hopPort" :> "mport" @@ "obfsPassword" :> "obfs-password" @@ "sni" :> "sni"
  <2>1. DOMAIN table = {"hopPort", "obfsPassword", "sni"}
    BY DEF :>, @@
  <2> HIDE DEF table
  <2>2. \A k \in DOMAIN table : Harmless(k)
    BY <2>1, HarmlessKeys
  <2> QED  BY <2>2, TameParts DEF table
<1> HIDE DEF said, told, password, c1, c2, c3
<1>5. Tame(tuic) /\ Tame(hysteria)
  BY <1>2, <1>3, <1>4, TameParts, TameProxyType, HarmlessKeys
<1>6. Tame(NilStream)
  <2>1. Harmless("nil")
    BY DEF Harmless, NeverSaid, Checkboxes
  <2> QED  BY <2>1, TameParts DEF NilStream
<1> HIDE DEF tuic, hysteria, NilStream
<1> QED  BY <1>1, <1>5, <1>6, PortDefaults, TameProfile

\* The tls keys of naive and anytls.
LEMMA TameTls ==
  ASSUME NEW l
  PROVE  Tame(TlsOfQuery(l))
<1> DEFINE sni == ValOr(l.query, "sni", l.host)
           insecure == "1" \in {Val(l.query, "insecure"), Val(l.query, "allow_insecure")}
           alpn == Copy(l.query, [alpn |-> "alpn"])
<1>1. TlsOfQuery(l) = "sni" :> sni @@ alpn @@ Flag("allowInsecure", insecure)
  BY DEF TlsOfQuery
<1>2. "allowInsecure" \in Checkboxes /\ insecure \in BOOLEAN
  BY DEF Checkboxes
<1>3. Tame(alpn)
  BY TameParts, HarmlessKeys
<1> HIDE DEF sni, insecure, alpn
<1> QED  BY <1>1, <1>2, <1>3, TameParts, HarmlessKeys

\* The links of the protocols without a stream of their own.
LEMMA PlainFields ==
  ASSUME NEW l
  PROVE  /\ ParseNaive(l) # Rejected => LinkOK(ParseNaive(l))
         /\ ParseAnyTLS(l) # Rejected => LinkOK(ParseAnyTLS(l))
         /\ ParseSSH(l) # Rejected => LinkOK(ParseSSH(l))
         /\ ParseWireGuard(l) # Rejected => LinkOK(ParseWireGuard(l))
<1> DEFINE tls == TlsOfQuery(l)
           quic == Val(l.query, "quic") = "1"
           naive == Set("username", l.user) @@ Set("password", l.pass) @@ tls @@ Flag("quic", quic)
           password == IF l.form = "pair" THEN l.pass ELSE l.user
           sessions == Copy(l.query, [minIdleSession |-> "min_idle_session",
                                      clientMetadata |-> "client_metadata"])
           anytls == Set("password", password) @@ tls @@ sessions
           keys == Copy(l.query, [privateKey |-> "private_key", clientVersion |-> "client_version",
                                  hostKeyAlgorithms |-> "host_key_algorithms"])
           ssh == Set("user", l.user) @@ Set("password", l.pass) @@ keys
           peer == Copy(l.query, [address |-> "address", peerPublicKey |-> "public_key",
                      peerPreSharedKey |-> "pre_shared_key", peerAllowedIPs |-> "allowed_ips",
                      mtu |-> "mtu", peerKeepAlive |-> "keepalive", peerReserved |-> "reserved"])
           port == ValOr(l, "port", "51820")
           wireguard == Set("privateKey", password) @@ "peerAddress" :> l.host
                          @@ "peerPort" :> port @@ peer
                          @@ "address" :> "10.0.0.2/32" @@ "peerAllowedIPs" :> AnyAddress
<1>1. ParseNaive(l) # Rejected =>
        ParseNaive(l) = Profile("naive", Empty, l.host, ValOr(l, "port", "443"), naive, NilStream)
  BY DEF ParseNaive
<1>2. ParseAnyTLS(l) # Rejected =>
        ParseAnyTLS(l) = Profile("anytls", Empty, l.host, ValOr(l, "port", "443"), anytls, NilStream)
  BY DEF ParseAnyTLS
<1>3. ParseSSH(l) # Rejected =>
        ParseSSH(l) = Profile("ssh", Empty, l.host, ValOr(l, "port", "22"), ssh, NilStream)
  BY DEF ParseSSH
<1>4. ParseWireGuard(l) # Rejected =>
        ParseWireGuard(l) = Profile("wireguard", Empty, l.host, port, wireguard, NilStream)
  BY DEF ParseWireGuard
<1>5. "quic" \in Checkboxes /\ quic \in BOOLEAN
  BY DEF Checkboxes
<1>6. Tame(sessions) /\ Tame(keys)
  BY TameParts, HarmlessKeys
<1>7. Tame(peer)
  BY TameParts, HarmlessKeys
<1> HIDE DEF quic, password, sessions, keys, peer, tls
<1>8. Tame(tls)
  BY TameTls DEF tls
<1>9. Tame(naive) /\ Tame(anytls) /\ Tame(ssh)
  BY <1>5, <1>6, <1>8, TameParts, HarmlessKeys
<1> HIDE DEF port
<1>10. Tame(wireguard)
  BY <1>7, TameParts, HarmlessKeys
<1>11. Tame(NilStream)
  <2>1. Harmless("nil")
    BY DEF Harmless, NeverSaid, Checkboxes
  <2> QED  BY <2>1, TameParts DEF NilStream
<1>12. {"naive", "anytls", "ssh", "wireguard"} \cap PortTypes = {}
  BY DEF PortTypes
<1> HIDE DEF naive, anytls, ssh, wireguard, NilStream
<1> QED  BY <1>1, <1>2, <1>3, <1>4, <1>9, <1>10, <1>11, <1>12, PortDefaults, TameProfile DEF port

\* A vmess link, in both forms.
LEMMA VMessFields ==
  ASSUME NEW l, ParseVMess(l) # Rejected
  PROVE  LinkOK(ParseVMess(l))
<1> DEFINE q == l.query
<1>1. CASE l.form = "json"
  <2> DEFINE said == ValOr(q, "net", "tcp")
             net == IF said = "h2" THEN "http" ELSE said
             scy == ValOr(q, "scy", "auto")
             table == [host |-> "host", path |-> "path", sni |-> "sni", h_type |-> "type",
                       sec |-> "tls"]
             f == "id" :> q["id"] @@ Set("aid", Val(q, "aid")) @@ "sec" :> scy
             stream == "net" :> net @@ Copy(q, table)
  <2>1. ParseVMess(l) =
          Profile("vmess", Val(q, "ps"), q["add"], ValOr(q, "port", "0"), f, stream)
    BY <1>1 DEF ParseVMess, ParseVMessJson
  <2>2. net # "h2"
    OBVIOUS
  <2>3. Tame(Copy(q, table))
    BY TameParts, HarmlessKeys
  <2> HIDE DEF net, scy, table
  <2>4. Tame(f)
    BY TameParts, HarmlessKeys
  <2>5. Tame(stream)
    BY <2>2, <2>3, TameParts
  <2>6. "vmess" \notin PortTypes /\ ValOr(q, "port", "0") # Empty
    BY NotEmpty DEF PortTypes, ValOr
  <2> HIDE DEF f, stream, q
  <2> QED  BY <2>1, <2>4, <2>5, <2>6, TameProfile
<1>2. CASE l.form # "json"
  <2> DEFINE sec == ValOr(q, "security", "tls")
             read == IF sec = "reality" THEN "tls" ELSE sec
             scy == ValOr(q, "encryption", "auto")
             f == "id" :> l.user @@ "sec" :> scy
             stream == StreamOfQuery(q, read)
  <2>1. ParseVMess(l) = Profile("vmess", l.name, l.host, PortOr(l, "443"), f, stream)
    BY <1>2 DEF ParseVMess
  <2> HIDE DEF read, scy
  <2>2. Tame(f)
    BY TameParts, HarmlessKeys
  <2>3. Tame(stream)
    BY TameStreamOfQuery
  <2>4. "vmess" \notin PortTypes
    BY DEF PortTypes
  <2> HIDE DEF f, stream
  <2> QED  BY <2>1, <2>2, <2>3, <2>4, PortDefaults, TameProfile
<1> QED  BY <1>1, <1>2

\* So is what any link is parsed to.
LEMMA LinkFieldsOK ==
  ASSUME NEW l, ParseLink(l) # Rejected
  PROVE  LinkOK(ParseLink(l))
<1>1. CASE l.scheme \in {"ss", "vmess"}
  BY <1>1, ParserOf, ShadowsocksFields, VMessFields
<1>2. CASE l.scheme \in {"vless", "trojan"}
  BY <1>2, ParserOf, TrojanVLESSFields
<1>3. CASE l.scheme \in {"hysteria2", "hy2", "tuic"}
  BY <1>3, ParserOf, QUICFields
<1>4. CASE l.scheme \in {"socks4", "socks4a", "socks5", "socks", "http", "https"}
  BY <1>4, ParserOf, SocksHTTPFields
<1>5. CASE l.scheme \in {"naive+https", "naive", "anytls", "ssh", "wireguard", "wg"}
  BY <1>5, ParserOf, PlainFields
<1> QED  BY <1>1, <1>2, <1>3, <1>4, <1>5, ParserOf

\* toJson writes a discriminator, and leaves the rest.
LEMMA JsonFieldsOK ==
  ASSUME NEW b, HasFields(b), FieldsOK(b)
  PROVE  FieldsOK(ToJson(b)) /\ Val(ToJson(b).f, "c_out") = Val(b.f, "c_out")
<1> DEFINE d == Discriminator(b.type)
           keys == DiscriminatorKeys(b.type)
           rest == [k \in DOMAIN b.f \ keys |-> b.f[k]]
<1>1. /\ ToJson(b).type = b.type /\ ToJson(b).port = b.port
      /\ ToJson(b).stream = b.stream /\ ToJson(b).f = d @@ rest
  <2> HIDE DEF d, rest
  <2> QED  BY DEF HasFields, ToJson, d, rest
<1>2. DOMAIN d \subseteq {"socks_http_type", "proxy_type"}
  BY ValOfKey DEF Discriminator, ProxyType, None
<1>3. keys \subseteq {"socks_http_type", "proxy_type"}
  BY DEF DiscriminatorKeys
<1> HIDE DEF d, keys
<1>4. \A k : k \notin {"socks_http_type", "proxy_type"} => Val(d @@ rest, k) = Val(b.f, k)
  BY <1>2, <1>3 DEF Val, @@
<1>5. Stream(ToJson(b)) = Stream(b)
  BY <1>1 DEF Stream
<1> HIDE DEF rest
<1> QED  BY <1>1, <1>4, <1>5 DEF FieldsOK

\* What is stored is a profile as forms and links make them, and without c_out
\* if a link made it.
FieldsInv ==
  /\ profile # Rejected => FieldsOK(profile)
  /\ from # NoLink => Val(profile.f, "c_out") = Empty

\* Every step keeps it so.
LEMMA FieldsKept == IInv /\ FieldsInv /\ [Next]_vars => FieldsInv'
<1> SUFFICES ASSUME IInv, FieldsInv, [Next]_vars
             PROVE  FieldsInv'
  OBVIOUS
<1>1. ASSUME NEW b, HasFields(b), FieldsOK(b), Keep(b),
             from' = NoLink \/ Val(b.f, "c_out") = Empty
      PROVE  FieldsInv'
  BY <1>1, JsonFieldsOK DEF Keep, FieldsInv
<1>2. ASSUME NEW b, NEW type \in Types, Valid(Collected(b, type)),
             b.port # Empty,
             \A k \in {"caText", "uos", "heartbeat", "listenPort", "udpTimeout", "workers"} :
               Val(b.f, k) = Empty,
             \A k \in {"allowInsecure", "disableSni", "quic"} : Val(b.f, k) \in {Empty, "1"},
             \A k \in {"cert", "pac_enc"} : Val(Stream(b), k) = Empty,
             Val(Stream(b), "insecure") \in {Empty, "1"}, Val(Stream(b), "net") # "h2"
      PROVE  FieldsOK(Collected(b, type))
  <2> DEFINE c == Collected(b, type)
             s == Stream(b)
  <2>1. c.type = type /\ c.port = b.port /\ c.f = b.f /\ c.stream \in {s, NilStream}
    BY DEF Collected, Profile
  <2>2. Stream(c) \in {s, None}
    BY <2>1 DEF Stream
  <2>3. \A k : Val(None, k) = Empty
    BY LeanNone
  <2>4. "h2" # Empty
    BY Zenon DEF Empty
  <2>5. type \in PortTypes => b.port # "0"
    <3>1. "custom" \notin PortTypes
      BY DEF PortTypes
    <3>2. type = "custom" \/ b.port # "0"
      BY <1>2, <2>1 DEF Valid
    <3> QED  BY <3>1, <3>2
  <2> HIDE DEF c, s
  <2>6. /\ \A k \in {"cert", "pac_enc"} : Val(Stream(c), k) = Empty
        /\ Val(Stream(c), "insecure") \in {Empty, "1"} /\ Val(Stream(c), "net") # "h2"
    BY <1>2, <2>2, <2>3, <2>4 DEF s
  <2>7. FieldsOK(c)
    BY <1>2, <2>1, <2>5, <2>6 DEF FieldsOK
  <2> QED  BY <2>7 DEF c
<1>3. ASSUME NEW content \in Contents, Import(content)
      PROVE  FieldsInv'
  <2>1. PICK i \in DOMAIN ParseContent(content, "auto") :
          /\ ParseContent(content, "auto")[i] # Rejected
          /\ Keep(ParseContent(content, "auto")[i])
    BY <1>3 DEF Import
  <2> DEFINE b == ParseLink(content.entries[i])
  <2>2. b # Rejected /\ Keep(b)
    BY <2>1, ImportedEntry
  <2>3. HasFields(b) /\ LinkOK(b)
    BY <2>2, ParsedLink, LinkFieldsOK DEF ParsedAs
  <2> HIDE DEF b
  <2> QED  BY <1>1, <2>2, <2>3 DEF LinkOK
<1>4. ASSUME NEW form \in EditorForms, Create(form)
      PROVE  FieldsInv'
  <2>1. form.type \in Types /\ Offered(form)
    BY ServiceAssumption
  <2>2. FieldsOK(Collected(form, form.type))
    BY <1>2, <1>4, <2>1 DEF Create, Offered
  <2>3. from' = NoLink
    BY <1>4 DEF Create, IInv
  <2> QED  BY <1>1, <1>4, <2>2, <2>3, CollectedFields DEF Create
<1>5. ASSUME NEW type \in Types, Retype(type)
      PROVE  FieldsInv'
  <2>1. FieldsOK(profile)
    BY <1>5 DEF Retype, FieldsInv
  <2>2. FieldsOK(Collected(profile, type))
    BY <1>2, <1>5, <2>1 DEF Retype, FieldsOK
  <2> QED  BY <1>1, <1>5, <2>2, CollectedFields DEF Retype
<1>6. CASE Share
  BY <1>6 DEF Share, FieldsInv
<1>7. CASE ImportShared
  <2> DEFINE b == ParseLink(shared)
  <2>1. b # Rejected /\ Keep(b)
    BY <1>7 DEF ImportShared
  <2>2. HasFields(b) /\ LinkOK(b)
    BY <2>1, ParsedLink, LinkFieldsOK DEF ParsedAs
  <2> HIDE DEF b
  <2> QED  BY <1>1, <2>1, <2>2 DEF LinkOK
<1>8. ASSUME NEW cfg \in Routings, NEW ds \in DataStores, NEW forTest \in BOOLEAN,
             BuildConfig(cfg, ds, forTest)
      PROVE  FieldsInv'
  BY <1>8 DEF BuildConfig, FieldsInv
<1>9. CASE UNCHANGED vars
  BY <1>9 DEF vars, FieldsInv
<1> QED  BY <1>3, <1>4, <1>5, <1>6, <1>7, <1>8, <1>9 DEF Next

\* What a link says about encryption survives its import, here and on every
\* device it is shared to (link.go, link_gen.go and outbound.go).
THEOREM EncryptionSurvives == Spec => []TlsSurvives
<1>1. Init => FieldsInv
  BY DEF Init, FieldsInv
<1>2. ASSUME IInv, FieldsInv, from # NoLink, SaysTls(from)
      PROVE  Val(Out(profile), "tls.enabled") = "1"
  <2>1. Val(Raw(profile), "tls.enabled") = "1"
    BY <1>2, TlsOfOutbound DEF IInv
  <2>2. CustomOutbound(profile) = None
    BY <1>2 DEF FieldsInv, CustomOutbound
  <2> QED  BY <2>1, <2>2, Uncustomized DEF Out, Raw
<1>3. IInv /\ FieldsInv => TlsSurvives
  BY <1>2 DEF TlsSurvives
<1> QED  BY <1>1, <1>3, FieldsKept, ServiceInvariant, PTL DEF Spec

-----------------------------------------------------------------------------
(* Outbounds that agree.                                                   *)

\* The same keys with the same values, but for those of lost; and the same
\* values, an empty one and none being the same.
Agree(f, g, lost) ==
  \A x : x \notin lost => (x \in DOMAIN f <=> x \in DOMAIN g) /\ Val(f, x) = Val(g, x)

Same(f, g, lost) == \A x : x \notin lost => Val(f, x) = Val(g, x)

\* Outbounds are built of parts, and agree if the parts do.
LEMMA AgreeParts ==
  ASSUME NEW lost
  PROVE  /\ \A f : Agree(f, f, lost)
         /\ \A k, v, w : v = w \/ k \in lost => Agree(k :> v, k :> w, lost)
         /\ \A m, n, table :
              (\A x \in DOMAIN table \ lost : Val(m, table[x]) = Val(n, table[x]))
                => Agree(Copy(m, table), Copy(n, table), lost)
         /\ \A f, g, h, i : Agree(f, g, lost) /\ Agree(h, i, lost) => Agree(f @@ h, g @@ i, lost)
         /\ \A f, g, h, i : Agree(f, g, lost) /\ Same(h, i, lost) => Same(f @@ h, g @@ i, lost)
         /\ \A f, g : Agree(f, g, lost) => Same(f, g, lost)
<1>1. \A f : Agree(f, f, lost)
  BY DEF Agree
<1>2. \A k, v, w : v = w \/ k \in lost => Agree(k :> v, k :> w, lost)
  BY DEF Agree, :>, Val
<1>3. ASSUME NEW m, NEW n, NEW table,
             \A x \in DOMAIN table \ lost : Val(m, table[x]) = Val(n, table[x])
      PROVE  Agree(Copy(m, table), Copy(n, table), lost)
  <2>1. \A x : x \in DOMAIN Copy(m, table) <=> x \in DOMAIN table /\ Val(m, table[x]) # Empty
    BY DEF Copy
  <2>2. \A x : x \in DOMAIN Copy(n, table) <=> x \in DOMAIN table /\ Val(n, table[x]) # Empty
    BY DEF Copy
  <2> QED  BY <1>3, <2>1, <2>2, LeanCopy DEF Agree
<1>4. \A f, g, h, i : Agree(f, g, lost) /\ Agree(h, i, lost) => Agree(f @@ h, g @@ i, lost)
  BY DEF Agree, @@, Val
<1>5. \A f, g, h, i : Agree(f, g, lost) /\ Same(h, i, lost) => Same(f @@ h, g @@ i, lost)
  BY DEF Agree, Same, @@, Val
<1>6. \A f, g : Agree(f, g, lost) => Same(f, g, lost)
  BY DEF Agree, Same
<1> QED  BY <1>1, <1>2, <1>3, <1>4, <1>5, <1>6

\* Which is all the round trip asks of them.
SameBuilt(b, c) == Same(Raw(b), Raw(c), LostPaths(b.type))

\* By the definition.
LEMMA SameIsEnough ==
  ASSUME NEW b, NEW c, Same(Raw(b), Raw(c), LostPaths(b.type))
  PROVE  SameBuilt(b, c)
BY DEF SameBuilt

\* The common part.
LEMMA ServerAgrees ==
  ASSUME NEW b, NEW c, NEW lost, b.addr = c.addr, b.port = c.port
  PROVE  Agree(Server(b), Server(c), lost)
BY AgreeParts DEF Server

\* A copy of one key.
LEMMA CopyAgrees ==
  ASSUME NEW m, NEW n, NEW k, NEW key, NEW lost, Val(m, key) = Val(n, key) \/ k \in lost
  PROVE  Agree(Copy(m, k :> key), Copy(n, k :> key), lost)
<1>1. DOMAIN (k :> key) = {k} /\ (k :> key)[k] = key
  BY DEF :>
<1> HIDE DEF :>
<1>2. \A x \in DOMAIN (k :> key) \ lost : Val(m, (k :> key)[x]) = Val(n, (k :> key)[x])
  BY <1>1
<1> QED  BY <1>2, AgreeParts

\* The tls part of naive and anytls.
LEMMA TLSAgrees ==
  ASSUME NEW b, NEW c, NEW lost, Val(b.f, "allowInsecure") = Val(c.f, "allowInsecure"),
         Val(b.f, "sni") = Val(c.f, "sni"),
         Val(b.f, "alpn") = Val(c.f, "alpn") \/ "tls.alpn" \in lost
  PROVE  Agree(BuildTLS(b), BuildTLS(c), lost)
<1>1. Agree(Copy(b.f, "tls.alpn" :> "alpn"), Copy(c.f, "tls.alpn" :> "alpn"), lost)
  BY CopyAgrees
<1> QED  BY <1>1, AgreeParts DEF BuildTLS

-----------------------------------------------------------------------------
(* Outbounds after a round trip.                                           *)

\* Of each protocol a round trip loses what LostPaths says and nothing else.
LEMMA SSHKept ==
  ASSUME NEW q, NEW b, q.type = "ssh", FieldsOK(q), SSHAfter(q, b)
  PROVE  SameBuilt(q, b)
<1> DEFINE lost == LostPaths("ssh")
           table == [password |-> "password", private_key |-> "privateKey",
                     private_key_path |-> "privateKeyPath",
                     private_key_passphrase |-> "privateKeyPassphrase",
                     host_key_algorithms |-> "hostKeyAlgorithms",
                     client_version |-> "clientVersion"]
           base(c) == Server(c) @@ "type" :> "ssh" @@ "user" :> Val(c.f, "user")
<1>1. b.type = "ssh" /\ b.addr = q.addr /\ b.port = q.port
  BY DEF SSHAfter, Made, FieldsOK
<1>2. \A k \in SSHKeys : Val(b.f, k) = Val(q.f, k)
  BY DEF SSHAfter
<1>3. lost = {"private_key_path", "private_key_passphrase"}
  BY DEF LostPaths
<1>4. \A x \in DOMAIN table \ lost : Val(q.f, table[x]) = Val(b.f, table[x])
  BY <1>2, <1>3 DEF SSHKeys
<1> HIDE DEF lost, table
<1>5. Val(q.f, "user") = Val(b.f, "user")
  BY <1>2 DEF SSHKeys
<1>6. Agree(base(q), base(b), lost)
  BY <1>1, <1>5, ServerAgrees, AgreeParts
<1> HIDE DEF base
<1>7. Agree(base(q) @@ Copy(q.f, table), base(b) @@ Copy(b.f, table), lost)
  BY <1>4, <1>6, AgreeParts
<1>8. Raw(q) = base(q) @@ Copy(q.f, table) /\ Raw(b) = base(b) @@ Copy(b.f, table)
  BY <1>1, BuilderOf DEF BuildSSH, base, table
<1> QED  BY <1>7, <1>8, AgreeParts, SameIsEnough DEF lost

\* naive loses its udp-over-tcp and its concurrency.
LEMMA NaiveKept ==
  ASSUME NEW q, NEW b, q.type = "naive", FieldsOK(q), Sayable(q), NaiveAfter(q, b)
  PROVE  SameBuilt(q, b)
<1> DEFINE lost == LostPaths("naive")
           table == [insecure_concurrency |-> "insecureConcurrency",
                     udp_over_tcp |-> "udpOverTcp", quic |-> "quic"]
           base(c) == Server(c) @@ "type" :> "naive" @@ "username" :> Val(c.f, "username")
                        @@ "password" :> Val(c.f, "password")
<1>1. b.type = "naive" /\ b.addr = q.addr /\ b.port = q.port
  BY DEF NaiveAfter, Made, FieldsOK
<1>2. \A k \in {"username", "password", "alpn", "allowInsecure", "quic", "sni"} :
        Val(b.f, k) = Val(q.f, k)
  <2>1. \A k \in {"username", "password", "alpn"} : Val(b.f, k) = Val(q.f, k)
    BY DEF NaiveAfter, NaiveValue
  <2>2. \A k \in {"allowInsecure", "quic"} : Val(b.f, k) = Val(q.f, k)
    BY DEF NaiveAfter, NaiveValue, One, FieldsOK
  <2>3. Val(b.f, "sni") = Val(q.f, "sni")
    BY DEF NaiveAfter, NaiveValue, Sayable
  <2> QED  BY <2>1, <2>2, <2>3
<1>3. lost = {"udp_over_tcp", "insecure_concurrency"}
  BY DEF LostPaths
<1>4. \A x \in DOMAIN table \ lost : Val(q.f, table[x]) = Val(b.f, table[x])
  BY <1>2, <1>3
<1> HIDE DEF lost, table
<1>5. Agree(base(q), base(b), lost)
  BY <1>1, <1>2, ServerAgrees, AgreeParts
<1>6. Agree(BuildTLS(q), BuildTLS(b), lost)
  BY <1>2, TLSAgrees
<1> HIDE DEF base
<1>7. Agree(base(q) @@ Copy(q.f, table) @@ BuildTLS(q), base(b) @@ Copy(b.f, table) @@ BuildTLS(b), lost)
  BY <1>4, <1>5, <1>6, AgreeParts
<1>8. /\ Raw(q) = base(q) @@ Copy(q.f, table) @@ BuildTLS(q)
      /\ Raw(b) = base(b) @@ Copy(b.f, table) @@ BuildTLS(b)
  BY <1>1, BuilderOf DEF BuildNaive, base, table
<1> QED  BY <1>7, <1>8, AgreeParts, SameIsEnough DEF lost

\* anytls loses its ALPN and the timing of its sessions.
LEMMA AnyTLSKept ==
  ASSUME NEW q, NEW b, q.type = "anytls", FieldsOK(q), Sayable(q), AnyTLSAfter(q, b)
  PROVE  SameBuilt(q, b)
<1> DEFINE lost == LostPaths("anytls")
           table == [idle_session_check_interval |-> "idleSessionCheckInterval",
                     idle_session_timeout |-> "idleSessionTimeout",
                     min_idle_session |-> "minIdleSession", client_metadata |-> "clientMetadata"]
           base(c) == Server(c) @@ "type" :> "anytls" @@ "password" :> Val(c.f, "password")
<1>1. b.type = "anytls" /\ b.addr = q.addr /\ b.port = q.port
  BY DEF AnyTLSAfter, Made, FieldsOK
<1>2. \A k \in {"password", "minIdleSession", "clientMetadata", "allowInsecure", "sni"} :
        Val(b.f, k) = Val(q.f, k)
  <2>1. \A k \in {"password", "minIdleSession", "clientMetadata"} : Val(b.f, k) = Val(q.f, k)
    BY DEF AnyTLSAfter, AnyTLSValue
  <2>2. Val(b.f, "allowInsecure") = Val(q.f, "allowInsecure")
    BY DEF AnyTLSAfter, AnyTLSValue, One, FieldsOK
  <2>3. Val(b.f, "sni") = Val(q.f, "sni")
    BY DEF AnyTLSAfter, AnyTLSValue, Sayable
  <2> QED  BY <2>1, <2>2, <2>3
<1>3. lost = {"tls.alpn", "idle_session_check_interval", "idle_session_timeout"}
  BY DEF LostPaths
<1>4. \A x \in DOMAIN table \ lost : Val(q.f, table[x]) = Val(b.f, table[x])
  BY <1>2, <1>3
<1>5. "tls.alpn" \in lost
  BY <1>3
<1> HIDE DEF lost, table
<1>6. Agree(base(q), base(b), lost)
  BY <1>1, <1>2, ServerAgrees, AgreeParts
<1>7. Agree(BuildTLS(q), BuildTLS(b), lost)
  BY <1>2, <1>5, TLSAgrees
<1> HIDE DEF base
<1>8. Agree(base(q) @@ Copy(q.f, table) @@ BuildTLS(q), base(b) @@ Copy(b.f, table) @@ BuildTLS(b), lost)
  BY <1>4, <1>6, <1>7, AgreeParts
<1>9. /\ Raw(q) = base(q) @@ Copy(q.f, table) @@ BuildTLS(q)
      /\ Raw(b) = base(b) @@ Copy(b.f, table) @@ BuildTLS(b)
  BY <1>1, BuilderOf DEF BuildAnyTLS, base, table
<1> QED  BY <1>8, <1>9, AgreeParts, SameIsEnough DEF lost

\* wireguard loses the name and the kind of its interface.
LEMMA WireGuardKept ==
  ASSUME NEW q, NEW b, q.type = "wireguard", FieldsOK(q), Sayable(q), WireGuardAfter(q, b)
  PROVE  SameBuilt(q, b)
<1> DEFINE lost == LostPaths("wireguard")
           table == [system |-> "system", name |-> "interfaceName", mtu |-> "mtu",
                     address |-> "address", listen_port |-> "listenPort",
                     udp_timeout |-> "udpTimeout", workers |-> "workers"]
           ips(c) == ValOr(c.f, "peerAllowedIPs", AnyAddress)
           base(c) == "type" :> "wireguard" @@ "private_key" :> Val(c.f, "privateKey")
           peer(c) == base(c) @@ Copy(c.f, table) @@ "peer.address" :> c.addr
                        @@ "peer.port" :> c.port @@ "peer.allowed_ips" :> ips(c)
           keys == "peer.public_key" :> "peerPublicKey" @@ "peer.pre_shared_key" :> "peerPreSharedKey"
                     @@ "peer.persistent_keepalive_interval" :> "peerKeepAlive"
                     @@ "peer.reserved" :> "peerReserved"
<1>1. b.type = "wireguard" /\ b.addr = q.addr /\ b.port = q.port
  BY DEF WireGuardAfter, Made, FieldsOK
<1>2. \A k \in {"privateKey", "peerPublicKey", "peerPreSharedKey", "mtu", "peerKeepAlive",
                "peerReserved", "address", "listenPort", "udpTimeout", "workers"} :
        Val(b.f, k) = Val(q.f, k)
  <2>1. \A k \in {"privateKey", "peerPublicKey", "peerPreSharedKey", "mtu", "peerKeepAlive",
                  "peerReserved"} : Val(b.f, k) = Val(q.f, k)
    BY DEF WireGuardAfter, WireGuardValue
  <2>2. \A k \in {"listenPort", "udpTimeout", "workers"} : Val(b.f, k) = Val(q.f, k)
    <3>1. \A k \in {"listenPort", "udpTimeout", "workers"} : WireGuardValue(q, k) = Empty
      BY DEF WireGuardValue
    <3> QED  BY <3>1 DEF WireGuardAfter, FieldsOK
  <2>3. Val(b.f, "address") = Val(q.f, "address")
    <3>1. Val(q.f, "address") # Empty => WireGuardValue(q, "address") = Val(q.f, "address")
      BY Zenon DEF WireGuardValue
    <3> QED  BY <1>1, <3>1 DEF WireGuardAfter, Sayable
  <2> QED  BY <2>1, <2>2, <2>3
<1>3. ips(q) = ips(b)
  <2>1. Val(b.f, "peerAllowedIPs") =
          IF Val(q.f, "peerAllowedIPs") = Empty THEN AnyAddress ELSE Val(q.f, "peerAllowedIPs")
    BY Zenon DEF WireGuardAfter, WireGuardValue
  <2> QED  BY <2>1 DEF ValOr
<1>4. lost = {"system", "name"}
  BY DEF LostPaths
<1>5. \A x \in DOMAIN table \ lost : Val(q.f, table[x]) = Val(b.f, table[x])
  BY <1>2, <1>4
<1>6. \A x \in DOMAIN keys \ lost : Val(q.f, keys[x]) = Val(b.f, keys[x])
  BY <1>2 DEF :>, @@
<1> HIDE DEF lost, table, keys, ips
<1>7. Agree(base(q), base(b), lost)
  BY <1>2, AgreeParts
<1> HIDE DEF base
<1>8. Agree(peer(q), peer(b), lost)
  BY <1>1, <1>3, <1>5, <1>7, AgreeParts
<1> HIDE DEF peer
<1>9. Agree(peer(q) @@ Copy(q.f, keys), peer(b) @@ Copy(b.f, keys), lost)
  BY <1>6, <1>8, AgreeParts
<1>10. Raw(q) = peer(q) @@ Copy(q.f, keys) /\ Raw(b) = peer(b) @@ Copy(b.f, keys)
  BY <1>1, BuilderOf DEF BuildWireGuard, base, peer, ips, table, keys
<1> QED  BY <1>9, <1>10, AgreeParts, SameIsEnough DEF lost

\* hysteria2 loses its speeds, the hop interval and whether the SNI is sent.
LEMMA HysteriaKept ==
  ASSUME NEW q, NEW b, q.type = "hysteria2", Labelled(q), Labelled(b), FieldsOK(q),
         HysteriaAfter(q, b)
  PROVE  SameBuilt(q, b)
<1> DEFINE lost == LostPaths("hysteria2")
           tls(c) == "tls.enabled" :> "1" @@ "tls.disable_sni" :> Val(c.f, "disableSni")
                       @@ "tls.insecure" :> Val(c.f, "allowInsecure")
                       @@ "tls.server_name" :> Val(c.f, "sni")
                       @@ "tls.certificate" :> Val(c.f, "caText") @@ "tls.alpn" :> "h3"
           hop(c) == IF Val(c.f, "hopPort") = Empty THEN None
                     ELSE "hop_ports" :> c.f["hopPort"] @@ "hop_interval" :> Val(c.f, "hopInterval")
           base(c) == "type" :> "hysteria2" @@ "password" :> Val(c.f, "password")
                        @@ "up_mbps" :> Val(c.f, "uploadMbps")
                        @@ "down_mbps" :> Val(c.f, "downloadMbps")
           obfs(c) == Copy(c.f, "obfs.password" :> "obfsPassword")
<1>1. b.type = "hysteria2" /\ b.addr = q.addr /\ b.port = q.port
  <2>1. "hysteria2" \in PortTypes
    BY DEF PortTypes
  <2> QED  BY <2>1 DEF HysteriaAfter, Made, FieldsOK, Port443
<1>2. \A k \in {"password", "hopPort", "obfsPassword", "sni", "allowInsecure", "caText"} :
        Val(b.f, k) = Val(q.f, k)
  <2>1. \A k \in {"password", "hopPort", "obfsPassword", "sni"} : Val(b.f, k) = Val(q.f, k)
    BY DEF HysteriaAfter, HysteriaValue
  <2>2. Val(b.f, "allowInsecure") = Val(q.f, "allowInsecure")
    <3>1. Val(q.f, "allowInsecure") \in {Empty, "1"}
      BY DEF FieldsOK
    <3>2. Empty # "true"
      BY Zenon DEF Empty
    <3> QED  BY <3>1, <3>2, NotEmpty DEF HysteriaAfter, HysteriaValue
  <2>3. Val(b.f, "caText") = Val(q.f, "caText")
    BY DEF HysteriaAfter, HysteriaValue, FieldsOK
  <2> QED  BY <2>1, <2>2, <2>3
<1>3. lost = {"up_mbps", "down_mbps", "hop_interval", "tls.disable_sni"}
  BY DEF LostPaths
<1>4. Agree(tls(q), tls(b), lost)
  BY <1>2, <1>3, AgreeParts
<1>5. Agree(base(q), base(b), lost)
  BY <1>2, <1>3, AgreeParts
<1>6. Agree(hop(q), hop(b), lost)
  <2>1. Val(q.f, "hopPort") # Empty => q.f["hopPort"] = b.f["hopPort"]
    BY <1>2 DEF Val
  <2>2. Val(q.f, "hopPort") = Val(b.f, "hopPort")
    BY <1>2
  <2> QED  BY <1>3, <2>1, <2>2, AgreeParts
<1>7. Agree(obfs(q), obfs(b), lost)
  BY <1>2, CopyAgrees
<1>8. Agree(Server(q), Server(b), lost)
  BY <1>1, ServerAgrees
<1>9. \A c \in {q, b} : Raw(c) = Server(c) @@ tls(c) @@ (base(c) @@ hop(c) @@ obfs(c))
  <2> SUFFICES ASSUME NEW c \in {q, b}
               PROVE  Raw(c) = Server(c) @@ tls(c) @@ (base(c) @@ hop(c) @@ obfs(c))
    OBVIOUS
  <2>1. c.type = "hysteria2" /\ Val(c.f, "proxy_type") = "3"
    BY <1>1, DiscriminatorValues
  <2>2. Raw(c) = BuildQUIC(c)
    BY <2>1, BuilderOf
  <2>3. TlsOfQUIC(c) = tls(c)
    BY <2>1, Zenon DEF TlsOfQUIC
  <2>4. BuildHysteria2(c) = base(c) @@ hop(c) @@ obfs(c)
    BY Zenon DEF BuildHysteria2
  <2> HIDE DEF tls, base, hop, obfs
  <2> QED  BY <2>1, <2>2, <2>3, <2>4 DEF BuildQUIC
<1> HIDE DEF lost, tls, base, hop, obfs
<1>10. Agree(base(q) @@ hop(q) @@ obfs(q), base(b) @@ hop(b) @@ obfs(b), lost)
  BY <1>5, <1>6, <1>7, AgreeParts
<1>11. Agree(Raw(q), Raw(b), lost)
  BY <1>4, <1>8, <1>9, <1>10, AgreeParts
<1> QED  BY <1>11, AgreeParts, SameIsEnough DEF lost

\* tuic loses its 0-RTT handshake.
LEMMA TuicKept ==
  ASSUME NEW q, NEW b, q.type = "tuic", Labelled(q), Labelled(b), FieldsOK(q), TuicAfter(q, b)
  PROVE  SameBuilt(q, b)
<1> DEFINE lost == LostPaths("tuic")
           tls(c) == "tls.enabled" :> "1" @@ "tls.disable_sni" :> Val(c.f, "disableSni")
                       @@ "tls.insecure" :> Val(c.f, "allowInsecure")
                       @@ "tls.server_name" :> Val(c.f, "sni")
                       @@ "tls.certificate" :> Val(c.f, "caText")
                       @@ Copy(c.f, "tls.alpn" :> "alpn")
           relay(c) == "udp_relay_mode" :> Val(c.f, "udpRelayMode")
           base(c) == "type" :> "tuic" @@ "uuid" :> Val(c.f, "uuid")
                        @@ "password" :> Val(c.f, "password")
                        @@ "congestion_control" :> Val(c.f, "congestionControl")
           own(c) == base(c) @@ relay(c) @@ "zero_rtt_handshake" :> Val(c.f, "zeroRttHandshake")
                       @@ Copy(c.f, [heartbeat |-> "heartbeat"])
<1>1. b.type = "tuic" /\ b.addr = q.addr /\ b.port = q.port
  <2>1. "tuic" \in PortTypes
    BY DEF PortTypes
  <2> QED  BY <2>1 DEF TuicAfter, Made, FieldsOK, Port443
<1>2. \A k \in {"uuid", "password", "congestionControl", "alpn", "sni", "udpRelayMode",
                "allowInsecure", "disableSni", "caText", "heartbeat"} : Val(b.f, k) = Val(q.f, k)
  <2>1. \A k \in {"uuid", "password", "congestionControl", "alpn", "sni", "udpRelayMode"} :
          Val(b.f, k) = Val(q.f, k)
    BY DEF TuicAfter, TuicValue
  <2>2. \A k \in {"allowInsecure", "disableSni"} : Val(b.f, k) = Val(q.f, k)
    BY NotEmpty DEF TuicAfter, TuicValue, One, FieldsOK
  <2>3. \A k \in {"caText", "heartbeat"} : Val(b.f, k) = Val(q.f, k)
    BY DEF TuicAfter, TuicValue, FieldsOK
  <2> QED  BY <2>1, <2>2, <2>3
<1>3. Val(q.f, "uos") = Empty /\ Val(b.f, "uos") = Empty
  BY DEF TuicAfter, TuicValue, FieldsOK
<1>4. lost = {"zero_rtt_handshake"}
  BY DEF LostPaths
<1>5. Agree(tls(q), tls(b), lost)
  <2>1. Agree(Copy(q.f, "tls.alpn" :> "alpn"), Copy(b.f, "tls.alpn" :> "alpn"), lost)
    BY <1>2, CopyAgrees
  <2> QED  BY <1>2, <2>1, AgreeParts
<1>6. Agree(own(q), own(b), lost)
  <2> DEFINE table == [heartbeat |-> "heartbeat"]
             heart(c) == Copy(c.f, table)
  <2>1. Agree(base(q), base(b), lost) /\ Agree(relay(q), relay(b), lost)
    BY <1>2, AgreeParts
  <2>2. Agree(heart(q), heart(b), lost)
    <3>1. \A x \in DOMAIN table \ lost : Val(q.f, table[x]) = Val(b.f, table[x])
      BY <1>2
    <3> HIDE DEF table
    <3> QED  BY <3>1, AgreeParts
  <2> HIDE DEF base, relay, heart
  <2>3. Agree(base(q) @@ relay(q) @@ "zero_rtt_handshake" :> Val(q.f, "zeroRttHandshake") @@ heart(q),
              base(b) @@ relay(b) @@ "zero_rtt_handshake" :> Val(b.f, "zeroRttHandshake") @@ heart(b),
              lost)
    BY <1>4, <2>1, <2>2, AgreeParts
  <2> QED  BY <2>3 DEF base, relay, heart
<1>7. Agree(Server(q), Server(b), lost)
  BY <1>1, ServerAgrees
<1>8. \A c \in {q, b} : Raw(c) = Server(c) @@ tls(c) @@ own(c)
  <2> SUFFICES ASSUME NEW c \in {q, b}
               PROVE  Raw(c) = Server(c) @@ tls(c) @@ own(c)
    OBVIOUS
  <2>1. c.type = "tuic" /\ Val(c.f, "proxy_type") = "1" /\ Val(c.f, "uos") = Empty
    BY <1>1, <1>3, DiscriminatorValues
  <2>2. Raw(c) = BuildQUIC(c)
    BY <2>1, BuilderOf
  <2>3. "1" # "3"
    OBVIOUS
  <2>4. TlsOfQUIC(c) = tls(c)
    BY <2>1, <2>3, Zenon DEF TlsOfQUIC
  <2>5. BuildTuic(c) = own(c)
    BY <2>1, Zenon DEF BuildTuic
  <2> HIDE DEF tls, own
  <2> QED  BY <2>1, <2>2, <2>3, <2>4, <2>5 DEF BuildQUIC
<1> HIDE DEF lost, tls, own
<1>9. Agree(Raw(q), Raw(b), lost)
  BY <1>5, <1>6, <1>7, <1>8, AgreeParts
<1> QED  BY <1>9, AgreeParts, SameIsEnough DEF lost

-----------------------------------------------------------------------------
(* Streams after a round trip.                                             *)

CertPaths == {"tls.enabled", "tls.certificate"}

\* What the transport and the tls part of an outbound consist of.
LEMMA StreamParts ==
  ASSUME NEW s
  PROVE  /\ Over(TransportOf(s), TransportPaths)
         /\ Over(TlsOf(s), TlsPaths \union CertPaths)
<1> DEFINE ws == "transport.headers.Host" :> "host" @@ "transport.path" :> "path"
           path == "transport.host" :> "host" @@ "transport.path" :> "path"
           grpc == "transport.service_name" :> "path"
           head == "transport.type" :> "http" @@ "transport.method" :> "GET"
                     @@ "transport.path" :> Val(s, "path") @@ "transport.headers.Host" :> Val(s, "host")
<1>1. /\ DOMAIN ws \subseteq TransportPaths /\ DOMAIN path \subseteq TransportPaths
      /\ DOMAIN grpc \subseteq TransportPaths /\ Over(head, TransportPaths)
  BY DEF Over, TransportPaths, :>, @@
<1>2. \A m, table : DOMAIN table \subseteq TransportPaths => Over(Copy(m, table), TransportPaths)
  BY DEF Over, Copy
<1>3. Over(None, TransportPaths)
  BY DEF Over, None
<1>4. \A f : Over(f, TransportPaths) => Over("transport.type" :> ValOr(s, "net", Unnamed) @@ f, TransportPaths)
  BY DEF Over, TransportPaths, :>, @@
<1>5. TransportOf(s) \in {"transport.type" :> ValOr(s, "net", Unnamed) @@ Copy(s, ws),
                          "transport.type" :> ValOr(s, "net", Unnamed) @@ Copy(s, path),
                          "transport.type" :> ValOr(s, "net", Unnamed) @@ Copy(s, grpc),
                          "transport.type" :> ValOr(s, "net", Unnamed) @@ None, head, None}
  BY DEF TransportOf
<1> HIDE DEF ws, path, grpc, head
<1>6. Over(TransportOf(s), TransportPaths)
  BY <1>1, <1>2, <1>3, <1>4, <1>5
<1>7. Over(TlsOf(s), TlsPaths \union CertPaths)
  BY DEF Over, TlsOf, TlsPaths, CertPaths, :>, @@, Copy, None
<1> QED  BY <1>6, <1>7

\* The stream's part of an outbound, path by path.  A stream that is not there
\* gives none, as one without keys does but for its transport.
StreamPart(s, type, x) ==
  IF x \in TransportPaths THEN Val(TransportOf(s), x)
  ELSE IF x \in TlsPaths \union CertPaths THEN Val(TlsOf(s), x)
  ELSE IF x = "packet_encoding" /\ type \in {"vmess", "vless"} THEN Val(s, "pac_enc") ELSE Empty

\* BuildStreamSettingsSingBox says that and no more.
LEMMA StreamByPath ==
  ASSUME NEW b, NEW type, NEW x, x \in TransportPaths => b.stream # NilStream
  PROVE  Val(BuildStreamSettingsSingBox(b.stream, type), x) = StreamPart(Stream(b), type, x)
<1> DEFINE s == Stream(b)
           tls == TlsPaths \union CertPaths
           pac == IF type \in {"vmess", "vless"} THEN Copy(s, "packet_encoding" :> "pac_enc") ELSE None
<1>1. /\ Over(TransportOf(s), TransportPaths) /\ Over(TlsOf(s), tls)
  BY StreamParts
<1>2. Over(pac, {"packet_encoding"})
  BY DEF Over, Copy, None, :>
<1>3. Val(pac, "packet_encoding") =
        IF type \in {"vmess", "vless"} THEN Val(s, "pac_enc") ELSE Empty
  <2>1. Val(Copy(s, "packet_encoding" :> "pac_enc"), "packet_encoding") = Val(s, "pac_enc")
    BY LeanCopy DEF :>
  <2> QED  BY <2>1, LeanNone
<1>4. TransportPaths \cap tls = {} /\ "packet_encoding" \notin TransportPaths \union tls
  BY DEF TransportPaths, TlsPaths, CertPaths
<1>5. \A f, k, keys : Over(f, keys) /\ k \notin keys => Val(f, k) = Empty
  BY DEF Over, Val
<1> HIDE DEF s, tls, pac
<1>6. Val(TransportOf(s) @@ TlsOf(s) @@ pac, x) =
        IF x \in TransportPaths THEN Val(TransportOf(s), x)
        ELSE IF x \in tls THEN Val(TlsOf(s), x) ELSE Val(pac, x)
  <2>1. Over(TransportOf(s) @@ TlsOf(s), TransportPaths \union tls)
    BY <1>1, MergeOver
  <2>2. x \notin TransportPaths \union tls => Val(TransportOf(s) @@ TlsOf(s) @@ pac, x) = Val(pac, x)
    BY <1>2, <2>1, MergeOver
  <2>3. x \in TransportPaths \union tls =>
          Val(TransportOf(s) @@ TlsOf(s) @@ pac, x) = Val(TransportOf(s) @@ TlsOf(s), x)
    BY <1>2, <1>4, <2>1, MergeOver
  <2>4. x \in TransportPaths => Val(TransportOf(s) @@ TlsOf(s), x) = Val(TransportOf(s), x)
    BY <1>1, <1>4, MergeOver
  <2>5. x \in tls => Val(TransportOf(s) @@ TlsOf(s), x) = Val(TlsOf(s), x)
    BY <1>1, <1>4, MergeOver
  <2> QED  BY <1>4, <2>2, <2>3, <2>4, <2>5
<1>7. CASE b.stream # NilStream
  <2>1. BuildStreamSettingsSingBox(b.stream, type) = TransportOf(s) @@ TlsOf(s) @@ pac
    BY <1>7 DEF BuildStreamSettingsSingBox, Stream, s, pac
  <2> QED  BY <1>2, <1>3, <1>5, <1>6, <2>1 DEF StreamPart, s, tls
<1>8. CASE b.stream = NilStream
  <2>1. BuildStreamSettingsSingBox(b.stream, type) = None /\ s = None
    BY <1>8 DEF BuildStreamSettingsSingBox, Stream, s
  <2>2. \A k : Val(None, k) = Empty
    BY LeanNone
  <2>3. TlsOf(None) = None
    BY <2>2, NotEmpty DEF TlsOf
  <2> QED  BY <1>8, <2>1, <2>2, <2>3 DEF StreamPart, s
<1> QED  BY <1>7, <1>8

\* The transport of a stream that names its network, and says the same about it.
LEMMA TransportSame ==
  ASSUME NEW s, NEW t, NEW net, net = Val(s, "net"), Val(t, "net") = NetOf(net),
         net \notin {"h2", Empty},
         net = "tcp" => (Val(t, "h_type") = "http" <=> Val(s, "h_type") = "http"),
         net \in PathNets \union {"grpc"} \/ Headed(s) => Val(t, "path") = Val(s, "path"),
         net \in PathNets \/ Headed(s) => Val(t, "host") = Val(s, "host")
  PROVE  \A x : Val(TransportOf(s), x) = Val(TransportOf(t), x)
<1> DEFINE ws == "transport.headers.Host" :> "host" @@ "transport.path" :> "path"
           path == "transport.host" :> "host" @@ "transport.path" :> "path"
           grpc == "transport.service_name" :> "path"
           type == "transport.type" :> net
           said(r) == "transport.type" :> ValOr(r, "net", Unnamed)
           head(r) == "transport.type" :> "http" @@ "transport.method" :> "GET"
                     @@ "transport.path" :> Val(r, "path") @@ "transport.headers.Host" :> Val(r, "host")
<1>1. Val(t, "net") = net
  BY DEF NetOf
<1>2. said(s) = type /\ said(t) = type
  BY <1>1 DEF ValOr
<1>3. CASE net = "tcp"
  <2>1. Val(t, "net") = "tcp"
    BY <1>1, <1>3
  <2>2. CASE Val(s, "h_type") = "http"
    <3>1. TransportOf(s) = head(s) /\ TransportOf(t) = head(t)
      BY <1>3, <2>1, <2>2 DEF TransportOf
    <3>2. Headed(s)
      BY <1>3, <2>2 DEF Headed
    <3>3. head(s) = head(t)
      BY <3>2
    <3> HIDE DEF head
    <3> QED  BY <3>1, <3>3
  <2>3. CASE Val(s, "h_type") # "http"
    <3>1. TransportOf(s) = None /\ TransportOf(t) = None
      BY <1>3, <2>1, <2>3 DEF TransportOf
    <3> QED  BY <3>1
  <2> QED  BY <2>2, <2>3
<1>4. CASE net # "tcp"
  <2> DEFINE rest(r) == CASE net = "ws" -> Copy(r, ws)
                          [] net \in {"http", "httpupgrade"} -> Copy(r, path)
                          [] net = "grpc" -> Copy(r, grpc)
                          [] OTHER -> None
  <2>1. TransportOf(s) = said(s) @@ rest(s) /\ TransportOf(t) = said(t) @@ rest(t)
    BY <1>1, <1>4, Zenon DEF TransportOf
  <2>2. TransportOf(s) = type @@ rest(s) /\ TransportOf(t) = type @@ rest(t)
    BY <1>2, <2>1
  <2>3. /\ \A x \in DOMAIN ws : ws[x] \in {"path", "host"}
        /\ \A x \in DOMAIN path : path[x] \in {"path", "host"}
        /\ \A x \in DOMAIN grpc : grpc[x] \in {"path"}
    BY DEF :>, @@
  <2> HIDE DEF ws, path, grpc
  <2>4. /\ net = "ws" => Agree(Copy(s, ws), Copy(t, ws), {})
        /\ net \in {"http", "httpupgrade"} => Agree(Copy(s, path), Copy(t, path), {})
        /\ net = "grpc" => Agree(Copy(s, grpc), Copy(t, grpc), {})
    BY <2>3, AgreeParts DEF PathNets
  <2>5. Agree(rest(s), rest(t), {})
    BY <2>4, AgreeParts
  <2> HIDE DEF rest, type
  <2>6. Agree(type @@ rest(s), type @@ rest(t), {})
    BY <2>5, AgreeParts
  <2> QED  BY <2>2, <2>6 DEF Agree
<1> QED  BY <1>3, <1>4

\* What the tls part says.
LEMMA TlsValues ==
  ASSUME NEW s
  PROVE  /\ Val(TlsOf(s), "tls.enabled") = IF Val(s, "sec") = "tls" THEN "1" ELSE Empty
         /\ Val(TlsOf(s), "tls.certificate") = IF Val(s, "sec") = "tls" THEN Val(s, "cert") ELSE Empty
         /\ Val(TlsOf(s), "tls.server_name") = IF Val(s, "sec") = "tls" THEN Val(s, "sni") ELSE Empty
<1> DEFINE table == "tls.insecure" :> "insecure" @@ "tls.server_name" :> "sni"
                    @@ "tls.certificate" :> "cert" @@ "tls.alpn" :> "alpn"
                    @@ "tls.reality.public_key" :> "pbk"
           keys == {"tls.utls.fingerprint", "tls.reality.short_id"}
           more == IF Val(s, "pbk") = Empty THEN Copy(s, "tls.utls.fingerprint" :> "utls")
                   ELSE "tls.reality.short_id" :> Val(s, "sid")
                        @@ "tls.utls.fingerprint" :> ValOr(s, "utls", "random")
           on == "tls.enabled" :> "1"
<1>1. CASE Val(s, "sec") # "tls"
  BY <1>1, LeanNone DEF TlsOf
<1>2. CASE Val(s, "sec") = "tls"
  <2>1. TlsOf(s) = on @@ Copy(s, table) @@ more
    BY <1>2, Zenon DEF TlsOf
  <2>2. Over(more, keys)
    BY DEF Over, Copy, :>, @@
  <2>3. /\ DOMAIN table = {"tls.insecure", "tls.server_name", "tls.certificate", "tls.alpn",
                           "tls.reality.public_key"}
        /\ table["tls.server_name"] = "sni" /\ table["tls.certificate"] = "cert"
    BY DEF :>, @@
  <2>4. Over(on, {"tls.enabled"}) /\ Val(on, "tls.enabled") = "1"
    BY PartKeys
  <2> HIDE DEF table, more, on, keys
  <2>5. Over(Copy(s, table), DOMAIN table)
    BY PartKeys
  <2>6. Over(on @@ Copy(s, table), {"tls.enabled"} \union DOMAIN table)
    BY <2>4, <2>5, MergeOver
  <2>7. \A x \in {"tls.enabled", "tls.certificate", "tls.server_name"} :
          Val(TlsOf(s), x) = Val(on @@ Copy(s, table), x)
    <3>1. {"tls.enabled", "tls.certificate", "tls.server_name"} \cap keys = {}
      BY DEF keys
    <3> QED  BY <2>1, <2>2, <2>6, <3>1, MergeOver
  <2>8. /\ Val(on @@ Copy(s, table), "tls.enabled") = "1"
        /\ Val(on @@ Copy(s, table), "tls.certificate") = Val(Copy(s, table), "tls.certificate")
        /\ Val(on @@ Copy(s, table), "tls.server_name") = Val(Copy(s, table), "tls.server_name")
    BY <2>3, <2>4, <2>5, MergeOver
  <2> QED  BY <1>2, <2>3, <2>7, <2>8, LeanCopy
<1> QED  BY <1>1, <1>2

\* The tls part of a stream that says the same about it.
LEMMA TlsSame ==
  ASSUME NEW s, NEW t, Val(s, "sec") = "tls" <=> Val(t, "sec") = "tls",
         Val(s, "sec") = "tls" =>
           /\ \A k \in {"insecure", "sni", "cert", "alpn", "pbk", "utls"} : Val(s, k) = Val(t, k)
           /\ Val(s, "pbk") # Empty => Val(s, "sid") = Val(t, "sid")
  PROVE  Agree(TlsOf(s), TlsOf(t), {})
<1> DEFINE table == "tls.insecure" :> "insecure" @@ "tls.server_name" :> "sni"
                    @@ "tls.certificate" :> "cert" @@ "tls.alpn" :> "alpn"
                    @@ "tls.reality.public_key" :> "pbk"
           more(r) == IF Val(r, "pbk") = Empty THEN Copy(r, "tls.utls.fingerprint" :> "utls")
                      ELSE "tls.reality.short_id" :> Val(r, "sid")
                           @@ "tls.utls.fingerprint" :> ValOr(r, "utls", "random")
           on == "tls.enabled" :> "1"
<1>1. CASE Val(s, "sec") # "tls"
  <2>1. TlsOf(s) = None /\ TlsOf(t) = None
    BY <1>1 DEF TlsOf
  <2> QED  BY <2>1, AgreeParts
<1>2. CASE Val(s, "sec") = "tls"
  <2>1. TlsOf(s) = on @@ Copy(s, table) @@ more(s)
    BY <1>2, Zenon DEF TlsOf
  <2>2. TlsOf(t) = on @@ Copy(t, table) @@ more(t)
    BY <1>2, Zenon DEF TlsOf
  <2>3. \A x \in DOMAIN table : table[x] \in {"insecure", "sni", "cert", "alpn", "pbk"}
    BY DEF :>, @@
  <2>4. Agree(more(s), more(t), {})
    <3>1. Agree(Copy(s, "tls.utls.fingerprint" :> "utls"), Copy(t, "tls.utls.fingerprint" :> "utls"), {})
      BY <1>2, CopyAgrees
    <3>2. ValOr(s, "utls", "random") = ValOr(t, "utls", "random")
      BY <1>2 DEF ValOr
    <3> QED  BY <1>2, <3>1, <3>2, AgreeParts
  <2> HIDE DEF table, more, on
  <2>5. Agree(Copy(s, table), Copy(t, table), {})
    BY <1>2, <2>3, AgreeParts
  <2> QED  BY <2>1, <2>2, <2>4, <2>5, AgreeParts
<1> QED  BY <1>1, <1>2

\* A stream that names its network is there.
LEMMA StreamIsThere ==
  ASSUME NEW b, Val(Stream(b), "net") # Empty
  PROVE  b.stream # NilStream
BY LeanNone DEF Stream

\* So the streams' parts of two outbounds are compared path by path.
LEMMA StreamsSame ==
  ASSUME NEW q, NEW b, NEW type, NEW lost,
         TransportPaths \subseteq lost \/ NilStream \notin {q.stream, b.stream},
         \A x : x \notin lost => StreamPart(Stream(q), type, x) = StreamPart(Stream(b), type, x)
  PROVE  Same(BuildStreamSettingsSingBox(q.stream, type), BuildStreamSettingsSingBox(b.stream, type), lost)
BY StreamByPath DEF Same

\* A stream whose transport and tls details are not shared.
LEMMA BareStreamsSame ==
  ASSUME NEW q, NEW b, NEW type, type \notin {"vmess", "vless"}, NEW lost,
         TransportPaths \union TlsPaths \subseteq lost,
         Val(Stream(q), "cert") = Empty, Val(Stream(b), "cert") = Empty,
         "tls.enabled" \in lost \/ (Val(Stream(q), "sec") = "tls" <=> Val(Stream(b), "sec") = "tls")
  PROVE  Same(BuildStreamSettingsSingBox(q.stream, type), BuildStreamSettingsSingBox(b.stream, type), lost)
<1> DEFINE s == Stream(q)
           t == Stream(b)
<1>1. ASSUME NEW x, x \notin lost
      PROVE  StreamPart(s, type, x) = StreamPart(t, type, x)
  <2>1. x \notin TransportPaths \union TlsPaths
    BY <1>1
  <2>2. "tls.enabled" \notin lost => Val(TlsOf(s), "tls.enabled") = Val(TlsOf(t), "tls.enabled")
    BY TlsValues
  <2>3. Val(TlsOf(s), "tls.certificate") = Val(TlsOf(t), "tls.certificate")
    BY TlsValues
  <2> QED  BY <1>1, <2>1, <2>2, <2>3 DEF StreamPart, CertPaths
<1> QED  BY <1>1, StreamsSame

\* shadowsocks loses its stream and udp-over-tcp.
LEMMA ShadowsocksKept ==
  ASSUME NEW q, NEW b, q.type = "shadowsocks", FieldsOK(q), Sayable(q), ShadowsocksAfter(q, b)
  PROVE  SameBuilt(q, b)
<1> DEFINE lost == LostPaths("shadowsocks")
           base(c) == Server(c) @@ "type" :> "shadowsocks" @@ "method" :> Val(c.f, "method")
                        @@ "password" :> Val(c.f, "password") @@ "udp_over_tcp" :> Val(c.f, "uot")
           plugin(c) == Copy(c.f, "plugin" :> "plugin")
           stream(c) == BuildStreamSettingsSingBox(c.stream, "shadowsocks")
<1>1. b.type = "shadowsocks" /\ b.addr = q.addr /\ b.port = q.port /\ b.stream = "net" :> "tcp"
  BY DEF ShadowsocksAfter, Made, FieldsOK
<1>2. \A k \in {"method", "password", "plugin"} : Val(b.f, k) = Val(q.f, k)
  BY DEF ShadowsocksAfter, ShadowsocksValue, Sayable
<1>3. lost = {"udp_over_tcp", "tls.enabled"} \union TransportPaths \union TlsPaths
  BY DEF LostPaths
<1>4. Val(Stream(b), "cert") = Empty
  <2>1. Val(b.stream, "net") = "tcp"
    BY <1>1, ValOfKey
  <2>2. Stream(b) = b.stream
    BY <2>1, TcpIsSaid, StreamKept
  <2> QED  BY <1>1, <2>2, ValOfKey
<1>5. Agree(base(q), base(b), lost)
  BY <1>1, <1>2, <1>3, ServerAgrees, AgreeParts
<1>6. Agree(plugin(q), plugin(b), lost)
  BY <1>2, CopyAgrees
<1>7. Same(stream(q), stream(b), lost)
  BY <1>3, <1>4, BareStreamsSame DEF FieldsOK
<1> HIDE DEF lost, base, plugin, stream
<1>8. Agree(base(q) @@ plugin(q), base(b) @@ plugin(b), lost)
  BY <1>5, <1>6, AgreeParts
<1>9. Same(base(q) @@ plugin(q) @@ stream(q), base(b) @@ plugin(b) @@ stream(b), lost)
  BY <1>7, <1>8, AgreeParts
<1>10. \A c \in {q, b} : Raw(c) = base(c) @@ plugin(c) @@ stream(c)
  BY <1>1, BuilderOf DEF BuildShadowsocks, base, plugin, stream
<1> QED  BY <1>9, <1>10, SameIsEnough DEF lost

\* http loses its transport, and of its encryption all but that it is on.
LEMMA HttpKept ==
  ASSUME NEW q, NEW b, q.type = "http", Labelled(q), Labelled(b), FieldsOK(q), Sayable(q),
         HttpAfter(q, b)
  PROVE  SameBuilt(q, b)
<1> DEFINE lost == LostPaths("http")
           table == [username |-> "username", password |-> "password"]
           users(c) == IF Val(c.f, "username") # Empty /\ Val(c.f, "password") # Empty
                       THEN Copy(c.f, table) ELSE None
           base(c) == Server(c) @@ "type" :> "http"
           stream(c) == BuildStreamSettingsSingBox(c.stream, "http")
<1>1. b.type = "http" /\ b.addr = q.addr /\ b.port = q.port /\ b.stream = HttpStream(q)
  <2>1. "http" \in PortTypes
    BY DEF PortTypes
  <2> QED  BY <2>1 DEF HttpAfter, Made, FieldsOK
<1>2. /\ Val(b.f, "username") = Val(q.f, "username")
      /\ Val(q.f, "username") # Empty => Val(b.f, "password") = Val(q.f, "password")
  BY DEF HttpAfter, HttpValue
<1>3. lost = TransportPaths \union TlsPaths
  BY DEF LostPaths
<1>4. Agree(users(q), users(b), lost)
  <2>1. CASE Val(q.f, "username") # Empty
    <3>1. \A x \in DOMAIN table : Val(q.f, table[x]) = Val(b.f, table[x])
      BY <1>2, <2>1
    <3>2. Val(b.f, "username") = Val(q.f, "username") /\ Val(b.f, "password") = Val(q.f, "password")
      BY <1>2, <2>1
    <3> HIDE DEF table
    <3> QED  BY <3>1, <3>2, AgreeParts
  <2>2. CASE Val(q.f, "username") = Empty
    <3>1. users(q) = None /\ users(b) = None
      BY <1>2, <2>2
    <3> QED  BY <3>1, AgreeParts
  <2> QED  BY <2>1, <2>2
<1>5. /\ Val(Stream(b), "cert") = Empty
      /\ Val(Stream(b), "sec") = IF Val(Stream(q), "sec") = "tls" THEN "tls" ELSE Empty
  <2> DEFINE sec == IF Val(Stream(q), "sec") = "tls" THEN "tls" ELSE Empty
             net == "net" :> "tcp"
  <2>1. Lean(net) /\ \A x : Val(net, x) = IF x = "net" THEN "tcp" ELSE Empty
    BY LeanKey, TcpIsSaid
  <2>2. Lean(Set("sec", sec)) /\ \A x : Val(Set("sec", sec), x) = IF x = "sec" THEN sec ELSE Empty
    BY LeanSet
  <2>3. b.stream = net @@ Set("sec", sec)
    BY <1>1 DEF HttpStream
  <2> HIDE DEF net, sec
  <2>4. \A x : Val(b.stream, x) = IF x = "net" THEN "tcp" ELSE IF x = "sec" THEN sec ELSE Empty
    BY <2>1, <2>2, <2>3, LeanMerge, TcpIsSaid
  <2>5. Stream(b) = b.stream
    BY <2>4, TcpIsSaid, StreamKept
  <2> QED  BY <2>4, <2>5 DEF sec
<1>6. Agree(base(q), base(b), lost)
  BY <1>1, ServerAgrees, AgreeParts
<1>7. Same(stream(q), stream(b), lost)
  <2>1. Val(Stream(q), "sec") = "tls" <=> Val(Stream(b), "sec") = "tls"
    BY <1>5, NotEmpty
  <2> QED  BY <1>3, <1>5, <2>1, BareStreamsSame DEF FieldsOK
<1>8. \A c \in {q, b} : Raw(c) = base(c) @@ None @@ users(c) @@ stream(c)
  <2> SUFFICES ASSUME NEW c \in {q, b}
               PROVE  Raw(c) = base(c) @@ None @@ users(c) @@ stream(c)
    OBVIOUS
  <2>1. c.type = "http" /\ Val(c.f, "socks_http_type") = "2"
    BY <1>1, DiscriminatorValues
  <2>2. Raw(c) = BuildSocksHttp(c)
    BY <2>1, BuilderOf
  <2> QED  BY <2>1, <2>2, NotEmpty, Zenon DEF BuildSocksHttp
<1> HIDE DEF lost, base, users, stream
<1>9. Agree(base(q) @@ None @@ users(q), base(b) @@ None @@ users(b), lost)
  BY <1>4, <1>6, AgreeParts
<1>10. Same(base(q) @@ None @@ users(q) @@ stream(q), base(b) @@ None @@ users(b) @@ stream(b), lost)
  BY <1>7, <1>9, AgreeParts
<1> QED  BY <1>8, <1>10, SameIsEnough DEF lost

\* vmess keeps its transport, and whether it is encrypted and to which name.
LEMMA VMessKept ==
  ASSUME NEW q, NEW b, q.type = "vmess", FieldsOK(q), Sayable(q), VMessAfter(q, b)
  PROVE  SameBuilt(q, b)
<1> DEFINE lost == LostPaths("vmess")
           s == Stream(q)
           t == Stream(b)
           base(c) == Server(c) @@ "type" :> "vmess" @@ "uuid" :> Val(c.f, "id")
                        @@ "alter_id" :> Val(c.f, "aid") @@ "security" :> Val(c.f, "sec")
           stream(c) == BuildStreamSettingsSingBox(c.stream, "vmess")
<1>1. b.type = "vmess" /\ b.addr = q.addr /\ b.port = q.port
  BY DEF VMessAfter, Made, FieldsOK
<1>2. \A k \in {"id", "aid", "sec"} : Val(b.f, k) = Val(q.f, k)
  BY DEF VMessAfter, VMessValue, Sayable
<1>3. lost = TlsPaths \ {"tls.server_name"}
  BY DEF LostPaths
<1>4. t = b.stream
  <2>1. Val(b.stream, "net") = NetOf(Val(s, "net"))
    BY DEF VMessAfter, VMessStreamValue
  <2> QED  BY <2>1, NetSettles, StreamKept
<1>5. \A k : Val(t, k) = VMessStreamValue(s, k)
  BY <1>4 DEF VMessAfter
<1>6. \A x : Val(TransportOf(s), x) = Val(TransportOf(t), x)
  <2> DEFINE net == Val(s, "net")
  <2>1. net \notin {"h2", Empty}
    BY DEF FieldsOK, Sayable
  <2>2. Val(t, "net") = NetOf(net) /\ \A k \in {"h_type", "path", "host"} : Val(t, k) = Val(s, k)
    BY <1>5 DEF VMessStreamValue
  <2> HIDE DEF s, t
  <2> QED  BY <2>1, <2>2, TransportSame
<1>7. /\ Val(TlsOf(s), "tls.enabled") = Val(TlsOf(t), "tls.enabled")
      /\ Val(TlsOf(s), "tls.certificate") = Val(TlsOf(t), "tls.certificate")
      /\ Val(TlsOf(s), "tls.server_name") = Val(TlsOf(t), "tls.server_name")
  <2>1. Val(s, "sec") = "tls" <=> Val(t, "sec") = "tls"
    BY <1>5, NotEmpty DEF VMessStreamValue
  <2>2. Val(s, "sni") = Val(t, "sni") /\ Val(s, "cert") = Val(t, "cert")
    BY <1>5 DEF VMessStreamValue, FieldsOK
  <2> HIDE DEF s, t
  <2> QED  BY <2>1, <2>2, TlsValues
<1>8. Val(s, "pac_enc") = Val(t, "pac_enc")
  BY <1>5 DEF VMessStreamValue, FieldsOK
<1>9. \A x : x \notin lost => StreamPart(s, "vmess", x) = StreamPart(t, "vmess", x)
  BY <1>3, <1>6, <1>7, <1>8 DEF StreamPart, CertPaths
<1>10. Same(stream(q), stream(b), lost)
  <2>1. Val(s, "net") # Empty
    BY DEF Sayable
  <2>2. Val(t, "net") # Empty
    BY <1>5, <2>1, NetSettles DEF VMessStreamValue
  <2> QED  BY <1>9, <2>1, <2>2, StreamIsThere, StreamsSame
<1>11. Agree(base(q), base(b), lost)
  BY <1>1, <1>2, ServerAgrees, AgreeParts
<1>12. \A c \in {q, b} : Raw(c) = base(c) @@ stream(c)
  BY <1>1, BuilderOf DEF BuildVMess
<1> HIDE DEF lost, base, stream
<1> QED  BY <1>10, <1>11, <1>12, AgreeParts, SameIsEnough DEF lost

\* The stream that a trojan or vless URL gives back says what the profile's did.
LEMMA UrlStreamSame ==
  ASSUME NEW s, NEW t, NEW default, \A k : Val(t, k) = UrlStreamValue(s, default, k),
         Val(s, "sec") = "tls" \/ (Val(s, "sec") = Empty /\ default = Empty),
         \A k \in {"cert", "pac_enc"} : Val(s, k) = Empty, Val(s, "insecure") \in {Empty, "1"},
         Val(s, "net") \notin {"h2", Empty}, NEW type
  PROVE  \A x : StreamPart(s, type, x) = StreamPart(t, type, x)
<1>1. \A x : Val(TransportOf(s), x) = Val(TransportOf(t), x)
  <2> DEFINE net == Val(s, "net")
  <2>1. Val(t, "net") = NetOf(net)
    BY DEF UrlStreamValue
  <2>2. Val(t, "h_type") = (IF Headed(s) THEN "http" ELSE Empty)
    BY DEF UrlStreamValue, RealityKeys
  <2>3. net \in PathNets \union {"grpc"} \/ Headed(s) => Val(t, "path") = Val(s, "path")
    BY DEF UrlStreamValue, RealityKeys
  <2>4. net \in PathNets \/ Headed(s) => Val(t, "host") = Val(s, "host")
    BY DEF UrlStreamValue, RealityKeys
  <2>5. Headed(s) <=> net = "tcp" /\ Val(s, "h_type") = "http"
    BY DEF Headed
  <2>6. Empty # "http" /\ Empty # "tcp"
    BY Zenon DEF Empty
  <2> QED  BY <2>1, <2>2, <2>3, <2>4, <2>5, <2>6, TransportSame
<1>2. Val(t, "sec") = Val(s, "sec")
  BY NotEmpty DEF UrlStreamValue, SecAfter
<1>3. \A k \in {"insecure", "sni", "cert", "alpn", "utls"} : Val(s, k) = Val(t, k)
  BY DEF UrlStreamValue, RealityKeys
<1>4. Val(s, "sec") = "tls" => /\ Val(s, "pbk") = Val(t, "pbk")
                               /\ Val(s, "pbk") # Empty => Val(s, "sid") = Val(t, "sid")
  BY DEF UrlStreamValue, RealityKeys, RealityOf
<1>5. Agree(TlsOf(s), TlsOf(t), {})
  BY <1>2, <1>3, <1>4, TlsSame
<1>6. Val(s, "pac_enc") = Val(t, "pac_enc")
  BY DEF UrlStreamValue, RealityKeys
<1> QED  BY <1>1, <1>5, <1>6 DEF StreamPart, Agree

\* trojan and vless lose nothing.
LEMMA UrlKept ==
  ASSUME NEW q, NEW b, NEW type \in {"vless", "trojan"}, q.type = type, Labelled(q), Labelled(b),
         FieldsOK(q), Sayable(q), UrlAfter(q, b, type)
  PROVE  SameBuilt(q, b)
<1> DEFINE lost == LostPaths(type)
           flow(c) == IF Val(c.f, "flow") = "none" THEN Empty ELSE Val(c.f, "flow")
           vless(c) == Server(c) @@ "type" :> "vless" @@ "uuid" :> Val(c.f, "password")
                         @@ "flow" :> flow(c)
           trojan(c) == Server(c) @@ "type" :> "trojan" @@ "password" :> Val(c.f, "password")
           stream(c) == BuildStreamSettingsSingBox(c.stream, type)
<1>1. b.type = type /\ b.addr = q.addr /\ b.port = q.port
  <2>1. type \in PortTypes
    BY DEF PortTypes
  <2> QED  BY <2>1 DEF UrlAfter, Made, FieldsOK, Port443
<1>2. /\ Val(b.f, "password") = Val(q.f, "password")
      /\ type = "vless" => Val(b.f, "flow") = Val(q.f, "flow")
  BY DEF UrlAfter, UrlBeanValue
<1>3. Stream(b) = b.stream
  <2>1. Val(b.stream, "net") = NetOf(Val(Stream(q), "net"))
    BY DEF UrlAfter, UrlStreamValue
  <2> QED  BY <2>1, NetSettles, StreamKept
<1>4. \A x : StreamPart(Stream(q), type, x) = StreamPart(Stream(b), type, x)
  <2> DEFINE s == Stream(q)
             t == Stream(b)
  <2>1. \A k : Val(t, k) = UrlStreamValue(s, DefaultSec(type), k)
    BY <1>3 DEF UrlAfter
  <2>2. Val(s, "sec") = "tls" \/ (Val(s, "sec") = Empty /\ DefaultSec(type) = Empty)
    BY DEF Sayable, DefaultSec
  <2>3. /\ \A k \in {"cert", "pac_enc"} : Val(s, k) = Empty
        /\ Val(s, "insecure") \in {Empty, "1"} /\ Val(s, "net") \notin {"h2", Empty}
    BY DEF FieldsOK, Sayable
  <2> HIDE DEF s, t
  <2>4. \A x : StreamPart(s, type, x) = StreamPart(t, type, x)
    BY <2>1, <2>2, <2>3, UrlStreamSame
  <2> QED  BY <2>4 DEF s, t
<1>5. Same(stream(q), stream(b), lost)
  <2>1. Val(Stream(q), "net") # Empty
    BY DEF Sayable
  <2>2. Val(Stream(b), "net") # Empty
    BY <1>3, <2>1, NetSettles DEF UrlAfter, UrlStreamValue
  <2> QED  BY <1>4, <2>1, <2>2, StreamIsThere, StreamsSame
<1>6. Agree(trojan(q), trojan(b), lost)
  BY <1>1, <1>2, ServerAgrees, AgreeParts
<1>7. type = "vless" => Agree(vless(q), vless(b), lost)
  BY <1>1, <1>2, ServerAgrees, AgreeParts
<1>8. \A c \in {q, b} : Raw(c) = (IF type = "vless" THEN vless(c) ELSE trojan(c)) @@ stream(c)
  <2> SUFFICES ASSUME NEW c \in {q, b}
               PROVE  Raw(c) = (IF type = "vless" THEN vless(c) ELSE trojan(c)) @@ stream(c)
    OBVIOUS
  <2>1. Raw(c) = BuildTrojanVLESS(c)
    BY <1>1, BuilderOf
  <2>2. Val(c.f, "proxy_type") = (IF type = "vless" THEN "1" ELSE Empty)
    BY <1>1, DiscriminatorValues
  <2>3. CASE type = "vless"
    <3>1. Val(c.f, "proxy_type") = "1"
      BY <2>2, <2>3
    <3>2. BuildTrojanVLESS(c) = Server(c) @@ "type" :> "vless" @@ "uuid" :> Val(c.f, "password")
            @@ "flow" :> flow(c) @@ BuildStreamSettingsSingBox(c.stream, "vless")
      BY <3>1, Zenon DEF BuildTrojanVLESS
    <3> QED  BY <2>1, <2>3, <3>2
  <2>4. CASE type = "trojan"
    <3>1. Val(c.f, "proxy_type") # "1"
      BY <2>2, <2>4, NotEmpty
    <3>2. BuildTrojanVLESS(c) = Server(c) @@ "type" :> "trojan" @@ "password" :> Val(c.f, "password")
            @@ BuildStreamSettingsSingBox(c.stream, "trojan")
      BY <3>1, Zenon DEF BuildTrojanVLESS
    <3> QED  BY <2>1, <2>4, <3>2
  <2> QED  BY <2>3, <2>4
<1> HIDE DEF lost, vless, trojan, stream
<1> QED  BY <1>5, <1>6, <1>7, <1>8, AgreeParts, SameIsEnough DEF lost

\* So the first trip of whatever a link can say keeps the outbound.
LEMMA TripKeepsOutbound ==
  ASSUME NEW q, Labelled(q), FieldsOK(q), Sayable(q), ParseLink(GenerateLink(q)) # Rejected
  PROVE  SameBuilt(q, After(q))
<1>1. Labelled(After(q))
  BY AfterLabelled
<1>2. CASE q.type = "ssh"
  BY <1>2, SSHTrip, SSHKept
<1>3. CASE q.type = "naive"
  BY <1>3, NaiveTrip, NaiveKept
<1>4. CASE q.type = "anytls"
  BY <1>4, AnyTLSTrip, AnyTLSKept
<1>5. CASE q.type = "wireguard"
  BY <1>5, WireGuardTrip, WireGuardKept
<1>6. CASE q.type = "tuic"
  BY <1>1, <1>6, TuicTrip, TuicKept
<1>7. CASE q.type = "hysteria2"
  BY <1>1, <1>7, HysteriaTrip, HysteriaKept
<1>8. CASE q.type = "shadowsocks"
  BY <1>8, ShadowsocksTrip, ShadowsocksKept
<1>9. CASE q.type = "http"
  BY <1>1, <1>9, HttpTrip, HttpKept
<1>10. CASE q.type = "vmess"
  BY <1>10, VMessTrip, VMessKept
<1>11. CASE q.type \in {"vless", "trojan"}
  BY <1>1, <1>11, UrlTrip, UrlKept
<1>12. q.type # "socks" /\ q.type # "custom"
  BY SocksRefused, NothingToShare
<1> QED  BY <1>2, <1>3, <1>4, <1>5, <1>6, <1>7, <1>8, <1>9, <1>10, <1>11, <1>12
         DEF Labelled, Types, StreamTypes

\* And its c_out, of which neither has any, changes nothing of that.
LEMMA TripKeepsAll ==
  ASSUME NEW q, Labelled(q), FieldsOK(q), Sayable(q), ParseLink(GenerateLink(q)) # Rejected
  PROVE  SameOutbound(q, After(q))
<1> DEFINE b == After(q)
<1>1. Same(Raw(q), Raw(b), LostPaths(q.type))
  BY TripKeepsOutbound DEF SameBuilt
<1>2. CustomOutbound(q) = None
  BY DEF Sayable
<1>3. CustomOutbound(b) = None
  <2> DEFINE c == ParseLink(GenerateLink(q))
  <2>1. HasFields(c) /\ LinkOK(c)
    BY ParsedLink, LinkFieldsOK DEF ParsedAs
  <2>2. b = ToJson(c)
    BY DEF After
  <2> HIDE DEF b, c
  <2>3. Val(b.f, "c_out") = Empty
    BY <2>1, <2>2, JsonFieldsOK DEF LinkOK
  <2> QED  BY <2>3 DEF CustomOutbound
<1> HIDE DEF b
<1>4. /\ \A x : Val(Out(q), x) = Val(Raw(q), x)
      /\ \A x : Val(Out(b), x) = Val(Raw(b), x)
  BY <1>2, <1>3, Uncustomized DEF Out, Raw
<1>5. SameOutbound(q, b)
  BY <1>1, <1>4 DEF Same, SameOutbound
<1> QED  BY <1>5 DEF b

\* A profile shared and imported again builds the same outbound, but for the
\* paths a link of its protocol does not carry (link_gen.go against link.go and
\* outbound.go).
THEOREM FirstShareIsFaithful == Spec => RoundTripKeepsOutbound
<1>1. Init => TripInv /\ FieldsInv
  BY DEF Init, TripInv, FieldsInv
<1>2. ASSUME IInv, TripInv, FieldsInv, [Next]_vars
      PROVE  [trips' > trips /\ Sayable(profile) => SameOutbound(profile, profile')]_vars
  <2>1. trips \in Nat
    BY <1>2 DEF TripInv
  <2>2. CASE trips' = trips /\ (trips > 0 => profile' = profile)
    BY <2>1, <2>2
  <2>3. CASE /\ trips' = trips + 1 /\ Labelled(profile)
             /\ ParseLink(GenerateLink(profile)) # Rejected
             /\ profile' = After(profile)
    <3>1. profile # Rejected
      <4>1. Rejected.type = Empty
        BY ProfileFields DEF Rejected
      <4> QED  BY <2>3, <4>1, NothingToShare
    <3>2. FieldsOK(profile)
      BY <1>2, <3>1 DEF FieldsInv
    <3> QED  BY <2>3, <3>2, TripKeepsAll
  <2> QED  BY <1>2, <2>2, <2>3, TripStep
<1> QED  BY <1>1, <1>2, TripKeeps, FieldsKept, ServiceInvariant, PTL DEF Spec, RoundTripKeepsOutbound
=============================================================================
