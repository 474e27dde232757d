------------------------------- MODULE IpStatus ------------------------------
(***************************************************************************)
(* What the controller makes of an IpStatus report: the typed expectations *)
(* of harness/ip, and the three readers of Android's route strings: the    *)
(* typed one (ip.parseRoute), the one behind the YAML metrics              *)
(* (metrics.go) and the one that finds the gateway to ping (gateway.go).   *)
(*                                                                         *)
(* A string of the report is a sequence of tokens.  A token is a prefix,   *)
(* an address or a word; addresses have Bits bits.                         *)
(***************************************************************************)
EXTENDS Matchers, SequencesExt, FiniteSetsExt

Bits == 2
Prefix(f, n, l) == [k |-> "prefix", fam |-> f, num |-> n, len |-> l, w |-> "p"]
Addr(f, n)      == [k |-> "addr", fam |-> f, num |-> n, len |-> Bits, w |-> "a"]
Word(w)         == [k |-> "word", fam |-> "", num |-> 0, len |-> 0, w |-> w]

(* netip: containment after masking, and the properties of an address.     *)
InPrefix(p, a) == p.fam = a.fam /\ p.num \div 2^(Bits - p.len) = a.num \div 2^(Bits - p.len)
Kinds(a) == <<{"unspecified"}, {"link-local"}, {"private", "global"}, {"global"}>>[a.num + 1]

ScopeOrder == <<"unspecified", "loopback", "link-local", "multicast", "private", "global">>

(* addressScopeName: the first property that holds, in this order.         *)
AddressScopeName(a) ==
  LET hits == {i \in DOMAIN ScopeOrder : ScopeOrder[i] \in Kinds(a)}
  IN IF hits = {} THEN "unknown" ELSE ScopeOrder[Min(hits)]

-----------------------------------------------------------------------------
(* harness/ip: the parsed view                                             *)

(* parseAddresses keeps what is a prefix or an address, parseDNSAddresses  *)
(* only addresses; the rest is dropped without a finding.                  *)
ParseAddresses(values) == SelectSeq(values, LAMBDA t : t.k \in {"prefix", "addr"})
ParseDNSAddresses(values) == SelectSeq(values, LAMBDA t : t.k = "addr")

IsDefaultPrefix(p) == p.len = 0 /\ p.num = 0

(* The indices at which a keyword is followed by something.                *)
After(fields, words) == {i \in 1..(Len(fields) - 1) : fields[i].w \in words}

(* parseRoute.  A gateway that comes later replaces an earlier one; the    *)
(* interface follows "dev" or is the last field, if that is a name.        *)
ParseRoute(fields) ==
  LET gates == {i \in After(fields, {"->", "via"}) : fields[i + 1].k = "addr"}
      devs  == After(fields, {"dev"})
      end   == fields[Len(fields)]
      dest  == fields[1].k = "prefix"
  IN IF fields = <<>>
     THEN [hasDestination |-> FALSE, destination |-> Word(""), hasGateway |-> FALSE,
           gateway |-> Word(""), interface |-> "", family |-> "", default |-> FALSE]
     ELSE [hasDestination |-> dest,
           destination |-> IF dest THEN fields[1] ELSE Word(""),
           hasGateway  |-> gates # {},
           gateway     |-> IF gates = {} THEN Word("") ELSE fields[Max(gates) + 1],
           interface   |-> IF devs # {} THEN fields[Max(devs) + 1].w
                           ELSE IF end.k = "word" /\ end.w \notin {"", "unreachable", "->"}
                           THEN end.w ELSE "",
           family      |-> IF dest THEN fields[1].fam
                           ELSE IF gates # {} THEN fields[Min(gates) + 1].fam ELSE "",
           default     |-> dest /\ IsDefaultPrefix(fields[1])]

(* ip.hasDefaultRoute for a family or "any".                               *)
HasDefaultRoute(routes, family) ==
  \E i \in DOMAIN routes :
    LET r == ParseRoute(routes[i]) IN r.default /\ family \in {"any", r.family}

Accepts(family, a) == family = "any" \/ a.fam = family
CountOf(s, family) == Len(SelectSeq(s, LAMBDA a : Accepts(family, a)))

(* fromAvailable: a view exists with the payload, a value only with the    *)
(* collector's word on its group.                                          *)
FromAvailable(st, group) == st.payload /\ Availability(st.fields, group)

(* The metrics of the package, by name.                                    *)
IpMetric(st) ==
  LET link(v) == Gate(FromAvailable(st, "link_properties"), v)
      caps(v) == Gate(FromAvailable(st, "capabilities"), v)
      addrs   == ParseAddresses(st.addresses)
      dns     == ParseDNSAddresses(st.dns)
  IN [address_count |-> link(Len(addrs)),
      ipv4_address_count |-> link(CountOf(addrs, "ipv4")),
      ipv6_address_count |-> link(CountOf(addrs, "ipv6")),
      mtu |-> link(st.mtu), private_dns_active |-> link(st.privateDns),
      dns_server_count |-> link(Len(dns)),
      ipv4_dns_server_count |-> link(CountOf(dns, "ipv4")),
      ipv6_dns_server_count |-> link(CountOf(dns, "ipv6")),
      default_route |-> link(HasDefaultRoute(st.routes, "any")),
      ipv4_default_route |-> link(HasDefaultRoute(st.routes, "ipv4")),
      ipv6_default_route |-> link(HasDefaultRoute(st.routes, "ipv6")),
      validated |-> caps(st.validated), internet |-> caps(st.internet)]

(* AddressSelector, PrefixSelector and DNSAddressSelector.                 *)
AddressInCIDR(st, family, cidr) ==
  Judge(FromAvailable(st, "link_properties"),
        \E i \in DOMAIN ParseAddresses(st.addresses) :
          LET a == ParseAddresses(st.addresses)[i] IN Accepts(family, a) /\ InPrefix(cidr, a))

AddressScope(st, family, scope) ==
  Judge(FromAvailable(st, "link_properties"),
        \E i \in DOMAIN ParseAddresses(st.addresses) :
          LET a == ParseAddresses(st.addresses)[i]
          IN Accepts(family, a) /\ AddressScopeName(a) = scope)

DnsAddressInCIDR(st, family, cidr) ==
  Judge(FromAvailable(st, "link_properties"),
        \E i \in DOMAIN ParseDNSAddresses(st.dns) :
          LET a == ParseDNSAddresses(st.dns)[i] IN Accepts(family, a) /\ InPrefix(cidr, a))

PrefixWithin(st, family, cidr) ==
  Judge(FromAvailable(st, "link_properties"),
        \E i \in DOMAIN st.addresses :
          LET a == st.addresses[i]
          IN a.k = "prefix" /\ Accepts(family, a) /\ InPrefix(cidr, a) /\ cidr.len <= a.len)

(* RouteSelector [family, defaultOnly, destination, gateway, iface], with  *)
(* sets of at most one element for the optional parts, and err for a part  *)
(* that does not parse.  Address, Prefix and DNSServerAddress start from a *)
(* family in the same way.                                                 *)
ParsedRoute(family) ==
  [family |-> family, defaultOnly |-> FALSE, destination |-> {}, gateway |-> {},
   iface |-> {}, err |-> FALSE]

RouteWith(s, part, v) ==
  CASE part = "destination" /\ v.k # "prefix" -> [s EXCEPT !.err = TRUE]
    [] part = "gateway" /\ v.k # "addr" -> [s EXCEPT !.err = TRUE]
    [] part = "default" -> [s EXCEPT !.defaultOnly = TRUE]
    [] part = "iface" -> [s EXCEPT !.iface = IF v = "" THEN {} ELSE {v}]
    [] OTHER -> [s EXCEPT ![part] = {v}]

RouteMatches(s, r) ==
  /\ s.family \in {"any", r.family}
  /\ s.defaultOnly => r.default
  /\ \A d \in s.destination : r.hasDestination /\ r.destination = d
  /\ \A g \in s.gateway : r.hasGateway /\ r.gateway = g
  /\ \A n \in s.iface : r.interface = n

RoutesMatching(st, s) == {i \in DOMAIN st.routes : RouteMatches(s, ParseRoute(st.routes[i]))}
RouteExists(st, s) == Judge(FromAvailable(st, "link_properties"), RoutesMatching(st, s) # {})
RouteCount(st, s) ==
  Gate(FromAvailable(st, "link_properties"), Cardinality(RoutesMatching(st, s)))

(* StringListSelector and TextSelector ask for the payload only.           *)
ListContains(st, values, wants) == Judge(st.payload, \E i \in DOMAIN values : values[i] \in wants)

IpAssert(st, err) == EvaluateAssert(st.payload, err)

-----------------------------------------------------------------------------
(* metrics.go: the reader behind the YAML metrics                          *)

(* Fault: only the word "default" stands for a default route.              *)
RouteDestinationFamilyWordOnly(t) == IF t.w = "default" THEN <<"", TRUE>> ELSE <<"", FALSE>>

(* routeDestinationFamily: <<family, is it a default route>>.              *)
RouteDestinationFamily(t) ==
  IF t.w = "default" THEN <<"", TRUE>>
  ELSE IF t.k = "prefix" /\ t.len = 0 THEN <<t.fam, TRUE>> ELSE <<"", FALSE>>

(* defaultRouteFamily: "default" takes the family of its first gateway;    *)
(* parseIPLiteral also reads the address of a prefix.                      *)
DefaultRouteFamily(fields) ==
  LET to == RouteDestinationFamily(fields[1])
      gates == {i \in After(fields, {"->", "via"}) : fields[i + 1].k \in {"addr", "prefix"}}
  IN IF fields = <<>> \/ ~to[2] THEN <<"", FALSE>>
     ELSE IF to[1] # "" \/ gates = {} THEN to
     ELSE <<fields[Min(gates) + 1].fam, TRUE>>

HasDefaultRouteForFamily(routes, family) ==
  \E i \in DOMAIN routes :
    LET r == DefaultRouteFamily(routes[i]) IN r[2] /\ family \in {"any", r[1]}

-----------------------------------------------------------------------------
(* gateway.go: the gateway to ping                                         *)

RouteWords == {"mtu", "src", "metric", "table", "proto", "scope"}
NoGateway == [gateway |-> Word(""), interface |-> "", family |-> ""]

(* One route read as a default route.  The last "->" or "via" decides,     *)
(* even if no address follows it.                                          *)
GatewayOf(fields) ==
  LET to    == RouteDestinationFamily(fields[1])
      gates == After(fields, {"->", "via"})
      devs  == After(fields, {"dev"})
      g     == Max(gates) + 1
      next  == IF g < Len(fields) THEN fields[g + 1].w ELSE ""
  IN IF fields = <<>> \/ ~to[2] \/ gates = {} \/ fields[g].k # "addr" THEN NoGateway
     ELSE [gateway |-> fields[g], family |-> fields[g].fam,
           interface |-> IF devs # {} THEN fields[Max(devs) + 1].w
                         ELSE IF next \in RouteWords THEN "" ELSE next]

(* DefaultGateway: the first route of the family; "any" prefers IPv4.      *)
DefaultGatewayOf(routes, family) ==
  LET hit == {i \in DOMAIN routes : GatewayOf(routes[i]).family = family}
  IN IF hit = {} THEN NoGateway ELSE GatewayOf(routes[Min(hit)])

DefaultGateway(routes, family) ==
  IF family # "any" THEN DefaultGatewayOf(routes, family)
  ELSE IF DefaultGatewayOf(routes, "ipv4") # NoGateway THEN DefaultGatewayOf(routes, "ipv4")
  ELSE DefaultGatewayOf(routes, "ipv6")

(* gatewayFamily and the host executeGateway pings: nothing without a      *)
(* gateway, and no link-local IPv6 gateway without its zone.               *)
GatewayHost(st, family) ==
  LET g == DefaultGateway(st.routes, family)
      zoned == g.family = "ipv6" /\ "link-local" \in Kinds(g.gateway)
  IN IF g = NoGateway \/ (zoned /\ g.interface = "") THEN [ok |-> FALSE, host |-> NoGateway, zone |-> ""]
     ELSE [ok |-> TRUE, host |-> g, zone |-> IF zoned THEN g.interface ELSE ""]

-----------------------------------------------------------------------------
(* The three readers agree on a route.  A default route of the typed       *)
(* reader is one of the same family for YAML plans; the other way round,   *)
(* the YAML reader also takes the word "default" and a prefix of length 0  *)
(* with other bits set, which ip.go:49 excludes.  A route with a gateway   *)
(* to ping is a default route with that gateway for the others, and its    *)
(* interface is the same where "dev" names it or nothing follows it.       *)
RouteAgrees(r) ==
  LET typed == ParseRoute(r)
      yaml  == DefaultRouteFamily(r)
      g     == GatewayOf(r)
      named == After(r, {"dev"}) # {}
                 \/ (r[Len(r)] = Word(g.interface) /\ g.interface \notin {"unreachable", "->"}) IN
  /\ typed.default => yaml = <<typed.family, TRUE>>
  /\ yaml[2] => typed.default \/ r[1].w = "default" \/ r[1].num # 0
  /\ g # NoGateway => yaml[2] /\ typed.hasGateway /\ typed.gateway = g.gateway
  /\ g.interface # "" /\ named => typed.interface = g.interface

(* And on a report: the selector of parsed routes agrees with the typed    *)
(* metric, and a gateway is pinged only where there is a default route.    *)
ReadersAgree(st) ==
  LET Default(f) == RouteWith(ParsedRoute(f), "default", TRUE) IN
  /\ \A i \in DOMAIN st.routes : st.routes[i] # <<>> => RouteAgrees(st.routes[i])
  /\ \A f \in {"any", "ipv4", "ipv6"} :
       /\ HasDefaultRoute(st.routes, f) => HasDefaultRouteForFamily(st.routes, f)
       /\ HasDefaultRoute(st.routes, f) <=> RoutesMatching(st, Default(f)) # {}
       /\ GatewayHost(st, f).ok => HasDefaultRouteForFamily(st.routes, "any")

(* Where the gateway reader finds the interface of a default route, the    *)
(* typed reader finds the same one: "Interface is the route interface name *)
(* when Android reported one" (ip.go:42).                                  *)
InterfacesAgree(st) ==
  \A i \in DOMAIN st.routes :
    GatewayOf(st.routes[i]).interface # "" =>
      ParseRoute(st.routes[i]).interface = GatewayOf(st.routes[i]).interface

(* A prefix found within a CIDR block is an address in it, the two         *)
(* families add up, an address has one scope, the selector that counts     *)
(* routes and the one that asks for one agree, and only the untyped        *)
(* selectors have a verdict without the collector's word.                  *)
SelectorsAgree(st, cidr) ==
  LET m == IpMetric(st) IN
  /\ \A f \in {"any", "ipv4", "ipv6"} :
       PrefixWithin(st, f, cidr) = "pass" => AddressInCIDR(st, f, cidr) = "pass"
  /\ m.address_count.ok =>
       m.ipv4_address_count.value + m.ipv6_address_count.value = m.address_count.value
  /\ \A f \in {"any", "ipv4", "ipv6"} :
       LET s == RouteWith(ParsedRoute(f), "destination", cidr)
           scopes == {AddressScopeName(a) : a \in {b \in ToSet(ParseAddresses(st.addresses)) : Accepts(f, b)}} IN
       /\ RouteExists(st, s) = "pass" <=> RouteCount(st, s).ok /\ RouteCount(st, s).value > 0
       /\ \A scope \in ToSet(ScopeOrder) : AddressScope(st, f, scope) = "pass" <=> m.mtu.ok /\ scope \in scopes
       /\ DnsAddressInCIDR(st, f, cidr) = "pass" => st.dns # <<>> /\ m.dns_server_count.value > 0
  /\ ~m.mtu.ok => RouteExists(st, ParsedRoute("any")) = "missing"
  /\ ListContains(st, st.dns, {cidr}) = "pass" => IpAssert(st, "none") = "pass"
=============================================================================
