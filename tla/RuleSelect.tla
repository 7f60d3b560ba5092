----------------------------- MODULE RuleSelect -----------------------------
(***************************************************************************)
(* Which target rule of a policy applies to a call: the loop of            *)
(* select_best_target_rule over the slot's rules, and what it is for a     *)
(* rule to match an endpoint, a host name or a TLS server name.            *)
(*                                                                         *)
(* A name is the sequence of its labels from the right ("a.b" is <<b, a>>),*)
(* <<>> when there is none; a rule name with wild set is "*.name".         *)
(* Addresses are sequences of bytes of ByteBits bits (8 in the code).      *)
(***************************************************************************)
EXTENDS Integers, Sequences

CONSTANTS
  ByteBits,    \* bits of a byte of an address
  FamilyBytes, \* address family (1 or 2) -> bytes of its addresses
  MaxRules,    \* MAX_TARGET_RULES_PER_TID
  RuleSpace,   \* the rules a table may hold
  Endpoints,   \* endpoints of calls
  Semantics    \* observed names: records of hostname and sni

\* resolve_runtime_config finds no endpoint for some calls (a DNS lookup).
NoEndpoint == [protocol |-> 0, port |-> 0, family |-> 0, addr |-> <<>>]

ASSUME SelectAssumption ==
  /\ ByteBits \in Nat \ {0}
  /\ MaxRules \in Nat
  /\ \A r \in RuleSpace : r.priority \in Nat

VARIABLES
  rules,     \* the table: a sequence of rules
  count,     \* target_enabled of the configuration
  endpoint,
  semantic,
  idx,       \* rules looked at so far
  selected   \* the best so far: its index (0 for none), priority and class

SelectVars == <<rules, count, endpoint, semantic, idx, selected>>

-----------------------------------------------------------------------------
(* Matching one rule.                                                      *)

HasName(n) == n.labels # <<>>

\* wildcard_matches: a proper subdomain, never the suffix itself.
WildcardMatches(suffix, candidate) ==
  /\ Len(candidate) > Len(suffix)
  /\ SubSeq(candidate, 1, Len(suffix)) = suffix

\* match_name_score; 0 for no match.
MatchNameScore(name, candidate) ==
  IF candidate = <<>> THEN 0
  ELSE IF name.wild
       THEN IF WildcardMatches(name.labels, candidate) THEN 1 ELSE 0
       ELSE IF name.labels = candidate THEN 2 ELSE 0

RulePortEnd(r) == IF r.reserved > 0 THEN r.reserved ELSE r.port

EndpointMatchesRuleFilters(r, e) ==
  /\ r.protocol > 0 => r.protocol = e.protocol
  /\ r.port > 0 \/ RulePortEnd(r) > 0 => e.port \in r.port .. RulePortEnd(r)

\* Mutant of PrefixMatch: the mask of the last byte is a bit too long.
PrefixMatchLong(candidate, network, len) ==
  LET full == len \div ByteBits
      partial == len % ByteBits
      High(b) == b \div 2^(ByteBits - partial - 1)
  IN /\ \A i \in 1 .. full : candidate[i] = network[i]
     /\ partial > 0 => High(candidate[full + 1]) = High(network[full + 1])

\* prefix_match: whole bytes, then the high bits of the next one.
PrefixMatch(candidate, network, len) ==
  LET full == len \div ByteBits
      partial == len % ByteBits
      High(b) == b \div 2^(ByteBits - partial)
  IN /\ \A i \in 1 .. full : candidate[i] = network[i]
     /\ partial > 0 => High(candidate[full + 1]) = High(network[full + 1])

BoundedPrefix(r) ==
  LET most == ByteBits * FamilyBytes[r.family]
  IN IF r.prefixLen < most THEN r.prefixLen ELSE most

AddressMatches(r, e) ==
  /\ r.family # 0
  /\ e.family = r.family
  /\ \/ r.kind = 1 /\ e.addr = r.addr
     \/ r.kind = 2 /\ PrefixMatch(e.addr, r.addr, BoundedPrefix(r))

\* rule_match_class; 0 for no match.  Exact before wildcard, server name
\* before host name before address.
RuleMatchClass(r, e, sem) ==
  LET named == HasName(r.hostname) \/ HasName(r.sni)
      score == IF HasName(r.sni) THEN MatchNameScore(r.sni, sem.sni)
               ELSE MatchNameScore(r.hostname, sem.hostname)
      bonus == IF HasName(r.sni) THEN 3 ELSE 1
      filtered == r.protocol > 0 \/ r.port > 0 \/ r.reserved > 0
  IN IF \/ ~r.enabled
        \/ HasName(r.hostname) /\ HasName(r.sni)
        \/ named /\ r.kind # 0
     THEN 0
     ELSE IF named
     THEN IF /\ filtered => e # NoEndpoint /\ EndpointMatchesRuleFilters(r, e)
             /\ score > 0
          THEN score + bonus ELSE 0
     ELSE IF /\ e # NoEndpoint
             /\ EndpointMatchesRuleFilters(r, e)
             /\ AddressMatches(r, e)
          THEN 1 ELSE 0

-----------------------------------------------------------------------------
(* The loop.                                                               *)

NoneSelected == [idx |-> 0, priority |-> 0, class |-> 0]

Limit == IF count < Len(rules) THEN count ELSE Len(rules)

Class(i) == RuleMatchClass(rules[i], endpoint, semantic)

SelectInit ==
  /\ rules \in UNION {[1 .. n -> RuleSpace] : n \in 0 .. MaxRules}
  /\ count \in 0 .. MaxRules
  /\ endpoint \in Endpoints \cup {NoEndpoint}
  /\ semantic \in Semantics
  /\ idx = 0
  /\ selected = NoneSelected

\* Mutant of ShouldReplace: the last of equal rules wins.
ShouldReplaceEqual(r, class) ==
  \/ selected.idx = 0
  \/ r.priority > selected.priority
  \/ r.priority = selected.priority /\ class >= selected.class

\* should_replace
ShouldReplace(r, class) ==
  \/ selected.idx = 0
  \/ r.priority > selected.priority
  \/ r.priority = selected.priority /\ class > selected.class

Consider ==
  /\ idx < Limit
  /\ idx' = idx + 1
  /\ LET r == rules[idx + 1]
         class == Class(idx + 1)
     IN selected' = IF class > 0 /\ ShouldReplace(r, class)
                    THEN [idx |-> idx + 1, priority |-> r.priority, class |-> class]
                    ELSE selected
  /\ UNCHANGED <<rules, count, endpoint, semantic>>

SelectNext == Consider

SelectSpec == SelectInit /\ [][SelectNext]_SelectVars

-----------------------------------------------------------------------------
(* Properties.                                                             *)

\* The loop stays inside the table, and what it notes is a rule of the table
\* with one of the five match classes, or none.
SelectTypeOK ==
  /\ idx \in 0 .. Limit
  /\ selected \in [idx : 0 .. Len(rules), priority : Nat, class : 0 .. 5]

Matching == {i \in 1 .. idx : Class(i) > 0}

\* i may be applied although j matches as well: it has the higher priority, or the same
\* and then it is the earlier of the two or the more specific match.
MayPrecede(i, j) ==
  \/ rules[i].priority > rules[j].priority
  \/ rules[i].priority = rules[j].priority /\ (i <= j \/ Class(i) > Class(j))

\* select_best_target_rule returns none only if no rule it has looked at matches; what it
\* returns matches, no matching rule has a higher priority, and of equal priorities it
\* passes over an earlier rule only for a more specific match.  Whether it should do that
\* is disputed: docs/shm_protocol.md:164 has ties go to the first rule registered, the
\* test select_rule_prioritizes_sni_over_ip_on_tie to the server name.
SelectedIsBest ==
  IF Matching = {} THEN selected = NoneSelected
  ELSE /\ selected.idx \in Matching
       /\ \A j \in Matching : MayPrecede(selected.idx, j)

\* The bits of an address, most significant first.
Bit(addr, n) ==
  (addr[(n - 1) \div ByteBits + 1] \div 2^(ByteBits - 1 - ((n - 1) % ByteBits))) % 2

\* An address rule of a CIDR network applies exactly to the addresses that
\* agree with it on the prefix, bit for bit, whatever the byte boundaries, and a
\* prefix longer than the address asks for the whole address.
CidrByBits ==
  \A i \in DOMAIN rules :
    LET r == rules[i]
        isNetwork == /\ r.enabled /\ r.kind = 2 /\ r.family # 0
                     /\ r.protocol = 0 /\ RulePortEnd(r) = 0
                     /\ ~HasName(r.hostname) /\ ~HasName(r.sni)
    IN isNetwork /\ endpoint # NoEndpoint =>
         (Class(i) > 0 <=>
            /\ endpoint.family = r.family
            /\ \A n \in 1 .. ByteBits * FamilyBytes[r.family] :
                 n <= r.prefixLen => Bit(endpoint.addr, n) = Bit(r.addr, n))
=============================================================================
