---------------------------- MODULE MCRuleSelect ----------------------------
(* Small instances of RuleSelect for TLC. *)
EXTENDS RuleSelect, TLC

NoName == [labels |-> <<>>, wild |-> FALSE]

\* A rule for a network, for a host, and for a name; one word differs from
\* these in each of the others.
AnyRule ==
  [enabled |-> TRUE, priority |-> 1, kind |-> 0, family |-> 0, addr |-> <<0>>,
   prefixLen |-> 0, port |-> 0, reserved |-> 0, protocol |-> 0,
   hostname |-> NoName, sni |-> NoName]
Net(len) == [AnyRule EXCEPT !.kind = 2, !.family = 1, !.addr = <<2>>, !.prefixLen = len]
Host == [AnyRule EXCEPT !.kind = 1, !.family = 1, !.addr = <<2>>]
Named(w) == [AnyRule EXCEPT !.hostname = [labels |-> <<"com">>, wild |-> w]]
Served(w) == [AnyRule EXCEPT !.sni = [labels |-> <<"com">>, wild |-> w]]

\* Rules of every class and with every reason not to match, and networks of
\* every prefix length around the byte boundaries.
MCRules ==
  { [Net(1) EXCEPT !.priority = 2], [Net(1) EXCEPT !.enabled = FALSE],
    [Net(1) EXCEPT !.family = 0],
    [Host EXCEPT !.port = 1], [Host EXCEPT !.port = 1, !.reserved = 2],
    [Host EXCEPT !.protocol = 2], [Host EXCEPT !.reserved = 1],
    Named(FALSE), [Named(TRUE) EXCEPT !.priority = 2], [Named(FALSE) EXCEPT !.port = 1],
    Served(FALSE), Served(TRUE), [Served(FALSE) EXCEPT !.kind = 1, !.family = 1],
    [Served(FALSE) EXCEPT !.hostname = Named(FALSE).hostname] }
  \cup {Net(len) : len \in 0 .. 3}
  \cup {[Net(len) EXCEPT !.family = 2, !.addr = <<2, 1>>] : len \in 0 .. 5}

MCEndpoints ==
  {[protocol |-> 1, port |-> 1, family |-> 1, addr |-> <<x>>] : x \in 0 .. 3}
  \cup {[protocol |-> 2, port |-> 2, family |-> 2, addr |-> <<x, y>>] :
          x \in {2, 3}, y \in 0 .. 3}

MCSemantics == { [hostname |-> h, sni |-> s] :
                   h \in {<<>>, <<"com">>, <<"com", "a">>}, s \in {<<>>, <<"com">>, <<"com", "a">>} }
MCFamilyBytes == <<1, 2>>
=============================================================================
