-------------------------- MODULE AmvpOperatingEnvMC --------------------------
(***************************************************************************)
(* Instance: files that load, files that fail at each kind of element, and *)
(* a database whose entries differ from the metadata in one respect each.  *)
(***************************************************************************)
EXTENDS AmvpOperatingEnv

MCStrings ==
    {NULL, NoString, "a", "b", "c1", "c2", "c3", "c4", "d", "d1", "d2", "d3", "d4", "e", "f", "g", "j", "k", "jane",
     "john", "m", "m1", "m2", "m3", "n", "o1", "o2", "o3", "p", "q", "s", "v1", "v2", "v3", "v4", "x", "x1", "x2", "x3",
     "y", "y1", "y4"}

MCPerson(n, emails) == [name |-> n, emails |-> emails, phones |-> <<>>]
MCVendor(kind, emails, phones, persons) ==
    [kind |-> kind, emails |-> emails, phones |-> phones, address |-> "x", persons |-> persons]
MCJane == MCPerson("jane", <<"j">>)
MCJohn == MCPerson("john", <<"k">>)
MCAcme == MCVendor("ok", <<"a">>, <<"p">>, <<MCJane>>)
MCPair == MCVendor("ok", <<"a">>, <<>>, <<MCJane, MCJohn>>)

MCDep(kind, n, d, s, f) == [kind |-> kind, name |-> n, desc |-> d, series |-> s, family |-> f]
MCFull == MCDep("ok", "n", "d", "s", "f")
MCPlain == MCDep("ok", "n", NULL, NULL, NULL)
MCOe(kind, ds) == [kind |-> kind, deps |-> ds]
MCModule(kind) == [kind |-> kind, data |-> IF kind = "ok" THEN "m" ELSE NULL]
MCFile(vs, ms, os) == [vendors |-> vs, modules |-> ms, oes |-> os, absent |-> {}]

MCFiles ==
    { MCFile(<<MCAcme>>, <<MCModule("ok")>>, <<MCOe("ok", <<MCFull, MCPlain>>)>>),
      MCFile(<<MCPair, MCAcme>>, <<MCModule("ok")>>, <<MCOe("ok", <<MCPlain>>)>>),
      MCFile(<<MCVendor("ok", <<"a", "b">>, <<>>, <<MCJane>>)>>, <<MCModule("ok"), MCModule("ok")>>, <<>>),
      MCFile(<<MCVendor("ok", <<"a">>, <<"p">>, <<MCPerson("jane", <<"j", "k">>)>>)>>, <<MCModule("ok")>>,
             <<MCOe("ok", <<MCFull>>), MCOe("ok", <<MCDep("tooLong", "n", "e", NULL, NULL)>>)>>),
      MCFile(<<MCVendor("ok", <<>>, <<>>, <<MCJane>>)>>, <<MCModule("ok")>>,
             <<MCOe("ok", <<MCPlain>>), MCOe("ok", <<MCDep("blank", NULL, NULL, NULL, NULL)>>)>>),
      MCFile(<<MCAcme, MCVendor("broken", <<"a">>, <<>>, <<>>)>>, <<>>, <<>>),
      MCFile(<<MCAcme>>, <<MCModule("broken")>>, <<>>),
      MCFile(<<MCAcme>>, <<MCModule("unnamed")>>, <<>>),
      MCFile(<<MCAcme>>, <<>>, <<MCOe("ok", <<>>)>>),
      MCFile(<<MCAcme>>, <<>>, <<MCOe("unnamed", <<MCPlain>>)>>),
      MCFile(<<MCVendor("unnamed", <<>>, <<>>, <<>>)>>, <<>>, <<>>),
      [MCFile(<<MCAcme>>, <<>>, <<>>) EXCEPT !.absent = {"modules"}],
      [MCFile(<<MCAcme>>, <<MCModule("ok")>>, <<>>) EXCEPT !.absent = {"oes"}],
      MCFile(<<>>, <<>>, <<>>) }

MCContact(p, u) == [name |-> p.name, emails |-> p.emails, phones |-> NoArray, url |-> u]
MCEntry(phones, address, contacts) ==
    [emails |-> <<"a">>, phones |-> phones, addresses |-> <<[data |-> address, url |-> address \o "url"]>>,
     contacts |-> contacts]
MCVendorTable ==
    [u \in {"v1", "v2", "v3", "v4"} |->
        CASE u = "v1" -> [MCEntry(<<"p">>, "x", <<MCContact(MCJohn, "c1"), MCContact(MCJane, "c2")>>)
                            EXCEPT !.addresses = <<[data |-> "y", url |-> "y1"], [data |-> "x", url |-> "x1"]>>]
          [] u = "v2" -> [MCEntry(<<NoString>>, "x", <<[MCContact(MCJane, "c3") EXCEPT !.emails = <<NoString>>]>>)
                            EXCEPT !.addresses[1].url = "x2"]
          [] u = "v3" -> [MCEntry(NoArray, "x", <<MCContact(MCJohn, "c4")>>) EXCEPT !.addresses[1].url = "x3"]
          [] u = "v4" -> [MCEntry(<<"q">>, "y", <<>>) EXCEPT !.addresses[1].url = "y4"]]
MCModuleTable ==
    [u \in {"m1", "m2", "m3"} |->
        CASE u = "m1" -> [data |-> "m", vendorUrl |-> "v1", addressUrl |-> "x1", contactUrls |-> <<"c2">>]
          [] u = "m2" -> [data |-> "m", vendorUrl |-> "v1", addressUrl |-> "y1", contactUrls |-> <<"c2">>]
          [] u = "m3" -> [data |-> "m", vendorUrl |-> "v2", addressUrl |-> "x2", contactUrls |-> <<"c3", "c3">>]]
MCDepTable ==
    [u \in {"d1", "d2", "d3", "d4"} |->
        CASE u = "d1" -> [name |-> "n", desc |-> "d", series |-> "s", family |-> "g"]
          [] u = "d2" -> [name |-> "n", desc |-> "d", series |-> NULL, family |-> "f"]
          [] u = "d3" -> [name |-> "n", desc |-> "d", series |-> "s", family |-> "f"]
          [] u = "d4" -> [name |-> "n", desc |-> NULL, series |-> NULL, family |-> NULL]]
MCOeTable ==
    [u \in {"o1", "o2", "o3"} |-> CASE u = "o1" -> <<"d3", NoString>> [] u = "o2" -> <<"d4">> [] u = "o3" -> <<>>]
=============================================================================
