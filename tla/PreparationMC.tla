---------------------------- MODULE PreparationMC ----------------------------
(* Preparation with small bodies, requests and profiles *)
EXTENDS Preparation

CONSTANTS MaxLines, MaxPieces

MCOverridden == {"remote", "up", "ca"}
MCTrust == {"ca"}
MCOwn == <<"remote", "verb">>

\* A request that changes one thing of the defaults, or says nothing of it
Request == SettingsToJson(DefaultSettings)
MCRequests ==
    {Request,
     [Request EXCEPT !.killSwitch = "false", !.allowLan = "true", !.country = "se"],
     [Request EXCEPT !.killSwitch = "absent", !.allowLan = "true", !.dns = <<>>],
     [Request EXCEPT !.dns = <<"padded">>, !.technology = "absent"],
     [Request EXCEPT !.dns = <<"custom", "name">>],
     [Request EXCEPT !.technology = "openvpn", !.protocol = "tcp"],
     [Request EXCEPT !.technology = "openvpn", !.protocol = "absent", !.country = "XX"],
     [Request EXCEPT !.country = "long"]}

Sweden(cities) == [code |-> "SE", id |-> 1, cities |-> cities]
MCCatalogs == {<<>>, <<Sweden({})>>, <<Sweden({2})>>}
MCPlaces == {[country |-> 1, city |-> NoFilter], [country |-> 1, city |-> 2]}

Server(id, host, station, key) == [id |-> id, host |-> host, station |-> station, key |-> key]
Good == Server(1, "nord", "address", "valid")
NoKey == Server(1, "nord", "address", "none")
Other == Server(2, "other", "address", "valid")
MCServerBodies ==
    {<<Good>>, <<NoKey, Good>>, <<Good, Server(0, "nord", "address", "valid")>>,
     <<Other, Server(2, "nord", "name", "valid")>>, <<Server(1, "none", "address", "valid")>>}

Word(name, form) == Line("word", name, form)
Open(name) == Line("open", name, "exact")
Close(name, form) == Line("close", name, form)
Lines == {Word("remote", "plain"), Word("up", "dashed"), Word("up", "quoted"), Word("verb", "plain"),
          Open("ca"), Close("ca", "exact"), Close("ca", "cased"),
          Open("connection"), Close("connection", "exact")}
Inside(name, lines) == <<Open(name)>> \o lines \o <<Close(name, "exact")>>
\* Longer profiles are put together of whole blocks.
Pieces == {<<Word("remote", "plain")>>, <<Word("up", "dashed")>>, <<Word("verb", "plain")>>,
           Inside("ca", <<Word("remote", "plain")>>), Inside("ca", <<Open("connection")>>),
           Inside("connection", <<Word("up", "plain")>>),
           Inside("connection", Inside("ca", <<Line("comment", "", "plain")>>))}
MCProfiles == UNION {[1..n -> Lines] : n \in 0..MaxLines}
                \cup UNION {{FlattenSeq(p) : p \in [1..n -> Pieces]} : n \in 0..MaxPieces}
=============================================================================
