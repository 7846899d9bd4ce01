----------------------------- MODULE Preparation -----------------------------
(***************************************************************************)
(* From a request to a tunnel's configuration: the session and its settings  *)
(* as they are stored and read back, the Nord replies login, servers and     *)
(* connect rest on, the choice of the server, and the configuration built    *)
(* of all of it.  One operation of one user at a time: how the operations   *)
(* of several threads interleave is Controller's subject.                   *)
(***************************************************************************)
EXTENDS OpenVpnConfig, NordApi, FiniteSets

CONSTANTS
    SettingsRequests,   \* the JSON a client saves
    Catalogs,           \* bodies of /v1/servers/countries
    ServerBodies,       \* bodies of /v1/servers/recommendations
    Profiles,           \* bodies of the profile download, by lines
    Places,             \* what the user may choose of a catalog
    Ids                 \* server ids a client may ask for

\* A name server: one of Nord's, an address in its own form or padded, or no address
NameServers == {"nord1", "nord2", "custom", "padded", "name"}

\* The name servers of a request are a list, a profile is one of lines; everything else
\* of both may be anything.
ASSUME PreparationAssumption ==
    /\ \A json \in SettingsRequests : json.dns \in Seq(NameServers)
    /\ Profiles \subseteq Seq(ProfileLines)

VARIABLES
    store,      \* the session file of the user
    told,       \* ghost: the settings the user was last told are saved
    cache,      \* serverCache_
    at,         \* where the operation is
    method,     \* which operation it is
    session,    \* the session it read
    country,    \* the country code it asks for
    reply,      \* how its last request ended, none before
    sound,      \* ghost: all it was answered so far is Nord's word
    list,       \* available
    selected,   \* the server
    config,     \* the configuration the last connect built
    answer      \* how the last operation ended

local == <<method, session, country, list, selected>>
vars == <<store, told, cache, at, local, reply, sound, config, answer>>

-----------------------------------------------------------------------------
(* Models: Settings and Session to JSON and back.  A field of the JSON may
   be "absent", or no value of the field's type, which reads the same. *)

DefaultDns == <<"nord1", "nord2">>
DefaultSettings == [killSwitch |-> TRUE, allowLan |-> FALSE, dns |-> DefaultDns,
                    country |-> "", technology |-> "nordlynx", protocol |-> "udp"]

Flag(b) == IF b THEN "true" ELSE "false"

\* Mutant: a switch is written only when it is on
OnlyIfSet(s) ==
    [killSwitch |-> IF s.killSwitch THEN "true" ELSE "absent", allowLan |-> Flag(s.allowLan),
     dns |-> s.dns, country |-> s.country, technology |-> s.technology, protocol |-> s.protocol]

SettingsToJson(s) ==
    [killSwitch |-> Flag(s.killSwitch), allowLan |-> Flag(s.allowLan), dns |-> s.dns,
     country |-> s.country, technology |-> s.technology, protocol |-> s.protocol]

\* trimmed().toUpper()
Upper(code) == IF code = "se" THEN "SE" ELSE code

SettingsFromJson(json) ==
    [killSwitch |-> json.killSwitch # "false",
     allowLan |-> json.allowLan = "true",
     dns |-> IF json.dns = <<>> THEN DefaultDns ELSE json.dns,
     country |-> Upper(json.country),
     technology |-> IF json.technology = "openvpn" THEN "openvpn" ELSE "nordlynx",
     protocol |-> IF json.protocol = "tcp" THEN "tcp" ELSE "udp"]

\* normalizedDnsAddress: an address literal without a scope, in its own form
IsAddress(d) == d # "name"
Normalized(d) == IF d = "padded" THEN "custom" ELSE d

NoSession == [names |-> FALSE, key |-> "none", sound |-> TRUE,
              settings |-> SettingsToJson(DefaultSettings)]

\* Session::fromJson refuses a session without token or names.
SignedIn == store.names
Session == [key |-> store.key, settings |-> SettingsFromJson(store.settings)]

-----------------------------------------------------------------------------
(* Steps the operations share *)

NoList == [asked |-> NoFilter, servers |-> <<>>, sound |-> TRUE]
NoServer == [id |-> 0, host |-> "none", station |-> "none", key |-> "none"]
NoReply == [error |-> "none", truth |-> "none"]
NoConfig == [technology |-> "none"]
NoUserSession == [key |-> "none", settings |-> DefaultSettings]

Init ==
    /\ store = NoSession /\ told = DefaultSettings /\ cache = NoList
    /\ at = "idle" /\ method = "none" /\ session = NoUserSession /\ country = ""
    /\ reply = NoReply /\ sound = TRUE /\ list = NoList /\ selected = NoServer
    /\ config = NoConfig /\ answer = "none"

\* The operation ends with answer a, and with configuration c.
FinishWith(a, c) ==
    /\ answer' = a /\ config' = c
    /\ at' = "idle" /\ method' = "none" /\ session' = NoUserSession /\ country' = ""
    /\ reply' = NoReply /\ sound' = TRUE /\ list' = NoList /\ selected' = NoServer
Finish(a) == FinishWith(a, NoConfig)

Goto(label) == at' = label /\ reply' = NoReply
Begin(m, label) == /\ at = "idle" /\ at' = label /\ method' = m
                   /\ config' = NoConfig /\ answer' = "none"
                   /\ UNCHANGED <<store, told, cache, reply, sound>>

\* get(): the request of the step, whatever it is answered with
Asks == {"credentials", "user", "catalog", "country", "recommend", "profile"}
HasToken == at \in {"credentials", "user"}
Exchange ==
    /\ at \in Asks /\ reply = NoReply
    /\ at = "profile" => NordHost(selected)
    /\ \E r \in RawReplies : reply' = [error |-> ErrorOf(r, HasToken), truth |-> Truth(r)]
    /\ UNCHANGED <<store, told, cache, at, local, sound, config, answer>>

Answered(label) == at = label /\ reply # NoReply /\ reply.error = "none"
Refused(label) == at = label /\ reply.error # "none"
SoundSoFar == sound /\ reply.truth = "answer"

-----------------------------------------------------------------------------
(* login, logout, saveSettings *)

\* A token is lowercase hexadecimal digits, in a number within bounds, or it is not.
Tokens == {"hexadecimal", "other"}
WellFormed(token) == token = "hexadecimal"

\* A token of another form is rejected at once: nothing is asked.
Login(token) ==
    \/ /\ WellFormed(token) /\ Begin("login", "credentials")
       /\ UNCHANGED <<session, country, list, selected>>
    \/ /\ ~WellFormed(token) /\ at = "idle" /\ Finish("invalid_token")
       /\ UNCHANGED <<store, told, cache>>

LoginErrorCode(code) ==
    CASE code = "token_rejected" -> "invalid_token"
      [] code = "network_failure" -> "network_failure"
      [] OTHER -> "authentication_failed"

\* The request failed, or the body is no JSON or names no account.
LoginFails ==
    /\ \/ Refused("credentials") \/ Refused("user")
       \/ Answered("credentials") \/ Answered("user")
    /\ Finish(LoginErrorCode(reply.error))
    /\ UNCHANGED <<store, told, cache>>

CredentialsReply ==
    /\ Answered("credentials")
    /\ \E key \in {"valid", "bad"} : session' = [NoUserSession EXCEPT !.key = key]
    /\ sound' = SoundSoFar
    /\ Goto("user")
    /\ UNCHANGED <<store, told, cache, method, country, list, selected, config, answer>>

\* The new session has the default settings; the server list stays.
UserReply ==
    /\ Answered("user")
    /\ \/ /\ store' = [names |-> TRUE, key |-> session.key, sound |-> SoundSoFar,
                       settings |-> SettingsToJson(DefaultSettings)]
          /\ told' = DefaultSettings /\ Finish("ok")
       \/ Finish("storage_failed") /\ UNCHANGED <<store, told>>
    /\ UNCHANGED cache

Logout ==
    /\ at = "idle" /\ SignedIn
    /\ store' = NoSession /\ told' = DefaultSettings /\ cache' = NoList
    /\ Finish("ok")

SaveSettings(json) ==
    LET asked == SettingsFromJson(json)
        next == [asked EXCEPT !.dns = [i \in DOMAIN asked.dns |-> Normalized(asked.dns[i])],
                              !.allowLan = @ /\ ~asked.killSwitch]
        valid == /\ asked.country \in {"", "SE", "XX"}      \* two letters
                 /\ \A i \in DOMAIN asked.dns : IsAddress(asked.dns[i])
    IN  /\ at = "idle" /\ SignedIn
        /\ \/ /\ valid /\ Finish("ok")
              /\ store' = [store EXCEPT !.settings = SettingsToJson(next)]
              /\ told' = next /\ cache' = NoList
           \/ /\ Finish(IF valid THEN "storage_failed" ELSE "invalid_settings")
              /\ UNCHANGED <<store, told, cache>>

-----------------------------------------------------------------------------
(* servers and connect *)

\* countryId(): no code is no filter and no request.
AskCountry(code) == IF code = "" THEN "recommend" ELSE "country"

Servers(code) ==
    /\ SignedIn /\ Begin("servers", AskCountry(code))
    /\ session' = Session /\ country' = code
    /\ UNCHANGED <<list, selected>>

ConnectMethods == {"connect", "connectLocation", "quickConnect"}

\* connectLocation asks for the catalog; the others take the cached list,
\* quickConnect never and connect when there is one.
Connect(m) ==
    /\ SignedIn
    /\ Begin(m, IF m = "connectLocation" THEN "catalog"
                ELSE IF m = "quickConnect" \/ cache.servers = <<>>
                THEN AskCountry(Session.settings.country) ELSE "select")
    /\ session' = Session /\ country' = Session.settings.country /\ list' = cache
    /\ UNCHANGED selected

OperationFails(label, code) ==
    /\ at = label /\ Finish(code)
    /\ UNCHANGED <<store, told, cache>>

DiscoveryCode ==
    IF method = "connectLocation" /\ reply.error = "network_failure"
    THEN "network_failure" ELSE "discovery_failed"

DiscoveryFails ==
    \E label \in {"catalog", "country", "recommend"} :
        Refused(label) /\ OperationFails(label, DiscoveryCode)

\* The place the user chose is looked up in the catalog as it is now.
CatalogReply(body, place) ==
    /\ Answered("catalog")
    /\ \/ /\ place \in Locations(body) /\ Goto("recommend") /\ sound' = SoundSoFar
          /\ UNCHANGED <<store, told, cache, local, config, answer>>
       \/ /\ place \notin Locations(body)
          /\ OperationFails("catalog", IF body = <<>> THEN "discovery_failed"
                                       ELSE "location_unavailable")

CountryReply(body) ==
    /\ Answered("country")
    /\ \/ /\ HasCountry(body, country) /\ Goto("recommend") /\ sound' = SoundSoFar
          /\ UNCHANGED <<store, told, cache, local, config, answer>>
       \/ ~HasCountry(body, country) /\ OperationFails("country", "discovery_failed")

\* recommendedServers(), and serverCache_
RecommendReply(body) ==
    LET found == [asked |-> Filter(session.settings), servers |-> ParseServers(body),
                  sound |-> SoundSoFar]
    IN  /\ Answered("recommend")
        /\ \/ /\ found.servers = <<>> /\ OperationFails("recommend", "discovery_failed")
           \/ /\ found.servers # <<>> /\ cache' = found /\ UNCHANGED <<store, told>>
              /\ \/ method = "servers" /\ Finish("ok")
                 \/ /\ method # "servers" /\ list' = found /\ Goto("select")
                    /\ UNCHANGED <<method, session, country, selected, sound, config, answer>>

\* Where the chosen server leads
Chosen(s) ==
    /\ selected' = s
    /\ Goto(IF session.settings.technology = "openvpn" THEN "profile" ELSE "build")
    /\ UNCHANGED <<store, told, cache, method, session, country, list, sound, config, answer>>

\* connect looks for its id, the last of that id; connectLocation takes the
\* first; quickConnect any.
Select(id) ==
    LET candidates == CASE method = "connectLocation" -> {Head(list.servers)}
                        [] method = "quickConnect" -> ToSet(list.servers)
                        [] OTHER -> {s \in ToSet(list.servers) : s.id = id}
    IN  /\ at = "select"
        /\ \/ \E s \in candidates : Chosen(s)
           \/ candidates = {} /\ OperationFails("select", "server_unavailable")

\* A host name of another form, a request that failed, a profile without
\* trust material or over its limit
ProfileFails ==
    /\ ~NordHost(selected) \/ reply # NoReply
    /\ OperationFails("profile", "configuration_failed")


\* buildWireGuardConfig: the routes of all addresses at once turn the
\* client's kill switch on, those of both halves do not.
WireGuardReady == /\ selected.station = "address"
                  /\ session.key = "valid" /\ selected.key = "valid"

DnsReady == \A i \in DOMAIN session.settings.dns : IsAddress(session.settings.dns[i])
NormalDns == [i \in DOMAIN session.settings.dns |-> Normalized(session.settings.dns[i])]

BuildWireGuard ==
    /\ at = "build" /\ session.settings.technology = "nordlynx"
    /\ \/ /\ WireGuardReady /\ DnsReady
          /\ FinishWith("ok", [technology |-> "nordlynx", server |-> selected, dns |-> NormalDns,
                               key |-> session.key,
                               strict |-> session.settings.killSwitch,
                               sound |-> sound /\ list.sound /\ store.sound])
          /\ UNCHANGED <<store, told, cache>>
       \/ /\ ~(WireGuardReady /\ DnsReady)
          /\ OperationFails("build", IF WireGuardReady THEN "dns_invalid" ELSE "connection_failed")

\* Mutant: TCP and UDP are swapped
SwappedProtocol == IF session.settings.protocol = "tcp" THEN "udp" ELSE "tcp"
Protocol == session.settings.protocol

\* openVpnConfig()'s checks of the body, then buildOpenVpnConfig
HasTrust(profile) == \E i \in DOMAIN profile : profile[i].is = "open" /\ profile[i].name = "ca"
BuildOpenVpn(profile) ==
    /\ Answered("profile") /\ HasTrust(profile)
    /\ \/ /\ selected.station = "address" /\ DnsReady /\ Accepted(profile)
          /\ FinishWith("ok", [technology |-> "openvpn", server |-> selected, dns |-> NormalDns,
                               protocol |-> Protocol, profile |-> profile,
                               lines |-> Output(profile),
                               sound |-> SoundSoFar /\ list.sound /\ store.sound])
          /\ UNCHANGED <<store, told, cache>>
       \/ /\ ~(selected.station = "address" /\ DnsReady /\ Accepted(profile))
          /\ OperationFails("profile", IF selected.station # "address" \/ DnsReady
                                       THEN "connection_failed" ELSE "dns_invalid")

Next ==
    \/ \E token \in Tokens : Login(token)
    \/ Exchange \/ LoginFails \/ CredentialsReply \/ UserReply \/ Logout
    \/ \E json \in SettingsRequests : SaveSettings(json)
    \/ \E code \in {"", "SE", "XX"} : Servers(code)
    \/ \E m \in ConnectMethods : Connect(m)
    \/ DiscoveryFails
    \/ \E body \in Catalogs, place \in Places : CatalogReply(body, place)
    \/ \E body \in Catalogs : CountryReply(body)
    \/ \E body \in ServerBodies : RecommendReply(body)
    \/ \E id \in Ids : Select(id)
    \/ ProfileFails \/ BuildWireGuard
    \/ \E profile \in Profiles : BuildOpenVpn(profile)

Spec == Init /\ [][Next]_vars

-----------------------------------------------------------------------------
(* Properties *)

Built == config # NoConfig
OpenVpnBuilt == Built /\ config.technology = "openvpn"

\* A configuration rests on nothing but Nord's own words, whole, in time and
\* signed: the credentials, the server list however long it was cached, the
\* catalog and the profile (verify(), on every reply of getUrlOnQtThread).
RestsOnNordsWord == Built => config.sound

\* The user is told that the token is invalid only if it has not the form of a
\* token, with nothing asked, or if Nord refused it, with 401 or 403: not for a
\* proxy's 401, a refusal that is too old or one that nobody can verify.
RejectionIsNords ==
    [][answer' = "invalid_token"
        => IF at = "idle" THEN \E token \in Tokens : ~WellFormed(token) /\ Login(token)
           ELSE at \in {"credentials", "user"} /\ reply.truth = "refusal"]_vars

\* Settings are kept and usable: what the session file reads back as is what the
\* user was told is saved, with every field's default (toJson and fromJson), and
\* settings that were saved never keep a tunnel from being built (the check of
\* saveSettings is as strict as the builders').
SettingsSurvive == SettingsFromJson(store.settings) = told /\ answer # "dns_invalid"

\* The configuration is the one of the settings in force: engine, protocol,
\* routes (the kill switch) and name servers; and however old the server list
\* is and whichever engine it was asked for, the engine that starts can reach
\* its server, WireGuard by the key and OpenVPN by the host name.
FollowsSettings ==
    Built => /\ config.technology = told.technology /\ config.dns = told.dns
             /\ config.technology = "openvpn" =>
                   config.protocol = told.protocol /\ NordHost(config.server)
             /\ config.technology = "nordlynx" =>
                   config.strict = told.killSwitch /\ config.server.key = "valid"

\* OpenVPN reads in the output what the filter is to keep of the profile and
\* nothing else of it, and every directive of the service in effect after it
\* (buildOpenVpnConfig; the tags of the profile in lower case).
ProfileIsFiltered ==
    OpenVpnBuilt /\ LowerCaseTags(config.profile)
        => FilteredAsRead(config.profile, config.lines) /\ OwnInEffect(config.lines)
=============================================================================
