-------------------------- MODULE PreparationProofs --------------------------
(***************************************************************************)
(* What TLAPS proves of Preparation, for every catalog, server list and     *)
(* profile Nord may answer with and every settings a client may save.      *)
(***************************************************************************)
EXTENDS Preparation, SequenceTheorems, WellFoundedInduction, TLAPS

SettingsType ==
    [killSwitch : BOOLEAN, allowLan : BOOLEAN, dns : Seq(NameServers),
     country : {"", "SE", "XX"}, technology : {"openvpn", "nordlynx"},
     protocol : {"tcp", "udp"}]

\* Settings that saveSettings accepts: at least one name server, every one an address
\* in its own form
Usable(s) ==
    /\ s \in SettingsType /\ s.dns # <<>>
    /\ \A i \in DOMAIN s.dns : IsAddress(s.dns[i]) /\ Normalized(s.dns[i]) = s.dns[i]

\* The session file holds the settings the user was told of, which are usable.
StoreInv ==
    /\ Usable(told)
    /\ DOMAIN store = {"names", "key", "sound", "settings"}
    /\ store.sound = TRUE /\ store.settings = SettingsToJson(told)

\* What is answered, cached and built so far is Nord's word.
WordInv ==
    /\ sound = TRUE /\ cache.sound = TRUE /\ list.sound = TRUE
    /\ reply # NoReply /\ reply.error = "none" => reply.truth = "answer"
    /\ reply.error = "token_rejected" => reply.truth = "refusal"
    /\ Built => config.sound = TRUE

\* The places of an operation that works with the session it loaded
Using == {"catalog", "country", "recommend", "select", "profile", "build"}

\* An operation under way works with the settings in force, and a configuration and
\* an answer are there only between two operations.
PlaceInv ==
    /\ at \in Using => session.settings = told
    /\ at = "profile" => session.settings.technology = "openvpn"
    /\ at = "profile" /\ reply # NoReply => NordHost(selected)
    /\ Built => at = "idle"
    /\ at # "idle" => answer = "none"

IInv == StoreInv /\ WordInv /\ PlaceInv /\ FollowsSettings /\ answer # "dns_invalid"

-----------------------------------------------------------------------------
(* Operators *)

\* Only an answer passes for an answer, and only a refusal for a rejected token:
\* getUrlOnQtThread looks at the signature before it looks at the status.
LEMMA ErrorIsTruth ==
  ASSUME NEW r \in RawReplies, NEW token \in BOOLEAN
  PROVE  /\ ErrorOf(r, token) = "none" => Truth(r) = "answer"
         /\ ErrorOf(r, token) = "token_rejected" => Truth(r) = "refusal"
  BY DEF RawReplies, Statuses, ErrorOf, Truth, Success, Verified, DigestMatches

\* Settings read back as they were written (toJson and fromJson).
LEMMA RoundTrip ==
  ASSUME NEW s, Usable(s)
  PROVE  SettingsFromJson(SettingsToJson(s)) = s
  <1>1. s \in SettingsType /\ s.dns # <<>>
    BY DEF Usable
  <1>2. /\ (Flag(s.killSwitch) # "false") = s.killSwitch
        /\ (Flag(s.allowLan) = "true") = s.allowLan
    BY <1>1 DEF SettingsType, Flag
  <1>3. Upper(s.country) = s.country
    BY <1>1 DEF SettingsType, Upper
  <1>4. SettingsFromJson(SettingsToJson(s))
          = [killSwitch |-> s.killSwitch, allowLan |-> s.allowLan, dns |-> s.dns,
             country |-> s.country, technology |-> s.technology, protocol |-> s.protocol]
    BY <1>1, <1>2, <1>3 DEF SettingsFromJson, SettingsToJson, SettingsType
  <1> QED BY <1>1, <1>4 DEF SettingsType

LEMMA DefaultUsable == Usable(DefaultSettings)
  <1>1. DefaultDns \in Seq(NameServers) /\ DefaultDns # <<>> /\ Len(DefaultDns) = 2
        /\ DefaultDns[1] = "nord1" /\ DefaultDns[2] = "nord2"
    BY DEF DefaultDns, NameServers
  <1> QED BY <1>1 DEF Usable, DefaultSettings, SettingsType, IsAddress, Normalized

\* Name servers in their own form stay what they are.
LEMMA AddressesNormal ==
  ASSUME NEW d \in Seq(NameServers), d # <<>>, \A i \in DOMAIN d : IsAddress(d[i])
  PROVE  LET dns == [i \in DOMAIN d |-> Normalized(d[i])]
         IN  /\ dns \in Seq(NameServers) /\ dns # <<>>
             /\ \A i \in DOMAIN dns : IsAddress(dns[i]) /\ Normalized(dns[i]) = dns[i]
  <1> DEFINE dns == [i \in DOMAIN d |-> Normalized(d[i])]
  <1>1. Len(d) \in Nat /\ Len(d) # 0 /\ DOMAIN d = 1..Len(d)
    BY EmptySeq, LenProperties
  <1>2. \A i \in DOMAIN d : d[i] \in NameServers
    BY <1>1, ElementOfSeq
  <1>3. \A i \in DOMAIN d : Normalized(d[i]) \in NameServers /\ Normalized(d[i]) \notin {"name", "padded"}
    BY <1>2 DEF NameServers, Normalized, IsAddress
  <1>4. dns \in [1..Len(d) -> NameServers]
    BY <1>1, <1>3
  <1>5. dns \in Seq(NameServers)
    BY <1>1, <1>4
  <1>6. dns # <<>>
    BY <1>1, <1>4
  <1>7. \A i \in DOMAIN dns : IsAddress(dns[i]) /\ Normalized(dns[i]) = dns[i]
    BY <1>3 DEF IsAddress, Normalized
  <1> QED BY <1>5, <1>6, <1>7

\* What saveSettings accepts it makes usable.
LEMMA SavedUsable ==
  ASSUME NEW json \in SettingsRequests,
         LET asked == SettingsFromJson(json)
         IN  /\ asked.country \in {"", "SE", "XX"}
             /\ \A i \in DOMAIN asked.dns : IsAddress(asked.dns[i])
  PROVE  LET asked == SettingsFromJson(json)
         IN  Usable([asked EXCEPT !.dns = [i \in DOMAIN asked.dns |-> Normalized(asked.dns[i])],
                                  !.allowLan = @ /\ ~asked.killSwitch])
  <1> DEFINE asked == SettingsFromJson(json)
             dns == [i \in DOMAIN asked.dns |-> Normalized(asked.dns[i])]
             next == [asked EXCEPT !.dns = dns, !.allowLan = @ /\ ~asked.killSwitch]
  <1>1. asked \in SettingsType /\ asked.dns # <<>>
    <2>1. json.dns \in Seq(NameServers)
      BY PreparationAssumption
    <2>2. DefaultDns \in Seq(NameServers) /\ DefaultDns # <<>>
      BY DefaultUsable DEF Usable, DefaultSettings, SettingsType
    <2> QED BY <2>1, <2>2 DEF SettingsFromJson, SettingsType
  <1>2. /\ dns \in Seq(NameServers) /\ dns # <<>>
        /\ \A i \in DOMAIN dns : IsAddress(dns[i]) /\ Normalized(dns[i]) = dns[i]
    <2>1. asked.dns \in Seq(NameServers)
      BY <1>1 DEF SettingsType
    <2> QED BY <1>1, <2>1, AddressesNormal
  <1> HIDE DEF asked, dns
  <1>3. next \in SettingsType /\ next.dns = dns
    <2> DEFINE lan == asked.allowLan /\ ~asked.killSwitch
               one == [asked EXCEPT !.dns = dns]
               two == [one EXCEPT !.allowLan = lan]
    <2>1. next = two
      OBVIOUS
    <2> HIDE DEF next, lan
    <2>2. one \in SettingsType
      BY <1>1, <1>2, Zenon DEF SettingsType
    <2>3. one.dns = dns
      BY <1>1, Zenon DEF SettingsType
    <2> HIDE DEF one
    <2>4. lan \in BOOLEAN
      BY Zenon DEF lan
    <2>5. two \in SettingsType
      BY <2>2, <2>4, Zenon DEF SettingsType
    <2>6. two.dns = dns
      BY <2>2, <2>3, Zenon DEF SettingsType
    <2> QED BY <2>1, <2>5, <2>6
  <1>4. Usable(next)
    BY <1>2, <1>3 DEF Usable
  <1> QED BY <1>4 DEF next, dns, asked

-----------------------------------------------------------------------------
(* Steps *)

\* The session file reads back as what the user was told.
LEMMA ReadsAsTold ==
  ASSUME StoreInv
  PROVE  SettingsFromJson(store.settings) = told
  BY RoundTrip DEF StoreInv

LEMMA InitHolds == Init => IInv
  <1> SUFFICES ASSUME Init PROVE IInv
    OBVIOUS
  <1>1. StoreInv
    BY DefaultUsable DEF Init, NoSession, StoreInv
  <1>2. WordInv /\ PlaceInv /\ FollowsSettings
    BY DEF Init, NoList, NoReply, NoConfig, WordInv, PlaceInv, Using, FollowsSettings, Built
  <1> QED BY <1>1, <1>2 DEF IInv, Init

\* An operation that ends without a configuration leaves nothing half done.
LEMMA FinishKeeps ==
  ASSUME NEW a, a # "dns_invalid", Finish(a), StoreInv', cache'.sound = TRUE
  PROVE  IInv'
  <1>1. WordInv' /\ PlaceInv' /\ FollowsSettings' /\ answer' # "dns_invalid"
    BY DEF Finish, FinishWith, NoList, NoReply, NoConfig, WordInv, PlaceInv, Using,
           FollowsSettings, Built
  <1> QED BY <1>1 DEF IInv

LEMMA StoreStays ==
  ASSUME StoreInv, UNCHANGED <<store, told>>
  PROVE  StoreInv'
  BY DEF StoreInv

LEMMA FailureKeeps ==
  ASSUME IInv, NEW label, NEW a, a # "dns_invalid", OperationFails(label, a)
  PROVE  IInv'
  BY FinishKeeps, StoreStays DEF IInv, WordInv, OperationFails

\* A step that changes neither the files nor the cache keeps what is said of both.
LEMMA LoginStep == ASSUME IInv, NEW token \in Tokens, Login(token) PROVE IInv'
  <1>1. CASE WellFormed(token)
    <2>1. Begin("login", "credentials") /\ UNCHANGED <<session, list, selected>>
      BY <1>1 DEF Login
    <2>2. StoreInv'
      BY <2>1, StoreStays DEF IInv, Begin
    <2>3. WordInv' /\ PlaceInv' /\ FollowsSettings' /\ answer' # "dns_invalid"
      BY <2>1 DEF IInv, Begin, NoConfig, WordInv, PlaceInv, Using, FollowsSettings, Built
    <2> QED BY <2>2, <2>3 DEF IInv
  <1>2. CASE ~WellFormed(token)
    BY <1>2, FinishKeeps, StoreStays DEF IInv, WordInv, Login
  <1> QED BY <1>1, <1>2

LEMMA ServersStep == ASSUME IInv, NEW code, Servers(code) PROVE IInv'
  <1>1. StoreInv'
    BY StoreStays DEF IInv, Servers, Begin
  <1>2. session'.settings = told'
    BY ReadsAsTold DEF IInv, Servers, Begin, Session
  <1>3. at' \in {"recommend", "country"}
    BY DEF Servers, Begin, AskCountry
  <1>4. WordInv' /\ PlaceInv' /\ FollowsSettings' /\ answer' # "dns_invalid"
    BY <1>2, <1>3 DEF IInv, Servers, Begin, NoConfig, WordInv, PlaceInv, FollowsSettings, Built
  <1> QED BY <1>1, <1>4 DEF IInv

LEMMA ConnectStep == ASSUME IInv, NEW m, Connect(m) PROVE IInv'
  <1>1. StoreInv'
    BY StoreStays DEF IInv, Connect, Begin
  <1>2. session'.settings = told'
    BY ReadsAsTold DEF IInv, Connect, Begin, Session
  <1>3. at' \in {"catalog", "recommend", "country", "select"}
    BY DEF Connect, Begin, AskCountry
  <1>4. WordInv' /\ PlaceInv' /\ FollowsSettings' /\ answer' # "dns_invalid"
    BY <1>2, <1>3 DEF IInv, Connect, Begin, NoConfig, WordInv, PlaceInv, FollowsSettings, Built
  <1> QED BY <1>1, <1>4 DEF IInv

LEMMA ExchangeStep == ASSUME IInv, Exchange PROVE IInv'
  <1>1. StoreInv'
    BY StoreStays DEF IInv, Exchange
  <1>2. PICK r \in RawReplies : reply' = [error |-> ErrorOf(r, HasToken), truth |-> Truth(r)]
    BY DEF Exchange
  <1>3. HasToken \in BOOLEAN
    BY DEF HasToken
  <1>4. /\ reply'.error = "none" => reply'.truth = "answer"
        /\ reply'.error = "token_rejected" => reply'.truth = "refusal"
    BY <1>2, <1>3, ErrorIsTruth
  <1>5. UNCHANGED <<at, session, selected, list, cache, sound, config, answer, told>>
    BY DEF Exchange, local
  <1>6. ~Built
    BY DEF IInv, PlaceInv, Exchange, Asks
  <1>7. WordInv' /\ FollowsSettings' /\ answer' # "dns_invalid"
    BY <1>4, <1>5, <1>6 DEF IInv, WordInv, FollowsSettings, Built
  <1>8. PlaceInv'
    BY <1>5, <1>6 DEF IInv, Exchange, PlaceInv, Built, NordHost
  <1> QED BY <1>1, <1>7, <1>8 DEF IInv

LEMMA LoginFailsStep == ASSUME IInv, LoginFails PROVE IInv'
  <1>1. LoginErrorCode(reply.error) # "dns_invalid"
    BY DEF LoginErrorCode
  <1> QED BY <1>1, FinishKeeps, StoreStays DEF IInv, WordInv, LoginFails

\* A reply that was accepted is Nord's, so what is kept of it is.
LEMMA AnswerIsSound ==
  ASSUME IInv, NEW label, Answered(label)
  PROVE  SoundSoFar = TRUE
  BY DEF IInv, WordInv, Answered, SoundSoFar

LEMMA CredentialsReplyStep == ASSUME IInv, CredentialsReply PROVE IInv'
  <1>1. StoreInv'
    BY StoreStays DEF IInv, CredentialsReply
  <1>2. sound' = TRUE
    BY AnswerIsSound DEF CredentialsReply
  <1>3. at' = "user" /\ reply' = NoReply /\ ~Built /\ answer = "none"
    BY DEF IInv, PlaceInv, CredentialsReply, Answered, Goto
  <1>4. WordInv' /\ PlaceInv' /\ FollowsSettings' /\ answer' # "dns_invalid"
    BY <1>2, <1>3 DEF IInv, CredentialsReply, NoReply, WordInv, PlaceInv, Using,
                      FollowsSettings, Built
  <1> QED BY <1>1, <1>4 DEF IInv

LEMMA UserReplyStep == ASSUME IInv, UserReply PROVE IInv'
  <1>1. cache'.sound = TRUE
    BY DEF IInv, WordInv, UserReply
  <1>2. CASE Finish("ok") /\ told' = DefaultSettings
             /\ store' = [names |-> TRUE, key |-> session.key, sound |-> SoundSoFar,
                          settings |-> SettingsToJson(DefaultSettings)]
    <2>1. SoundSoFar = TRUE
      BY AnswerIsSound DEF UserReply
    <2>2. StoreInv'
      BY <1>2, <2>1, DefaultUsable DEF StoreInv
    <2> QED BY <1>1, <1>2, <2>2, FinishKeeps
  <1>3. CASE Finish("storage_failed") /\ UNCHANGED <<store, told>>
    BY <1>1, <1>3, StoreStays, FinishKeeps DEF IInv
  <1> QED BY <1>2, <1>3 DEF UserReply

LEMMA LogoutStep == ASSUME IInv, Logout PROVE IInv'
  <1>1. StoreInv'
    BY DefaultUsable DEF Logout, NoSession, StoreInv
  <1>2. cache'.sound = TRUE
    BY DEF Logout, NoList
  <1> QED BY <1>1, <1>2, FinishKeeps DEF Logout

LEMMA SaveSettingsStep ==
  ASSUME IInv, NEW json \in SettingsRequests, SaveSettings(json)
  PROVE  IInv'
  <1> DEFINE asked == SettingsFromJson(json)
             next == [asked EXCEPT !.dns = [i \in DOMAIN asked.dns |-> Normalized(asked.dns[i])],
                                   !.allowLan = @ /\ ~asked.killSwitch]
             valid == /\ asked.country \in {"", "SE", "XX"}
                      /\ \A i \in DOMAIN asked.dns : IsAddress(asked.dns[i])
  <1>1. ASSUME valid PROVE Usable(next)
    BY <1>1, SavedUsable
  <1>2. \/ /\ valid /\ Finish("ok")
           /\ store' = [store EXCEPT !.settings = SettingsToJson(next)]
           /\ told' = next /\ cache' = NoList
        \/ /\ Finish(IF valid THEN "storage_failed" ELSE "invalid_settings")
           /\ UNCHANGED <<store, told, cache>>
    BY DEF SaveSettings
  <1> HIDE DEF asked, next, valid
  <1>3. CASE /\ valid /\ Finish("ok")
             /\ store' = [store EXCEPT !.settings = SettingsToJson(next)]
             /\ told' = next /\ cache' = NoList
    <2>1. /\ DOMAIN store' = {"names", "key", "sound", "settings"}
          /\ store'.sound = TRUE /\ store'.settings = SettingsToJson(next)
      BY <1>3 DEF IInv, StoreInv
    <2>2. Usable(told') /\ told' = next
      BY <1>1, <1>3
    <2>3. StoreInv'
      BY <2>1, <2>2 DEF StoreInv
    <2>4. cache'.sound = TRUE
      BY <1>3 DEF NoList
    <2> QED BY <1>3, <2>3, <2>4, FinishKeeps
  <1>4. CASE /\ Finish(IF valid THEN "storage_failed" ELSE "invalid_settings")
             /\ UNCHANGED <<store, told, cache>>
    <2>1. StoreInv' /\ cache'.sound = TRUE
      BY <1>4, StoreStays DEF IInv, WordInv
    <2> QED BY <1>4, <2>1, FinishKeeps
  <1> QED BY <1>2, <1>3, <1>4

LEMMA DiscoveryFailsStep == ASSUME IInv, DiscoveryFails PROVE IInv'
  <1>1. DiscoveryCode # "dns_invalid"
    BY DEF DiscoveryCode
  <1> QED BY <1>1, FailureKeeps DEF DiscoveryFails

\* The operation goes on to the next request with the session it has.
LEMMA GoesOn ==
  ASSUME IInv, NEW label, label \in {"catalog", "country"}, Answered(label),
         Goto("recommend"), sound' = SoundSoFar,
         UNCHANGED <<store, told, cache, local, config, answer>>
  PROVE  IInv'
  <1>1. StoreInv'
    BY StoreStays DEF IInv
  <1>2. sound' = TRUE
    BY AnswerIsSound
  <1>3. at' = "recommend" /\ reply' = NoReply /\ ~Built /\ session.settings = told
        /\ answer = "none"
    BY DEF IInv, PlaceInv, Answered, Goto, Using
  <1>4. UNCHANGED <<store, told, cache, config, answer, session, list>>
    BY DEF local
  <1>5. WordInv' /\ PlaceInv' /\ FollowsSettings' /\ answer' # "dns_invalid"
    BY <1>2, <1>3, <1>4 DEF IInv, NoReply, WordInv, PlaceInv, FollowsSettings, Built
  <1> QED BY <1>1, <1>5 DEF IInv

LEMMA CatalogReplyStep ==
  ASSUME IInv, NEW body, NEW place, CatalogReply(body, place)
  PROVE  IInv'
  BY GoesOn, FailureKeeps DEF CatalogReply

LEMMA CountryReplyStep == ASSUME IInv, NEW body, CountryReply(body) PROVE IInv'
  BY GoesOn, FailureKeeps DEF CountryReply

LEMMA RecommendReplyStep == ASSUME IInv, NEW body, RecommendReply(body) PROVE IInv'
  <1> DEFINE found == [asked |-> Filter(session.settings), servers |-> ParseServers(body),
                       sound |-> SoundSoFar]
  <1>1. Answered("recommend") /\ found.sound = TRUE
    BY AnswerIsSound DEF RecommendReply
  <1>2. \/ OperationFails("recommend", "discovery_failed")
        \/ /\ cache' = found /\ UNCHANGED <<store, told>>
           /\ \/ Finish("ok")
              \/ /\ list' = found /\ Goto("select")
                 /\ UNCHANGED <<method, session, country, selected, sound, config, answer>>
    BY DEF RecommendReply
  <1> HIDE DEF found
  <1>3. CASE OperationFails("recommend", "discovery_failed")
    BY <1>3, FailureKeeps
  <1>4. CASE cache' = found /\ UNCHANGED <<store, told>> /\ Finish("ok")
    BY <1>1, <1>4, FinishKeeps, StoreStays DEF IInv
  <1>5. CASE /\ cache' = found /\ UNCHANGED <<store, told>> /\ list' = found /\ Goto("select")
             /\ UNCHANGED <<method, session, country, selected, sound, config, answer>>
    <2>1. StoreInv'
      BY <1>5, StoreStays DEF IInv
    <2>2. at' = "select" /\ reply' = NoReply /\ ~Built /\ session.settings = told
        /\ answer = "none"
      BY <1>1, <1>5 DEF IInv, PlaceInv, Answered, Goto, Using
    <2>3. WordInv' /\ PlaceInv' /\ FollowsSettings' /\ answer' # "dns_invalid"
      BY <1>1, <1>5, <2>2 DEF IInv, NoReply, WordInv, PlaceInv, FollowsSettings, Built
    <2> QED BY <2>1, <2>3 DEF IInv
  <1> QED BY <1>2, <1>3, <1>4, <1>5

LEMMA ChosenStep == ASSUME IInv, at = "select", NEW s, Chosen(s) PROVE IInv'
  <1>1. StoreInv'
    BY StoreStays DEF IInv, Chosen
  <1>2. /\ at' \in {"profile", "build"} /\ reply' = NoReply /\ ~Built
        /\ session'.settings = told' /\ answer = "none"
        /\ at' = "profile" => session'.settings.technology = "openvpn"
    BY DEF IInv, PlaceInv, Chosen, Goto, Using
  <1>3. WordInv' /\ PlaceInv' /\ FollowsSettings' /\ answer' # "dns_invalid"
    BY <1>2 DEF IInv, Chosen, NoReply, WordInv, PlaceInv, FollowsSettings, Built
  <1> QED BY <1>1, <1>3 DEF IInv

LEMMA SelectStep == ASSUME IInv, NEW id, Select(id) PROVE IInv'
  <1>1. at = "select" /\ ((\E s : Chosen(s)) \/ OperationFails("select", "server_unavailable"))
    BY DEF Select
  <1> QED BY <1>1, ChosenStep, FailureKeeps

LEMMA ProfileFailsStep == ASSUME IInv, ProfileFails PROVE IInv'
  BY FailureKeeps DEF ProfileFails

\* The name servers of usable settings go into the configuration as they are.
LEMMA NormalAsSaved ==
  ASSUME IInv, at \in Using
  PROVE  DnsReady /\ NormalDns = told.dns
  <1>1. session.settings = told /\ told.dns \in Seq(NameServers)
        /\ \A i \in DOMAIN told.dns : IsAddress(told.dns[i]) /\ Normalized(told.dns[i]) = told.dns[i]
    BY DEF IInv, PlaceInv, StoreInv, Usable, SettingsType
  <1>2. told.dns = [i \in DOMAIN told.dns |-> told.dns[i]]
    BY <1>1, LenProperties
  <1>3. [i \in DOMAIN told.dns |-> Normalized(told.dns[i])] = [i \in DOMAIN told.dns |-> told.dns[i]]
    BY <1>1
  <1> QED BY <1>1, <1>2, <1>3 DEF DnsReady, NormalDns

\* A configuration built of the settings in force is the whole result.
LEMMA BuiltKeeps ==
  ASSUME IInv, NEW c, c # NoConfig, c.sound = TRUE, FinishWith("ok", c),
         UNCHANGED <<store, told, cache>>,
         /\ c.technology = told.technology /\ c.dns = told.dns
         /\ c.technology = "openvpn" => c.protocol = told.protocol /\ NordHost(c.server)
         /\ c.technology = "nordlynx" => c.strict = told.killSwitch /\ c.server.key = "valid"
  PROVE  IInv'
  <1>1. StoreInv'
    BY StoreStays DEF IInv
  <1>2. /\ at' = "idle" /\ reply' = NoReply /\ sound' = TRUE /\ list' = NoList
        /\ config' = c /\ answer' = "ok"
    BY DEF FinishWith
  <1>3. WordInv' /\ PlaceInv' /\ answer' # "dns_invalid"
    BY <1>2 DEF IInv, NoReply, NoList, WordInv, PlaceInv, Using
  <1>4. FollowsSettings'
    BY <1>2 DEF FollowsSettings, NordHost
  <1> QED BY <1>1, <1>3, <1>4 DEF IInv

LEMMA BuildWireGuardStep == ASSUME IInv, BuildWireGuard PROVE IInv'
  <1> DEFINE c == [technology |-> "nordlynx", server |-> selected, dns |-> NormalDns,
                   key |-> session.key, strict |-> session.settings.killSwitch,
                   sound |-> sound /\ list.sound /\ store.sound]
  <1>1. DnsReady /\ NormalDns = told.dns /\ session.settings = told
        /\ sound = TRUE /\ list.sound = TRUE /\ store.sound = TRUE
    <2>1. at \in Using
      BY DEF BuildWireGuard, Using
    <2>2. session.settings = told /\ sound = TRUE /\ list.sound = TRUE
      BY <2>1 DEF IInv, PlaceInv, WordInv
    <2>3. store.sound = TRUE
      BY DEF IInv, StoreInv
    <2> QED BY <2>1, <2>2, <2>3, NormalAsSaved
  <1>2. CASE WireGuardReady /\ FinishWith("ok", c) /\ UNCHANGED <<store, told, cache>>
    <2>1. /\ c.technology = told.technology /\ c.dns = told.dns
          /\ c.technology = "nordlynx" /\ c.strict = told.killSwitch /\ c.server.key = "valid"
      BY <1>1, <1>2 DEF BuildWireGuard, WireGuardReady
    <2>2. c.sound = TRUE /\ c # NoConfig
      BY <1>1 DEF NoConfig
    <2> HIDE DEF c
    <2> QED BY <1>2, <2>1, <2>2, BuiltKeeps
  <1>3. CASE OperationFails("build", IF WireGuardReady THEN "dns_invalid" ELSE "connection_failed")
             /\ ~WireGuardReady
    BY <1>3, FailureKeeps
  <1> QED BY <1>1, <1>2, <1>3 DEF BuildWireGuard

LEMMA BuildOpenVpnStep == ASSUME IInv, NEW profile, BuildOpenVpn(profile) PROVE IInv'
  <1> DEFINE c == [technology |-> "openvpn", server |-> selected, dns |-> NormalDns,
                   protocol |-> Protocol, profile |-> profile, lines |-> Output(profile),
                   sound |-> SoundSoFar /\ list.sound /\ store.sound]
  <1>1. DnsReady /\ NormalDns = told.dns /\ session.settings = told
        /\ SoundSoFar = TRUE /\ list.sound = TRUE /\ store.sound = TRUE
    <2>1. at \in Using
      BY DEF BuildOpenVpn, Answered, Using
    <2>2. session.settings = told /\ list.sound = TRUE
      BY <2>1 DEF IInv, PlaceInv, WordInv
    <2>3. store.sound = TRUE
      BY DEF IInv, StoreInv
    <2>4. SoundSoFar = TRUE
      BY AnswerIsSound DEF BuildOpenVpn
    <2> QED BY <2>1, <2>2, <2>3, <2>4, NormalAsSaved
  <1>2. told.technology = "openvpn" /\ NordHost(selected)
    BY <1>1 DEF IInv, BuildOpenVpn, Answered, PlaceInv
  <1>3. CASE FinishWith("ok", c) /\ UNCHANGED <<store, told, cache>>
    <2>1. /\ c.technology = told.technology /\ c.dns = told.dns /\ c.technology = "openvpn"
          /\ c.protocol = told.protocol /\ NordHost(c.server)
      BY <1>1, <1>2 DEF Protocol
    <2>2. c.sound = TRUE /\ c # NoConfig
      BY <1>1 DEF NoConfig
    <2> HIDE DEF c
    <2> QED BY <1>3, <2>1, <2>2, BuiltKeeps
  <1>4. CASE OperationFails("profile", IF selected.station # "address" \/ DnsReady
                                       THEN "connection_failed" ELSE "dns_invalid")
    <2>1. OperationFails("profile", "connection_failed")
      BY <1>1, <1>4
    <2> QED BY <2>1, FailureKeeps
  <1> QED BY <1>3, <1>4 DEF BuildOpenVpn

LEMMA StepHolds == IInv /\ [Next]_vars => IInv'
  <1> SUFFICES ASSUME IInv, [Next]_vars PROVE IInv'
    OBVIOUS
  <1>1. CASE Next
    BY <1>1, LoginStep, ExchangeStep, LoginFailsStep, CredentialsReplyStep, UserReplyStep,
       LogoutStep, SaveSettingsStep, ServersStep, ConnectStep, DiscoveryFailsStep,
       CatalogReplyStep, CountryReplyStep, RecommendReplyStep, SelectStep, ProfileFailsStep,
       BuildWireGuardStep, BuildOpenVpnStep
    DEF Next
  <1>2. CASE UNCHANGED vars
    BY <1>2 DEF vars, local, IInv, StoreInv, WordInv, PlaceInv, FollowsSettings, Built, NordHost
  <1> QED BY <1>1, <1>2

LEMMA Always == Spec => []IInv
  BY InitHolds, StepHolds, PTL DEF Spec

-----------------------------------------------------------------------------
(* Theorems *)

\* A configuration is built of nothing but replies Nord signed, whole and in time:
\* the server list it rests on may be cached, but only a list of which that held.
THEOREM OnlyNordsWord == Spec => []RestsOnNordsWord
  <1>1. IInv => RestsOnNordsWord
    BY DEF IInv, WordInv, RestsOnNordsWord
  <1> QED BY <1>1, Always, PTL

\* Whatever JSON a client saves, the session file reads back as the settings the user
\* was told of, and no name server saved is one the configuration builders refuse.
THEOREM SettingsReadBack == Spec => []SettingsSurvive
  <1>1. IInv => SettingsSurvive
    BY ReadsAsTold DEF IInv, SettingsSurvive
  <1> QED BY <1>1, Always, PTL

\* The configuration is of the settings in force, for every server list that is cached
\* or answered: its technology, protocol, kill switch and name servers, and a server
\* the engine can reach.
THEOREM ConfigurationFollows == Spec => []FollowsSettings
  <1>1. IInv => FollowsSettings
    BY DEF IInv
  <1> QED BY <1>1, Always, PTL

\* The user is told that the token is invalid only for one that has not the form of
\* a token, of which Nord is asked nothing, and after a refusal signed by Nord.
THEOREM InvalidTokenIsNords == Spec => RejectionIsNords
  <1> DEFINE Malformed == \E token \in Tokens : ~WellFormed(token) /\ Login(token)
             Step == answer' = "invalid_token"
                       => IF at = "idle" THEN Malformed
                          ELSE at \in {"credentials", "user"} /\ reply.truth = "refusal"
  <1>1. IInv /\ [Next]_vars => [Step]_vars
    <2> SUFFICES ASSUME IInv, Next, answer' = "invalid_token"
                 PROVE  IF at = "idle" THEN Malformed
                        ELSE at \in {"credentials", "user"} /\ reply.truth = "refusal"
      OBVIOUS
    <2>1. at # "idle" => answer = "none"
      BY DEF IInv, PlaceInv
    <2>2. Malformed \/ LoginFails
      BY <2>1 DEF Next, Login, Begin, Exchange, Asks, CredentialsReply, UserReply, Logout,
         SaveSettings, Servers, Connect, DiscoveryFails, DiscoveryCode, OperationFails,
         CatalogReply, CountryReply, RecommendReply, Select, Chosen, ProfileFails,
         BuildWireGuard, BuildOpenVpn, Answered, Refused, Finish, FinishWith
    <2>3. Malformed => at = "idle"
      BY DEF Login
    <2>4. CASE LoginFails
      <3>1. answer' = LoginErrorCode(reply.error) /\ at \in {"credentials", "user"}
        BY <2>4 DEF LoginFails, Answered, Refused, Finish, FinishWith
      <3>2. reply.error = "token_rejected"
        BY <3>1 DEF LoginErrorCode
      <3> QED BY <3>1, <3>2 DEF IInv, WordInv
    <2> QED BY <2>2, <2>3, <2>4
  <1> QED BY <1>1, Always, PTL DEF Spec, RejectionIsNords

-----------------------------------------------------------------------------
(* The profile: what a recursion over the lines of any profile computes.  The
   library's induction theorems are about a predicate, which the provers cannot
   instantiate; the induction here is about a set, and rests on the well-founded
   order of the natural numbers. *)

\* Induction, of a set instead of a predicate
LEMMA NaturalsFrom0 ==
  ASSUME NEW S, 0 \in S, \A n \in Nat : n \in S => n + 1 \in S
  PROVE  \A n \in Nat : n \in S
  <1> DEFINE T == Nat \ S
  <1> SUFFICES ASSUME T # {} PROVE FALSE
    OBVIOUS
  <1>1. PICK x \in T : \A y \in T : ~(<<y, x>> \in OpToRel(<, Nat))
    BY NatLessThanWellFounded, WFMin
  <1>2. x \in Nat /\ x # 0 /\ x - 1 \in Nat /\ x - 1 < x /\ (x - 1) + 1 = x
    OBVIOUS
  <1>3. x - 1 \notin S
    BY <1>2
  <1>4. <<x - 1, x>> \in OpToRel(<, Nat)
    BY <1>2 DEF OpToRel
  <1> QED BY <1>1, <1>2, <1>3, <1>4

\* Induction over sequences, as well
LEMMA SequencesFromEmpty ==
  ASSUME NEW X, NEW S, <<>> \in S,
         \A s \in Seq(X), e \in X : s \in S => Append(s, e) \in S
  PROVE  \A s \in Seq(X) : s \in S
  <1> DEFINE N == {n \in Nat : \A s \in Seq(X) : Len(s) = n => s \in S}
  <1>1. 0 \in N
    BY EmptySeq
  <1>2. ASSUME NEW n \in Nat, n \in N PROVE n + 1 \in N
    <2> SUFFICES ASSUME NEW s \in Seq(X), Len(s) = n + 1 PROVE s \in S
      OBVIOUS
    <2>1. s # <<>>
      BY EmptySeq
    <2>2. PICK t \in Seq(X), e \in X : s = Append(t, e)
      BY <2>1, SequenceEmptyOrAppend
    <2>3. Len(t) = n
      BY <2>2, AppendProperties, LenProperties
    <2> QED BY <1>2, <2>2, <2>3
  <1> HIDE DEF N
  <1>3. \A n \in Nat : n \in N
    BY <1>1, <1>2, NaturalsFrom0
  <1> QED BY <1>3, LenProperties DEF N

\* g is a recursion over 0..m that starts with x and goes on with F.
Solves(g, m, x, F) == g[0] = x /\ \A n \in 1..m : g[n] = F[n][g[n - 1]]

\* A recursion with values in X has a solution.
LEMMA RecursionExists ==
  ASSUME NEW m \in Nat, NEW X, NEW x0 \in X, NEW F \in [1..m -> [X -> X]]
  PROVE  \E g \in [0..m -> X] : Solves(g, m, x0, F)
  <1> USE DEF Solves
  <1> DEFINE S == {k \in Nat : k <= m => \E g \in [0..k -> X] : Solves(g, k, x0, F)}
  <1>1. 0 \in S
    <2> DEFINE g == [n \in 0..0 |-> x0]
    <2>1. g \in [0..0 -> X] /\ Solves(g, 0, x0, F)
      OBVIOUS
    <2> QED BY <2>1
  <1>2. ASSUME NEW k \in Nat, k \in S PROVE k + 1 \in S
    <2> SUFFICES ASSUME k + 1 <= m PROVE \E g \in [0..k + 1 -> X] : Solves(g, k + 1, x0, F)
      OBVIOUS
    <2>1. PICK g \in [0..k -> X] : Solves(g, k, x0, F)
      BY <1>2
    <2> DEFINE h == [n \in 0..k + 1 |-> IF n = k + 1 THEN F[k + 1][g[k]] ELSE g[n]]
    <2>2. g[k] \in X /\ F[k + 1] \in [X -> X]
      OBVIOUS
    <2>3. h \in [0..k + 1 -> X]
      BY <2>2
    <2>4. h[0] = x0
      BY <2>1
    <2>5. ASSUME NEW n \in 1..k + 1 PROVE h[n] = F[n][h[n - 1]]
      <3>1. CASE n = k + 1
        BY <3>1
      <3>2. CASE n # k + 1
        <4>1. n \in 1..k /\ h[n] = g[n] /\ h[n - 1] = g[n - 1]
          BY <3>2
        <4> QED BY <4>1, <2>1
      <3> QED BY <3>1, <3>2
    <2> QED BY <2>3, <2>4, <2>5
  <1> HIDE DEF S
  <1>3. m \in S
    BY <1>1, <1>2, NaturalsFrom0
  <1> QED BY <1>3 DEF S

\* Two solutions agree.
LEMMA RecursionUnique ==
  ASSUME NEW m \in Nat, NEW x, NEW F, NEW g, NEW h,
         Solves(g, m, x, F), Solves(h, m, x, F)
  PROVE  g[m] = h[m]
  <1> USE DEF Solves
  <1> DEFINE S == {k \in Nat : k <= m => g[k] = h[k]}
  <1>1. 0 \in S
    OBVIOUS
  <1>2. ASSUME NEW k \in Nat, k \in S PROVE k + 1 \in S
    <2> SUFFICES ASSUME k + 1 <= m PROVE g[k + 1] = h[k + 1]
      OBVIOUS
    <2>1. g[k] = h[k] /\ k + 1 \in 1..m /\ (k + 1) - 1 = k
      BY <1>2
    <2> QED BY <2>1
  <1> HIDE DEF S
  <1>3. m \in S
    BY <1>1, <1>2, NaturalsFrom0
  <1> QED BY <1>3 DEF S

-----------------------------------------------------------------------------
\* The provers do not know a literal for a member of STRING.
Names == STRING \cup {NoBlock, "none"}

Texts ==
    [is : {"open", "close", "word", "comment", "none"}, name : Names,
     form : {"exact", "cased", "plain", "dashed", "quoted", "own", "none"}]
Items ==
    [is : {"open", "close", "word", "comment", "none", "block"}, name : Names,
     form : {"exact", "cased", "plain", "dashed", "quoted", "own", "none"}, text : Seq(Texts)]

FilterStates ==
    [output : Seq(ProfileLines), inline : Names, skipped : Names, refused : BOOLEAN]
ReaderStates == [items : Seq(Items), tag : Texts, text : Seq(Texts)]

LEMMA LinesAreTexts == ProfileLines \subseteq Texts
  BY DEF ProfileLines, Texts, Names

LEMMA KeepTyped ==
  ASSUME NEW r \in FilterStates, NEW l \in ProfileLines
  PROVE  /\ Keep(r, l) \in FilterStates
         /\ Keep(r, l).output = Append(r.output, l) /\ Keep(r, l).inline = r.inline
         /\ Keep(r, l).skipped = r.skipped /\ Keep(r, l).refused = r.refused
  <1>1. r.output \in Seq(ProfileLines) /\ Append(r.output, l) \in Seq(ProfileLines)
    BY AppendProperties DEF FilterStates
  <1> DEFINE out == Append(r.output, l)
             kept == [r EXCEPT !.output = out]
  <1>2. out \in Seq(ProfileLines)
    BY <1>1
  <1> HIDE DEF out
  <1>3. kept \in FilterStates
    BY <1>2, Zenon DEF FilterStates
  <1>4. kept.output = out /\ kept.inline = r.inline
    BY <1>2, Zenon DEF FilterStates
  <1>5. kept.skipped = r.skipped /\ kept.refused = r.refused
    BY <1>2, Zenon DEF FilterStates
  <1> QED BY <1>3, <1>4, <1>5 DEF Keep, out

LEMMA FilterChanges ==
  ASSUME NEW r \in FilterStates, NEW name \in Names
  PROVE  /\ LET c == [r EXCEPT !.inline = name]
            IN  /\ c \in FilterStates /\ c.inline = name /\ c.output = r.output
                /\ c.skipped = r.skipped /\ c.refused = r.refused
         /\ LET c == [r EXCEPT !.skipped = name]
            IN  /\ c \in FilterStates /\ c.skipped = name /\ c.output = r.output
                /\ c.inline = r.inline /\ c.refused = r.refused
         /\ LET c == [r EXCEPT !.refused = TRUE]
            IN  c \in FilterStates /\ c.refused = TRUE
  BY DEF FilterStates

LEMMA ReaderChanges ==
  ASSUME NEW r \in ReaderStates, NEW l \in Texts
  PROVE  /\ LET c == [r EXCEPT !.text = Append(@, l)]
            IN  c \in ReaderStates /\ c.items = r.items /\ c.tag = r.tag
                /\ c.text = Append(r.text, l)
         /\ LET c == [r EXCEPT !.tag = l]
            IN  c \in ReaderStates /\ c.items = r.items /\ c.tag = l /\ c.text = r.text
         /\ LET c == [r EXCEPT !.items = Append(@, Item(l.is, l.name, l.form, <<>>))]
            IN  /\ c \in ReaderStates /\ c.items = Append(r.items, Item(l.is, l.name, l.form, <<>>))
                /\ c.tag = r.tag /\ c.text = r.text
  <1> DEFINE item == Item(l.is, l.name, l.form, <<>>)
  <1>1. item \in Items
    BY DEF Item, Items, Texts
  <1> HIDE DEF item
  <1>2. Append(r.text, l) \in Seq(Texts) /\ Append(r.items, item) \in Seq(Items)
    BY <1>1, AppendProperties DEF ReaderStates
  <1> QED BY <1>2 DEF ReaderStates, item

LEMMA ReadLineTyped ==
  ASSUME NEW r \in FilterStates, NEW l \in ProfileLines
  PROVE  ReadLine(r, l) \in FilterStates
  <1>1. SkipLine(r, l) \in FilterStates
    BY FilterChanges DEF SkipLine, Names
  <1>2. InlineLine(r, l) \in FilterStates
    BY KeepTyped, FilterChanges DEF InlineLine, Names
  <1>3. l.name \in Names /\ l.is \in {"open", "close", "word", "comment"}
    BY DEF ProfileLines, Names
  <1>4. OuterLine(r, l) \in FilterStates
    BY <1>3, KeepTyped, FilterChanges DEF OuterLine
  <1> QED BY <1>1, <1>2, <1>4 DEF ReadLine

LEMMA OpenVpnLineTyped ==
  ASSUME NEW r \in ReaderStates, NEW l \in Texts
  PROVE  OpenVpnLine(r, l) \in ReaderStates
  <1> DEFINE block == Item("block", l.name, l.form, r.text)
  <1>1. block \in Items
    BY DEF Item, Items, Texts, ReaderStates
  <1>2. Append(r.items, block) \in Seq(Items)
    BY <1>1, AppendProperties DEF ReaderStates
  <1>3. [items |-> Append(r.items, block), tag |-> NoTag, text |-> <<>>] \in ReaderStates
    BY <1>2 DEF ReaderStates, NoTag, Line, Texts, Names
  <1> HIDE DEF block
  <1> QED BY <1>3, ReaderChanges DEF OpenVpnLine, block

LEMMA StartsTyped == Start \in FilterStates /\ Unread \in ReaderStates
  BY DEF Start, FilterStates, Unread, NoTag, Line, Texts, Names, ReaderStates

LEMMA ReadingSolves ==
  ASSUME NEW s \in Seq(ProfileLines)
  PROVE  /\ Reading(s) \in [0..Len(s) -> FilterStates]
         /\ Reading(s)[0] = Start
         /\ \A n \in 1..Len(s) : Reading(s)[n] = ReadLine(Reading(s)[n - 1], s[n])
  <1> DEFINE m == Len(s)
             F == [n \in 1..m |-> [r \in FilterStates |-> ReadLine(r, s[n])]]
  <1>1. m \in Nat /\ \A n \in 1..m : s[n] \in ProfileLines
    BY LenProperties, ElementOfSeq
  <1>2. F \in [1..m -> [FilterStates -> FilterStates]]
    BY <1>1, ReadLineTyped
  <1>3. PICK g \in [0..m -> FilterStates] : Solves(g, m, Start, F)
    <2> HIDE DEF m, F
    <2>1. m \in Nat /\ Start \in FilterStates /\ Unread \in ReaderStates
      BY <1>1, StartsTyped
    <2> QED BY <1>2, <2>1, RecursionExists
  <1>4. \A n \in 1..m : g[n - 1] \in FilterStates
    BY <1>1
  <1>5. \A n \in 1..m : g[n] = ReadLine(g[n - 1], s[n])
    BY <1>3, <1>4 DEF Solves
  <1>6. g = [n \in 0..m |-> IF n = 0 THEN Start ELSE ReadLine(g[n - 1], s[n])]
    BY <1>1, <1>3, <1>5 DEF Solves
  <1> DEFINE R == Reading(s)
  <1>7. R = [n \in 0..m |-> IF n = 0 THEN Start ELSE ReadLine(R[n - 1], s[n])]
    BY <1>6, Zenon DEF Reading
  <1> HIDE DEF R, F
  <1>8. R[0] = Start /\ \A n \in 1..m : R[n] = ReadLine(R[n - 1], s[n])
    BY <1>1, <1>7
  <1> DEFINE S == {k \in Nat : k <= m => R[k] \in FilterStates}
  <1>9. 0 \in S
    BY <1>8, StartsTyped
  <1>10. ASSUME NEW k \in Nat, k \in S PROVE k + 1 \in S
    <2> SUFFICES ASSUME k + 1 <= m PROVE R[k + 1] \in FilterStates
      OBVIOUS
    <2>1. R[k] \in FilterStates /\ k + 1 \in 1..m /\ (k + 1) - 1 = k
      BY <1>1, <1>10
    <2>2. R[k + 1] = ReadLine(R[k], s[k + 1]) /\ s[k + 1] \in ProfileLines
      BY <1>1, <1>8, <2>1
    <2> QED BY <2>1, <2>2, ReadLineTyped
  <1> HIDE DEF S
  <1>11. \A k \in Nat : k \in S
    BY <1>9, <1>10, NaturalsFrom0
  <1>12. R \in [0..m -> FilterStates]
    BY <1>1, <1>7, <1>11 DEF S
  <1> QED BY <1>8, <1>12 DEF R

LEMMA ReadProfileTyped ==
  ASSUME NEW s \in Seq(ProfileLines)
  PROVE  ReadProfile(s) \in FilterStates
  BY ReadingSolves, LenProperties DEF ReadProfile

LEMMA ReadProfileEmpty == ReadProfile(<<>>) = Start
  BY ReadingSolves, EmptySeq DEF ReadProfile

LEMMA ReadProfileAppend ==
  ASSUME NEW s \in Seq(ProfileLines), NEW l \in ProfileLines
  PROVE  ReadProfile(Append(s, l)) = ReadLine(ReadProfile(s), l)
  <1> DEFINE t == Append(s, l)
             m == Len(s)
             A == Reading(s)
             B == Reading(t)
             F == [n \in 1..m |-> [r \in FilterStates |-> ReadLine(r, s[n])]]
  <1>1. /\ m \in Nat /\ t \in Seq(ProfileLines) /\ Len(t) = m + 1 /\ t[m + 1] = l
        /\ \A n \in 1..m : t[n] = s[n]
    BY LenProperties, AppendProperties
  <1>2. /\ A \in [0..m -> FilterStates] /\ A[0] = Start
        /\ \A n \in 1..m : A[n] = ReadLine(A[n - 1], s[n])
    BY ReadingSolves
  <1>3. /\ B \in [0..m + 1 -> FilterStates] /\ B[0] = Start
        /\ \A n \in 1..m + 1 : B[n] = ReadLine(B[n - 1], t[n])
    BY <1>1, ReadingSolves
  <1> HIDE DEF t, A, B
  <1>4. ASSUME NEW n \in 1..m
        PROVE  A[n - 1] \in FilterStates /\ B[n - 1] \in FilterStates /\ B[n] = ReadLine(B[n - 1], s[n])
    <2>1. n - 1 \in 0..m /\ n - 1 \in 0..m + 1 /\ n \in 1..m + 1 /\ t[n] = s[n]
      BY <1>1
    <2> QED BY <1>2, <1>3, <2>1
  <1>5. Solves(A, m, Start, F) /\ Solves(B, m, Start, F)
    BY <1>2, <1>3, <1>4 DEF Solves
  <1>6. A[m] = B[m]
    <2> HIDE DEF F, m
    <2>1. m \in Nat
      BY <1>1
    <2> QED BY <1>5, <2>1, RecursionUnique
  <1>7. B[m + 1] = ReadLine(B[m], l)
    BY <1>1, <1>3
  <1> QED BY <1>1, <1>6, <1>7 DEF ReadProfile, t, A, B


LEMMA OpenVpnReadingSolves ==
  ASSUME NEW s \in Seq(Texts)
  PROVE  /\ OpenVpnReading(s) \in [0..Len(s) -> ReaderStates]
         /\ OpenVpnReading(s)[0] = Unread
         /\ \A n \in 1..Len(s) : OpenVpnReading(s)[n] = OpenVpnLine(OpenVpnReading(s)[n - 1], s[n])
  <1> DEFINE m == Len(s)
             F == [n \in 1..m |-> [r \in ReaderStates |-> OpenVpnLine(r, s[n])]]
  <1>1. m \in Nat /\ \A n \in 1..m : s[n] \in Texts
    BY LenProperties, ElementOfSeq
  <1>2. F \in [1..m -> [ReaderStates -> ReaderStates]]
    BY <1>1, OpenVpnLineTyped
  <1>3. PICK g \in [0..m -> ReaderStates] : Solves(g, m, Unread, F)
    <2> HIDE DEF m, F
    <2>1. m \in Nat /\ Start \in FilterStates /\ Unread \in ReaderStates
      BY <1>1, StartsTyped
    <2> QED BY <1>2, <2>1, RecursionExists
  <1>4. \A n \in 1..m : g[n - 1] \in ReaderStates
    BY <1>1
  <1>5. \A n \in 1..m : g[n] = OpenVpnLine(g[n - 1], s[n])
    BY <1>3, <1>4 DEF Solves
  <1>6. g = [n \in 0..m |-> IF n = 0 THEN Unread ELSE OpenVpnLine(g[n - 1], s[n])]
    BY <1>1, <1>3, <1>5 DEF Solves
  <1> DEFINE R == OpenVpnReading(s)
  <1>7. R = [n \in 0..m |-> IF n = 0 THEN Unread ELSE OpenVpnLine(R[n - 1], s[n])]
    BY <1>6, Zenon DEF OpenVpnReading
  <1> HIDE DEF R, F
  <1>8. R[0] = Unread /\ \A n \in 1..m : R[n] = OpenVpnLine(R[n - 1], s[n])
    BY <1>1, <1>7
  <1> DEFINE S == {k \in Nat : k <= m => R[k] \in ReaderStates}
  <1>9. 0 \in S
    BY <1>8, StartsTyped
  <1>10. ASSUME NEW k \in Nat, k \in S PROVE k + 1 \in S
    <2> SUFFICES ASSUME k + 1 <= m PROVE R[k + 1] \in ReaderStates
      OBVIOUS
    <2>1. R[k] \in ReaderStates /\ k + 1 \in 1..m /\ (k + 1) - 1 = k
      BY <1>1, <1>10
    <2>2. R[k + 1] = OpenVpnLine(R[k], s[k + 1]) /\ s[k + 1] \in Texts
      BY <1>1, <1>8, <2>1
    <2> QED BY <2>1, <2>2, OpenVpnLineTyped
  <1> HIDE DEF S
  <1>11. \A k \in Nat : k \in S
    BY <1>9, <1>10, NaturalsFrom0
  <1>12. R \in [0..m -> ReaderStates]
    BY <1>1, <1>7, <1>11 DEF S
  <1> QED BY <1>8, <1>12 DEF R

LEMMA OpenVpnReadsTyped ==
  ASSUME NEW s \in Seq(Texts)
  PROVE  OpenVpnReads(s) \in ReaderStates
  BY OpenVpnReadingSolves, LenProperties DEF OpenVpnReads

LEMMA OpenVpnReadsEmpty == OpenVpnReads(<<>>) = Unread
  BY OpenVpnReadingSolves, EmptySeq DEF OpenVpnReads

LEMMA OpenVpnReadsAppend ==
  ASSUME NEW s \in Seq(Texts), NEW l \in Texts
  PROVE  OpenVpnReads(Append(s, l)) = OpenVpnLine(OpenVpnReads(s), l)
  <1> DEFINE t == Append(s, l)
             m == Len(s)
             A == OpenVpnReading(s)
             B == OpenVpnReading(t)
             F == [n \in 1..m |-> [r \in ReaderStates |-> OpenVpnLine(r, s[n])]]
  <1>1. /\ m \in Nat /\ t \in Seq(Texts) /\ Len(t) = m + 1 /\ t[m + 1] = l
        /\ \A n \in 1..m : t[n] = s[n]
    BY LenProperties, AppendProperties
  <1>2. /\ A \in [0..m -> ReaderStates] /\ A[0] = Unread
        /\ \A n \in 1..m : A[n] = OpenVpnLine(A[n - 1], s[n])
    BY OpenVpnReadingSolves
  <1>3. /\ B \in [0..m + 1 -> ReaderStates] /\ B[0] = Unread
        /\ \A n \in 1..m + 1 : B[n] = OpenVpnLine(B[n - 1], t[n])
    BY <1>1, OpenVpnReadingSolves
  <1> HIDE DEF t, A, B
  <1>4. ASSUME NEW n \in 1..m
        PROVE  A[n - 1] \in ReaderStates /\ B[n - 1] \in ReaderStates /\ B[n] = OpenVpnLine(B[n - 1], s[n])
    <2>1. n - 1 \in 0..m /\ n - 1 \in 0..m + 1 /\ n \in 1..m + 1 /\ t[n] = s[n]
      BY <1>1
    <2> QED BY <1>2, <1>3, <2>1
  <1>5. Solves(A, m, Unread, F) /\ Solves(B, m, Unread, F)
    BY <1>2, <1>3, <1>4 DEF Solves
  <1>6. A[m] = B[m]
    <2> HIDE DEF F, m
    <2>1. m \in Nat
      BY <1>1
    <2> QED BY <1>5, <2>1, RecursionUnique
  <1>7. B[m + 1] = OpenVpnLine(B[m], l)
    BY <1>1, <1>3
  <1> QED BY <1>1, <1>6, <1>7 DEF OpenVpnReads, t, A, B

LEMMA SelectingSolves ==
  ASSUME NEW X, NEW s \in Seq(X), NEW K
  PROVE  /\ Selecting(s, K) \in [0..Len(s) -> Seq(X)]
         /\ Selecting(s, K)[0] = <<>>
         /\ \A n \in 1..Len(s) :
               Selecting(s, K)[n] = IF n \in K THEN Append(Selecting(s, K)[n - 1], s[n])
                                    ELSE Selecting(s, K)[n - 1]
  <1> DEFINE m == Len(s)
             Step(r, n) == IF n \in K THEN Append(r, s[n]) ELSE r
             F == [n \in 1..m |-> [r \in Seq(X) |-> Step(r, n)]]
  <1>1. m \in Nat /\ \A n \in 1..m : s[n] \in X
    BY LenProperties, ElementOfSeq
  <1>2. \A r \in Seq(X), n \in 1..m : Step(r, n) \in Seq(X)
    BY <1>1, AppendProperties
  <1>3. F \in [1..m -> [Seq(X) -> Seq(X)]]
    <2> HIDE DEF Step
    <2> QED BY <1>2
  <1>4. PICK g \in [0..m -> Seq(X)] : Solves(g, m, <<>>, F)
    <2> HIDE DEF m, F
    <2>1. m \in Nat /\ <<>> \in Seq(X)
      BY <1>1
    <2> QED BY <1>3, <2>1, RecursionExists
  <1>5. g = [n \in 0..m |-> IF n = 0 THEN <<>> ELSE Step(g[n - 1], n)]
    <2> HIDE DEF Step
    <2>1. \A n \in 1..m : g[n - 1] \in Seq(X)
      BY <1>1
    <2>2. g[0] = <<>> /\ \A n \in 1..m : g[n] = Step(g[n - 1], n)
      BY <1>4, <2>1 DEF Solves
    <2> QED BY <1>1, <2>2
  <1> DEFINE R == Selecting(s, K)
  <1>6. R = [n \in 0..m |-> IF n = 0 THEN <<>> ELSE Step(R[n - 1], n)]
    BY <1>5, Zenon DEF Selecting
  <1> HIDE DEF R, F, Step
  <1>7. R[0] = <<>> /\ \A n \in 1..m : R[n] = Step(R[n - 1], n)
    BY <1>1, <1>6
  <1> DEFINE S == {k \in Nat : k <= m => R[k] \in Seq(X)}
  <1>8. 0 \in S
    <2>1. <<>> \in Seq(X)
      OBVIOUS
    <2> QED BY <1>7, <2>1
  <1>9. ASSUME NEW k \in Nat, k \in S PROVE k + 1 \in S
    <2> SUFFICES ASSUME k + 1 <= m PROVE R[k + 1] \in Seq(X)
      OBVIOUS
    <2>1. R[k] \in Seq(X) /\ k + 1 \in 1..m /\ (k + 1) - 1 = k
      BY <1>1, <1>9
    <2>2. R[k + 1] = Step(R[k], k + 1)
      BY <1>7, <2>1
    <2> QED BY <1>2, <2>1, <2>2
  <1> HIDE DEF S
  <1>10. \A k \in Nat : k \in S
    BY <1>8, <1>9, NaturalsFrom0
  <1>11. R \in [0..m -> Seq(X)]
    BY <1>1, <1>6, <1>10 DEF S
  <1> QED BY <1>7, <1>11 DEF R, Step

LEMMA SelectedTyped ==
  ASSUME NEW X, NEW s \in Seq(X), NEW K
  PROVE  Selected(s, K) \in Seq(X)
  <1>1. Len(s) \in 0..Len(s)
    BY LenProperties
  <1> QED BY <1>1, SelectingSolves DEF Selected

LEMMA SelectedEmpty == ASSUME NEW K PROVE Selected(<<>>, K) = <<>>
  BY SelectingSolves, EmptySeq DEF Selected

\* One more element is selected or not.
LEMMA SelectedAppend ==
  ASSUME NEW X, NEW s \in Seq(X), NEW x \in X, NEW K, NEW J,
         \A i \in 1..Len(s) : i \in J <=> i \in K
  PROVE  Selected(Append(s, x), J)
           = IF Len(s) + 1 \in J THEN Append(Selected(s, K), x) ELSE Selected(s, K)
  <1> DEFINE t == Append(s, x)
             m == Len(s)
             A == Selecting(s, K)
             B == Selecting(t, J)
             F == [n \in 1..m |-> [r \in Seq(X) |-> IF n \in K THEN Append(r, s[n]) ELSE r]]
  <1>1. /\ m \in Nat /\ t \in Seq(X) /\ Len(t) = m + 1 /\ t[m + 1] = x
        /\ \A n \in 1..m : t[n] = s[n]
    BY LenProperties, AppendProperties
  <1>2. /\ A \in [0..m -> Seq(X)] /\ A[0] = <<>>
        /\ \A n \in 1..m : A[n] = IF n \in K THEN Append(A[n - 1], s[n]) ELSE A[n - 1]
    BY SelectingSolves
  <1>3. /\ B \in [0..m + 1 -> Seq(X)] /\ B[0] = <<>>
        /\ \A n \in 1..m + 1 : B[n] = IF n \in J THEN Append(B[n - 1], t[n]) ELSE B[n - 1]
    <2> HIDE DEF t
    <2>1. t \in Seq(X)
      BY <1>1
    <2>2. /\ B \in [0..Len(t) -> Seq(X)] /\ B[0] = <<>>
          /\ \A n \in 1..Len(t) : B[n] = IF n \in J THEN Append(B[n - 1], t[n]) ELSE B[n - 1]
      BY <2>1, SelectingSolves
    <2> QED BY <1>1, <2>2
  <1> HIDE DEF t, A, B
  <1>4. ASSUME NEW n \in 1..m
        PROVE  /\ A[n - 1] \in Seq(X) /\ B[n - 1] \in Seq(X)
               /\ B[n] = IF n \in K THEN Append(B[n - 1], s[n]) ELSE B[n - 1]
    <2>1. n - 1 \in 0..m /\ n - 1 \in 0..m + 1 /\ n \in 1..m + 1 /\ t[n] = s[n]
      BY <1>1
    <2>2. n \in J <=> n \in K
      OBVIOUS
    <2> QED BY <1>2, <1>3, <2>1, <2>2
  <1>5. Solves(A, m, <<>>, F) /\ Solves(B, m, <<>>, F)
    BY <1>2, <1>3, <1>4 DEF Solves
  <1>6. A[m] = B[m]
    <2> HIDE DEF F, m
    <2>1. m \in Nat
      BY <1>1
    <2> QED BY <1>5, <2>1, RecursionUnique
  <1>7. B[m + 1] = IF m + 1 \in J THEN Append(B[m], x) ELSE B[m]
    BY <1>1, <1>3
  <1> QED BY <1>1, <1>6, <1>7 DEF Selected, t, A, B

LEMMA StayingAppend ==
  ASSUME NEW s \in Seq(Items), NEW x \in Items
  PROVE  Staying(Append(s, x)) = IF Stays(x) THEN Append(Staying(s), x) ELSE Staying(s)
  <1> DEFINE t == Append(s, x)
             J == {i \in DOMAIN t : Stays(t[i])}
             K == {i \in DOMAIN s : Stays(s[i])}
  <1>1. /\ Len(s) \in Nat /\ DOMAIN s = 1..Len(s) /\ DOMAIN t = 1..Len(s) + 1
        /\ t[Len(s) + 1] = x /\ \A i \in 1..Len(s) : t[i] = s[i]
    BY LenProperties, AppendProperties
  <1> HIDE DEF t
  <1>2. \A i \in 1..Len(s) : i \in J <=> i \in K
    BY <1>1
  <1>3. Len(s) + 1 \in J <=> Stays(x)
    BY <1>1
  <1> HIDE DEF J, K
  <1>4. Selected(Append(s, x), J)
          = IF Len(s) + 1 \in J THEN Append(Selected(s, K), x) ELSE Selected(s, K)
    BY <1>2, SelectedAppend
  <1> QED BY <1>3, <1>4 DEF Staying, J, K, t

LEMMA TheProfilesAppend ==
  ASSUME NEW s \in Seq(Items), NEW x \in Items
  PROVE  TheProfiles(Append(s, x))
           = IF IsTheProfiles(x) THEN Append(TheProfiles(s), x) ELSE TheProfiles(s)
  <1> DEFINE t == Append(s, x)
             J == {i \in DOMAIN t : IsTheProfiles(t[i])}
             K == {i \in DOMAIN s : IsTheProfiles(s[i])}
  <1>1. /\ Len(s) \in Nat /\ DOMAIN s = 1..Len(s) /\ DOMAIN t = 1..Len(s) + 1
        /\ t[Len(s) + 1] = x /\ \A i \in 1..Len(s) : t[i] = s[i]
    BY LenProperties, AppendProperties
  <1> HIDE DEF t
  <1>2. \A i \in 1..Len(s) : i \in J <=> i \in K
    BY <1>1
  <1>3. Len(s) + 1 \in J <=> IsTheProfiles(x)
    BY <1>1
  <1> HIDE DEF J, K
  <1>4. Selected(Append(s, x), J)
          = IF Len(s) + 1 \in J THEN Append(Selected(s, K), x) ELSE Selected(s, K)
    BY <1>2, SelectedAppend
  <1> QED BY <1>3, <1>4 DEF TheProfiles, J, K, t

LEMMA NoItems == Staying(<<>>) = <<>> /\ TheProfiles(<<>>) = <<>>
  BY SelectedEmpty DEF Staying, TheProfiles

-----------------------------------------------------------------------------
(* The filter and OpenVPN's reader, line by line *)

\* What the filter (r), OpenVPN's reader of the profile (o) and its reader of the output so
\* far (q) have in common: all are outside of a block, or the filter drops the block the
\* reader of the profile is in, or all three are in the same block.
Agree(r, o, q) ==
    /\ q.items = Staying(o.items) /\ TheProfiles(q.items) = q.items
    /\ \/ /\ r.skipped = NoBlock /\ r.inline = NoBlock
          /\ o.tag = NoTag /\ q.tag = NoTag /\ o.text = <<>> /\ q.text = <<>>
       \/ /\ r.skipped # NoBlock /\ r.inline = NoBlock /\ r.skipped \notin Trust
          /\ o.tag = Line("open", r.skipped, "exact") /\ q.tag = NoTag /\ q.text = <<>>
       \/ /\ r.skipped = NoBlock /\ r.inline # NoBlock /\ r.inline \in Trust
          /\ o.tag = Line("open", r.inline, "exact") /\ q.tag = o.tag /\ q.text = o.text

LEMMA SkippingAgrees ==
  ASSUME NEW r \in FilterStates, NEW o \in ReaderStates, NEW q \in ReaderStates,
         NEW l \in ProfileLines, Agree(r, o, q), ~r.refused, r.skipped # NoBlock
  PROVE  ReadLine(r, l).output = r.output /\ Agree(ReadLine(r, l), OpenVpnLine(o, l), q)
  <1>1. ReadLine(r, l) = SkipLine(r, l) /\ NoBlock \in Names /\ l \in Texts
    BY LinesAreTexts DEF ReadLine, Names
  <1>2. /\ r.inline = NoBlock /\ r.skipped \notin Trust /\ o.tag # NoTag
        /\ o.tag.name = r.skipped /\ o.tag.form = "exact" /\ q.tag = NoTag /\ q.text = <<>>
        /\ o.tag = Line("open", r.skipped, "exact")
        /\ q.items = Staying(o.items) /\ TheProfiles(q.items) = q.items
    BY DEF Agree, Line, NoTag
  <1>3. CASE ClosesSkipped(l, r.skipped)
    <2> DEFINE item == Item("block", l.name, l.form, o.text)
    <2>1. SkipLine(r, l) = [r EXCEPT !.skipped = NoBlock]
      BY <1>3 DEF SkipLine
    <2>2. OpenVpnLine(o, l) = [items |-> Append(o.items, item), tag |-> NoTag, text |-> <<>>]
      BY <1>2, <1>3 DEF OpenVpnLine, ClosesSkipped
    <2>3. item \in Items /\ ~Stays(item) /\ o.items \in Seq(Items)
      BY <1>1, <1>2, <1>3 DEF Item, Items, Texts, ReaderStates, Stays, ClosesSkipped
    <2> HIDE DEF item
    <2>4. Staying(Append(o.items, item)) = Staying(o.items)
      BY <2>3, StayingAppend
    <2> QED BY <1>1, <1>2, <2>1, <2>2, <2>4, FilterChanges DEF Agree
  <1>4. CASE ~ClosesSkipped(l, r.skipped)
    <2>1. SkipLine(r, l) = r
      BY <1>4 DEF SkipLine
    <2>2. OpenVpnLine(o, l) = [o EXCEPT !.text = Append(@, l)]
      BY <1>2, <1>4 DEF OpenVpnLine, ClosesSkipped
    <2> QED BY <1>1, <1>2, <2>1, <2>2, ReaderChanges DEF Agree
  <1> QED BY <1>3, <1>4

LEMMA InlineAgrees ==
  ASSUME NEW r \in FilterStates, NEW o \in ReaderStates, NEW q \in ReaderStates,
         NEW l \in ProfileLines, l.form # "cased",
         Agree(r, o, q), ~r.refused, r.skipped = NoBlock, r.inline # NoBlock
  PROVE  /\ ReadLine(r, l).output = Append(r.output, l)
         /\ Agree(ReadLine(r, l), OpenVpnLine(o, l), OpenVpnLine(q, l))
  <1>1. ReadLine(r, l) = InlineLine(r, l) /\ NoBlock \in Names /\ l \in Texts
    BY LinesAreTexts DEF ReadLine, Names
  <1>2. /\ r.inline \in Trust /\ o.tag # NoTag /\ q.tag = o.tag /\ q.text = o.text
        /\ o.tag.name = r.inline /\ o.tag.form = "exact"
        /\ o.tag = Line("open", r.inline, "exact")
        /\ q.items = Staying(o.items) /\ TheProfiles(q.items) = q.items
    BY DEF Agree, Line, NoTag
  <1>3. l.is = "close" => l.form = "exact"
    BY DEF ProfileLines
  <1> DEFINE kept == Keep(r, l)
  <1>4. /\ kept \in FilterStates /\ kept.output = Append(r.output, l)
        /\ kept.inline = r.inline /\ kept.skipped = r.skipped
    BY KeepTyped
  <1>5. InlineLine(r, l)
          = IF ClosesInline(l, r.inline) THEN [kept EXCEPT !.inline = NoBlock] ELSE kept
    BY DEF InlineLine
  <1> HIDE DEF kept
  <1>6. CASE ClosesInline(l, r.inline)
    <2> DEFINE item == Item("block", l.name, l.form, o.text)
    <2>1. /\ OpenVpnLine(o, l) = [items |-> Append(o.items, item), tag |-> NoTag, text |-> <<>>]
          /\ OpenVpnLine(q, l) = [items |-> Append(q.items, item), tag |-> NoTag, text |-> <<>>]
      BY <1>2, <1>3, <1>6 DEF OpenVpnLine, ClosesInline
    <2>2. /\ item \in Items /\ Stays(item) /\ IsTheProfiles(item)
          /\ o.items \in Seq(Items) /\ q.items \in Seq(Items)
      BY <1>1, <1>2, <1>3, <1>6
      DEF Item, Items, Texts, ReaderStates, Stays, IsTheProfiles, ClosesInline
    <2> HIDE DEF item
    <2>3. /\ Staying(Append(o.items, item)) = Append(q.items, item)
          /\ TheProfiles(Append(q.items, item)) = Append(q.items, item)
      BY <1>2, <2>2, StayingAppend, TheProfilesAppend
    <2>4. LET c == [kept EXCEPT !.inline = NoBlock]
          IN  c.inline = NoBlock /\ c.output = kept.output /\ c.skipped = kept.skipped
      BY <1>1, <1>4, FilterChanges
    <2> QED BY <1>1, <1>4, <1>5, <1>6, <2>1, <2>3, <2>4 DEF Agree
  <1>7. CASE ~ClosesInline(l, r.inline)
    <2>1. /\ OpenVpnLine(o, l) = [o EXCEPT !.text = Append(@, l)]
          /\ OpenVpnLine(q, l) = [q EXCEPT !.text = Append(@, l)]
      BY <1>2, <1>7 DEF OpenVpnLine, ClosesInline
    <2> QED BY <1>1, <1>2, <1>4, <1>5, <1>7, <2>1, ReaderChanges DEF Agree
  <1> QED BY <1>6, <1>7

LEMMA OuterAgrees ==
  ASSUME NEW r \in FilterStates, NEW o \in ReaderStates, NEW q \in ReaderStates,
         NEW l \in ProfileLines, l.form # "cased",
         Agree(r, o, q), ~r.refused, r.skipped = NoBlock, r.inline = NoBlock,
         ~ReadLine(r, l).refused
  PROVE  \/ /\ ReadLine(r, l).output = r.output
            /\ Agree(ReadLine(r, l), OpenVpnLine(o, l), q)
         \/ /\ ReadLine(r, l).output = Append(r.output, l)
            /\ Agree(ReadLine(r, l), OpenVpnLine(o, l), OpenVpnLine(q, l))
  <1>1. ReadLine(r, l) = OuterLine(r, l) /\ l \in Texts /\ l.name \in Names
    BY LinesAreTexts DEF ReadLine, ProfileLines, Names
  <1>2. /\ o.tag = NoTag /\ q.tag = NoTag /\ o.text = <<>> /\ q.text = <<>>
        /\ q.items = Staying(o.items) /\ TheProfiles(q.items) = q.items
        /\ o.items \in Seq(Items) /\ q.items \in Seq(Items)
    BY DEF Agree, Line, NoTag, ReaderStates
  <1> DEFINE kept == Keep(r, l)
             item == Item(l.is, l.name, l.form, <<>>)
  <1>3. /\ kept \in FilterStates /\ kept.output = Append(r.output, l)
        /\ kept.inline = NoBlock /\ kept.skipped = NoBlock
    BY KeepTyped
  <1>4. CASE l.is = "open"
    <2>1. l = Line("open", l.name, "exact") /\ l.name # NoBlock
      BY <1>4 DEF ProfileLines, Line, NoBlock
    <2>2. /\ OpenVpnLine(o, l) = [o EXCEPT !.tag = l]
          /\ OpenVpnLine(q, l) = [q EXCEPT !.tag = l]
      BY <1>2, <1>4 DEF OpenVpnLine
    <2>3. CASE l.name \in Trust
      <3>1. ReadLine(r, l) = [kept EXCEPT !.inline = l.name]
        BY <1>1, <1>4, <2>3 DEF OuterLine
      <3> HIDE DEF kept
      <3>2. LET c == [kept EXCEPT !.inline = l.name]
            IN  c.inline = l.name /\ c.output = kept.output /\ c.skipped = kept.skipped
        BY <1>1, <1>3, FilterChanges
      <3> QED BY <1>1, <1>2, <1>3, <2>1, <2>2, <2>3, <3>1, <3>2, ReaderChanges DEF Agree
    <2>4. CASE l.name \notin Trust
      <3>1. ReadLine(r, l) = [r EXCEPT !.skipped = l.name]
        BY <1>1, <1>4, <2>4 DEF OuterLine
      <3> QED BY <1>1, <1>2, <2>1, <2>2, <2>4, <3>1, FilterChanges, ReaderChanges DEF Agree
    <2> QED BY <2>3, <2>4
  <1>5. CASE l.is = "comment"
    <2>1. ReadLine(r, l) = r /\ OpenVpnLine(o, l) = o
      BY <1>1, <1>2, <1>5 DEF OuterLine, OpenVpnLine
    <2> QED BY <2>1
  <1>6. CASE l.is \in {"word", "close"}
    <2>1. IsDirective(l)
      <3>1. CASE ~IsDirective(l)
        <4>1. ReadLine(r, l) = [r EXCEPT !.refused = TRUE]
          BY <1>1, <1>6, <3>1 DEF OuterLine
        <4> QED BY <1>1, <4>1, FilterChanges
      <3> QED BY <3>1
    <2>2. l.is = "word" /\ l.form # "own"
      BY <2>1 DEF IsDirective, ProfileLines
    <2>3. ReadLine(r, l) = IF IsOverridden(l) THEN r ELSE kept
      BY <1>1, <1>6, <2>1, <2>2 DEF OuterLine
    <2>4. /\ OpenVpnLine(o, l) = [o EXCEPT !.items = Append(@, item)]
          /\ OpenVpnLine(q, l) = [q EXCEPT !.items = Append(@, item)]
      BY <1>2, <2>2 DEF OpenVpnLine
    <2>5. /\ item \in Items /\ IsTheProfiles(item)
          /\ Stays(item) <=> ~IsOverridden(l)
      BY <1>1, <2>2 DEF Item, Items, Texts, Stays, IsTheProfiles, IsOverridden
    <2>6. /\ OpenVpnLine(o, l).items = Append(o.items, item)
          /\ OpenVpnLine(o, l).tag = NoTag /\ OpenVpnLine(o, l).text = <<>>
          /\ OpenVpnLine(q, l).items = Append(q.items, item)
          /\ OpenVpnLine(q, l).tag = NoTag /\ OpenVpnLine(q, l).text = <<>>
      BY <1>1, <1>2, <2>4, ReaderChanges
    <2> HIDE DEF item, kept
    <2>7. CASE IsOverridden(l)
      <3>1. Staying(Append(o.items, item)) = Staying(o.items)
        BY <1>2, <2>5, <2>7, StayingAppend
      <3> QED BY <1>2, <2>3, <2>6, <2>7, <3>1 DEF Agree
    <2>8. CASE ~IsOverridden(l)
      <3>1. /\ Staying(Append(o.items, item)) = Append(q.items, item)
            /\ TheProfiles(Append(q.items, item)) = Append(q.items, item)
        BY <1>2, <2>5, <2>8, StayingAppend, TheProfilesAppend
      <3> QED BY <1>2, <1>3, <2>3, <2>6, <2>8, <3>1 DEF Agree
    <2> QED BY <2>7, <2>8
  <1>7. l.is \in {"open", "comment", "word", "close"}
    BY DEF ProfileLines
  <1> QED BY <1>4, <1>5, <1>6, <1>7

LEMMA ProfilesAreTexts == Seq(ProfileLines) \subseteq Seq(Texts)
  BY SeqMonotonic, LinesAreTexts

\* A profile that is not refused leaves the filter and the two readers in agreement.
ProfileAgrees(p) ==
    ~ReadProfile(p).refused
        => Agree(ReadProfile(p), OpenVpnReads(p), OpenVpnReads(ReadProfile(p).output))

LEMMA LineAgrees ==
  ASSUME NEW p \in Seq(ProfileLines), NEW l \in ProfileLines, l.form # "cased",
         ProfileAgrees(p)
  PROVE  ProfileAgrees(Append(p, l))
  <1> DEFINE r == ReadProfile(p)
             o == OpenVpnReads(p)
             q == OpenVpnReads(r.output)
             next == ReadLine(r, l)
  <1>1. /\ r \in FilterStates /\ r.output \in Seq(ProfileLines) /\ r.output \in Seq(Texts)
        /\ p \in Seq(Texts) /\ l \in Texts
    BY ReadProfileTyped, ProfilesAreTexts, LinesAreTexts DEF FilterStates
  <1>2. o \in ReaderStates /\ q \in ReaderStates
    BY <1>1, OpenVpnReadsTyped
  <1>3. ReadProfile(Append(p, l)) = next /\ OpenVpnReads(Append(p, l)) = OpenVpnLine(o, l)
    BY <1>1, ReadProfileAppend, OpenVpnReadsAppend
  <1>4. OpenVpnReads(Append(r.output, l)) = OpenVpnLine(q, l)
    BY <1>1, OpenVpnReadsAppend
  <1>5. ~r.refused => Agree(r, o, q)
    BY DEF ProfileAgrees
  <1>6. r.refused => next = r
    BY DEF ReadLine
  <1> SUFFICES ASSUME ~next.refused
               PROVE  Agree(next, OpenVpnLine(o, l), OpenVpnReads(next.output))
    BY <1>3 DEF ProfileAgrees
  <1> HIDE DEF o, q, r
  <1>7. \/ next.output = r.output /\ Agree(next, OpenVpnLine(o, l), q)
        \/ next.output = Append(r.output, l) /\ Agree(next, OpenVpnLine(o, l), OpenVpnLine(q, l))
    <2>1. ~r.refused /\ Agree(r, o, q)
      BY <1>5, <1>6
    <2>2. CASE r.skipped # NoBlock
      BY <1>1, <1>2, <2>1, <2>2, SkippingAgrees
    <2>3. CASE r.skipped = NoBlock /\ r.inline # NoBlock
      BY <1>1, <1>2, <2>1, <2>3, InlineAgrees
    <2>4. CASE r.skipped = NoBlock /\ r.inline = NoBlock
      BY <1>1, <1>2, <2>1, <2>4, OuterAgrees
    <2> QED BY <2>2, <2>3, <2>4
  <1> QED BY <1>4, <1>7 DEF q

LEMMA ProfilesAgree ==
  ASSUME NEW p \in Seq(ProfileLines), LowerCaseTags(p)
  PROVE  ProfileAgrees(p)
  <1> DEFINE S == {s \in Seq(ProfileLines) : LowerCaseTags(s) => ProfileAgrees(s)}
  <1>1. <<>> \in S
    <2>1. ProfileAgrees(<<>>)
      BY ReadProfileEmpty, OpenVpnReadsEmpty, NoItems DEF ProfileAgrees, Start, Unread, Agree
    <2> QED BY <2>1, EmptySeq
  <1>2. ASSUME NEW s \in Seq(ProfileLines), NEW l \in ProfileLines, s \in S
        PROVE  Append(s, l) \in S
    <2>1. Append(s, l) \in Seq(ProfileLines)
      BY AppendProperties
    <2> SUFFICES ASSUME LowerCaseTags(Append(s, l)) PROVE ProfileAgrees(Append(s, l))
      BY <2>1
    <2>2. /\ DOMAIN s = 1..Len(s) /\ DOMAIN Append(s, l) = 1..Len(s) + 1 /\ Len(s) \in Nat
          /\ Append(s, l)[Len(s) + 1] = l /\ \A i \in 1..Len(s) : Append(s, l)[i] = s[i]
      BY <2>1, AppendProperties, LenProperties
    <2>3. LowerCaseTags(s) /\ l.form # "cased"
      BY <2>2 DEF LowerCaseTags
    <2> QED BY <1>2, <2>3, LineAgrees
  <1> HIDE DEF S
  <1>3. p \in S
    BY <1>1, <1>2, SequencesFromEmpty
  <1> QED BY <1>3 DEF S

-----------------------------------------------------------------------------
(* The directives of the service *)

OwnLine(i) == Line("word", Own[i], "own")
OwnItem(i) == Item("word", Own[i], "own", <<>>)

\* The items of a reader that was outside of a block are its own and one of each directive.
OwnRead(items, q, n) ==
    /\ TheProfiles(items) = TheProfiles(q.items)
    /\ Len(items) = Len(q.items) + n
    /\ \A i \in 1..n : items[Len(q.items) + i] = OwnItem(i)

LEMMA OwnIsRead ==
  ASSUME NEW out \in Seq(Texts), OpenVpnReads(out).tag = NoTag
  PROVE  OwnRead(OpenVpnReads(out \o OwnLines).items, OpenVpnReads(out), Len(Own))
  <1> DEFINE q == OpenVpnReads(out)
             k == Len(q.items)
             lines(n) == out \o [i \in 1..n |-> OwnLine(i)]
             S == {n \in Nat : n <= Len(Own) =>
                     /\ lines(n) \in Seq(Texts)
                     /\ OpenVpnReads(lines(n)).tag = NoTag
                     /\ OwnRead(OpenVpnReads(lines(n)).items, q, n)}
  <1>1. Len(Own) \in Nat /\ \A i \in 1..Len(Own) : Own[i] \in Names
    BY OpenVpnConfigAssumption, LenProperties, ElementOfSeq DEF Names
  <1>2. \A i \in 1..Len(Own) : OwnLine(i) \in Texts /\ OwnItem(i) \in Items
    BY <1>1 DEF OwnLine, OwnItem, Line, Item, Texts, Items
  <1>3. q \in ReaderStates /\ q.items \in Seq(Items) /\ k \in Nat
    BY OpenVpnReadsTyped, LenProperties DEF ReaderStates
  <1> HIDE DEF q
  <1>4. 0 \in S
    <2>1. lines(0) = out
      BY ConcatEmptySeq
    <2> QED BY <1>3, <2>1 DEF OwnRead, q
  <1>5. ASSUME NEW n \in Nat, n \in S PROVE n + 1 \in S
    <2> SUFFICES ASSUME n + 1 <= Len(Own)
                 PROVE  /\ lines(n + 1) \in Seq(Texts)
                        /\ OpenVpnReads(lines(n + 1)).tag = NoTag
                        /\ OwnRead(OpenVpnReads(lines(n + 1)).items, q, n + 1)
      OBVIOUS
    <2> DEFINE u == OpenVpnReads(lines(n))
               v == OpenVpnReads(lines(n + 1))
    <2>1. lines(n) \in Seq(Texts) /\ u.tag = NoTag /\ OwnRead(u.items, q, n)
      BY <1>1, <1>5
    <2>2. OwnLine(n + 1) \in Texts /\ OwnItem(n + 1) \in Items /\ n + 1 \in 1..Len(Own)
      BY <1>1, <1>2
    <2>3. lines(n + 1) = Append(lines(n), OwnLine(n + 1))
      <3> DEFINE a == [i \in 1..n |-> OwnLine(i)]
                 b == [i \in 1..n + 1 |-> OwnLine(i)]
      <3>1. a \in Seq(Texts) /\ b \in Seq(Texts) /\ Len(a) = n /\ Len(b) = n + 1
        BY <1>1, <1>2
      <3>2. b = Append(a, OwnLine(n + 1))
        BY <3>1, <2>2, AppendProperties, SeqEqual
      <3> HIDE DEF a, b
      <3>3. out \o Append(a, OwnLine(n + 1)) = Append(out \o a, OwnLine(n + 1))
        BY <3>1, <2>2, AppendIsConcat, ConcatAssociative, ConcatProperties
      <3> QED BY <3>2, <3>3 DEF a, b
    <2> HIDE DEF lines
    <2>4. lines(n + 1) \in Seq(Texts)
      BY <2>1, <2>2, <2>3, AppendProperties
    <2>5. v = OpenVpnLine(u, OwnLine(n + 1)) /\ u \in ReaderStates /\ u.items \in Seq(Items)
      BY <2>1, <2>2, <2>3, OpenVpnReadsAppend, OpenVpnReadsTyped DEF ReaderStates
    <2> HIDE DEF u, v
    <2>6. v.tag = NoTag /\ v.items = Append(u.items, OwnItem(n + 1))
      <3> DEFINE l == OwnLine(n + 1)
      <3>1. l.is = "word" /\ Item(l.is, l.name, l.form, <<>>) = OwnItem(n + 1)
        BY DEF OwnLine, Line, OwnItem
      <3> HIDE DEF l
      <3>2. OpenVpnLine(u, l) = [u EXCEPT !.items = Append(@, Item(l.is, l.name, l.form, <<>>))]
        BY <2>1, <3>1 DEF OpenVpnLine
      <3>3. l \in Texts /\ v = OpenVpnLine(u, l)
        BY <2>2, <2>5 DEF l
      <3>4. LET c == [u EXCEPT !.items = Append(@, Item(l.is, l.name, l.form, <<>>))]
            IN  c.items = Append(u.items, Item(l.is, l.name, l.form, <<>>)) /\ c.tag = u.tag
        BY <2>5, <3>3, ReaderChanges
      <3>5. u.tag = NoTag
        BY <2>1
      <3> QED BY <3>1, <3>2, <3>3, <3>4, <3>5
    <2>7. ~IsTheProfiles(OwnItem(n + 1))
      BY DEF OwnItem, Item, IsTheProfiles
    <2>8. TheProfiles(v.items) = TheProfiles(q.items)
      BY <2>1, <2>2, <2>5, <2>6, <2>7, TheProfilesAppend DEF OwnRead
    <2>9. Len(v.items) = k + (n + 1) /\ \A i \in 1..n + 1 : v.items[k + i] = OwnItem(i)
      <3>1. Len(u.items) = k + n /\ \A i \in 1..n : u.items[k + i] = OwnItem(i)
        BY <2>1 DEF OwnRead
      <3> HIDE DEF k
      <3>2. /\ Len(v.items) = k + n + 1 /\ v.items[k + n + 1] = OwnItem(n + 1)
            /\ \A i \in 1..k + n : v.items[i] = u.items[i]
        <4> DEFINE x == OwnItem(n + 1)
        <4>1. /\ Len(Append(u.items, x)) = Len(u.items) + 1
              /\ \A i \in 1..Len(u.items) : Append(u.items, x)[i] = u.items[i]
              /\ Append(u.items, x)[Len(u.items) + 1] = x
          BY <2>2, <2>5, AppendProperties
        <4> HIDE DEF x
        <4>2. v.items = Append(u.items, x)
          BY <2>6 DEF x
        <4> QED BY <3>1, <4>1, <4>2 DEF x
      <3>3. ASSUME NEW i \in 1..n + 1 PROVE v.items[k + i] = OwnItem(i)
        <4>1. CASE i = n + 1
          <5>1. k + i = k + n + 1
            BY <1>3, <4>1
          <5> QED BY <3>2, <4>1, <5>1
        <4>2. CASE i # n + 1
          <5>1. i \in 1..n /\ k + i \in 1..k + n
            BY <1>3, <4>2
          <5> QED BY <3>1, <3>2, <5>1
        <4> QED BY <4>1, <4>2
      <3>4. k + n + 1 = k + (n + 1)
        BY <1>3
      <3> QED BY <3>2, <3>3, <3>4
    <2> QED BY <2>4, <2>6, <2>8, <2>9 DEF OwnRead, v
  <1> HIDE DEF S
  <1>6. Len(Own) \in S
    BY <1>1, <1>4, <1>5, NaturalsFrom0
  <1> QED BY <1>1, <1>6 DEF S, OwnLines, OwnLine, q

\* What the filter makes of a profile it accepts, OpenVPN reads as it is meant.
LEMMA OutputIsFiltered ==
  ASSUME NEW p \in Seq(ProfileLines), LowerCaseTags(p), Accepted(p)
  PROVE  FilteredAsRead(p, Output(p)) /\ OwnInEffect(Output(p))
  <1> DEFINE r == ReadProfile(p)
             q == OpenVpnReads(r.output)
             items == OpenVpnReads(Output(p)).items
             k == Len(q.items)
             m == Len(Own)
  <1>1. r.output \in Seq(Texts)
    BY ReadProfileTyped, ProfilesAreTexts DEF FilterStates
  <1>2. /\ q.items = Staying(OpenVpnReads(p).items) /\ TheProfiles(q.items) = q.items
        /\ q.tag = NoTag
    BY ProfilesAgree DEF ProfileAgrees, Accepted, Agree
  <1>3. OwnRead(items, q, m)
    BY <1>1, <1>2, OwnIsRead DEF Output
  <1>4. FilteredAsRead(p, Output(p))
    BY <1>2, <1>3 DEF OwnRead, FilteredAsRead
  <1>5. m \in Nat /\ k \in Nat /\ Len(items) = k + m /\ DOMAIN items = 1..k + m
    <2>1. Output(p) \in Seq(Texts)
      <3>1. OwnLines \in Seq(Texts)
        <4>1. m \in Nat /\ \A i \in 1..m : Line("word", Own[i], "own") \in Texts
          BY OpenVpnConfigAssumption, LenProperties, ElementOfSeq DEF Names, Line, Texts
        <4> QED BY <4>1 DEF OwnLines
      <3> QED BY <1>1, <3>1, ConcatProperties DEF Output
    <2>2. q \in ReaderStates /\ OpenVpnReads(Output(p)) \in ReaderStates
      BY <1>1, <2>1, OpenVpnReadsTyped
    <2>3. q.items \in Seq(Items) /\ items \in Seq(Items)
      BY <2>2 DEF ReaderStates
    <2> QED BY <1>3, <2>3, OpenVpnConfigAssumption, LenProperties DEF OwnRead
  <1> HIDE DEF items
  <1>6. \A i \in 1..m : items[k + i].name = Own[i] /\ items[k + i].form = "own"
    <2>1. \A i \in 1..m : items[k + i] = OwnItem(i)
      BY <1>3 DEF OwnRead
    <2>2. \A i \in 1..m : OwnItem(i).name = Own[i] /\ OwnItem(i).form = "own"
      BY DEF OwnItem, Item
    <2> QED BY <2>1, <2>2
  <1> HIDE DEF k
  <1>7. ASSUME NEW n \in ToSet(Own)
        PROVE  \E i \in DOMAIN items :
                 /\ items[i].name = n /\ items[i].form = "own"
                 /\ \A j \in i..Len(items) : items[j].name = n => items[j].form = "own"
    <2>1. PICK c \in 1..m : Own[c] = n
      BY OpenVpnConfigAssumption, LenProperties DEF ToSet
    <2>2. k + c \in DOMAIN items
      BY <1>5
    <2>3. ASSUME NEW j \in k + c..Len(items) PROVE items[j].form = "own"
      <3>1. j - k \in 1..m /\ k + (j - k) = j
        BY <1>5
      <3> QED BY <1>6, <3>1
    <2> QED BY <1>6, <2>1, <2>2, <2>3
  <1> QED BY <1>4, <1>7 DEF OwnInEffect, items

-----------------------------------------------------------------------------
(* The configurations that hold a profile *)

\* The lines of a configuration are the output of a profile that was accepted.
ProfileInv ==
    OpenVpnBuilt => /\ config.profile \in Profiles /\ Accepted(config.profile)
                    /\ config.lines = Output(config.profile)

LEMMA NoProfile == ASSUME config' = NoConfig PROVE ProfileInv'
  BY DEF ProfileInv, OpenVpnBuilt, Built

LEMMA SameProfile == ASSUME ProfileInv, config' = config PROVE ProfileInv'
  BY DEF ProfileInv, OpenVpnBuilt, Built

LEMMA ProfileStep == ASSUME ProfileInv, Next PROVE ProfileInv'
  <1>1. CASE (\E token \in Tokens : Login(token) /\ WellFormed(token))
             \/ (\E code \in {"", "SE", "XX"} : Servers(code))
             \/ (\E m \in ConnectMethods : Connect(m))
    BY <1>1, NoProfile DEF Login, Servers, Connect, Begin
  <1>2. CASE (\E token \in Tokens : Login(token) /\ ~WellFormed(token))
             \/ LoginFails \/ UserReply \/ Logout \/ DiscoveryFails \/ ProfileFails
             \/ (\E json \in SettingsRequests : SaveSettings(json))
    BY <1>2, NoProfile
    DEF Login, LoginFails, UserReply, Logout, DiscoveryFails, ProfileFails, SaveSettings,
        OperationFails, Finish, FinishWith
  <1>3. CASE Exchange \/ CredentialsReply
    BY <1>3, SameProfile DEF Exchange, CredentialsReply
  <1>4. CASE \/ \E body \in Catalogs, place \in Places : CatalogReply(body, place)
             \/ \E body \in Catalogs : CountryReply(body)
    BY <1>4, SameProfile, NoProfile
    DEF CatalogReply, CountryReply, OperationFails, Finish, FinishWith
  <1>5. CASE \E body \in ServerBodies : RecommendReply(body)
    BY <1>5, SameProfile, NoProfile DEF RecommendReply, OperationFails, Finish, FinishWith
  <1>6. CASE \E id \in Ids : Select(id)
    BY <1>6, SameProfile, NoProfile DEF Select, Chosen, OperationFails, Finish, FinishWith
  <1>7. CASE BuildWireGuard
    <2>1. config' = NoConfig \/ config'.technology = "nordlynx"
      <3> DEFINE c == [technology |-> "nordlynx", server |-> selected, dns |-> NormalDns,
                       key |-> session.key, strict |-> session.settings.killSwitch,
                       sound |-> sound /\ list.sound /\ store.sound]
      <3>1. config' = c \/ config' = NoConfig
        BY <1>7 DEF BuildWireGuard, OperationFails, Finish, FinishWith
      <3>2. c.technology = "nordlynx"
        OBVIOUS
      <3> HIDE DEF c
      <3> QED BY <3>1, <3>2
    <2> QED BY <2>1, NoProfile DEF ProfileInv, OpenVpnBuilt
  <1>8. CASE \E profile \in Profiles : BuildOpenVpn(profile)
    <2>1. PICK profile \in Profiles : BuildOpenVpn(profile)
      BY <1>8
    <2>2. \/ config' = NoConfig
          \/ /\ Accepted(profile) /\ config'.profile = profile
             /\ config'.lines = Output(profile)
      <3> DEFINE c == [technology |-> "openvpn", server |-> selected, dns |-> NormalDns,
                       protocol |-> Protocol, profile |-> profile, lines |-> Output(profile),
                       sound |-> SoundSoFar /\ list.sound /\ store.sound]
      <3>1. (config' = c /\ Accepted(profile)) \/ config' = NoConfig
        BY <2>1 DEF BuildOpenVpn, OperationFails, Finish, FinishWith
      <3>2. c.profile = profile /\ c.lines = Output(profile)
        OBVIOUS
      <3> HIDE DEF c
      <3> QED BY <3>1, <3>2
    <2> QED BY <2>2, NoProfile DEF ProfileInv
  <1> QED BY <1>1, <1>2, <1>3, <1>4, <1>5, <1>6, <1>7, <1>8 DEF Next

\* For every profile Nord may send with its tags in lower case, whatever its length:
\* OpenVPN reads in the output the trust blocks and the harmless directives of the
\* profile, in their order and nothing else of it, and no line of it comes after a
\* directive of the service that it could undo.
THEOREM ProfileIsReadAsMeant == Spec => []ProfileIsFiltered
  <1>1. Init => ProfileInv
    BY DEF Init, ProfileInv, OpenVpnBuilt, Built
  <1>2. ProfileInv /\ [Next]_vars => ProfileInv'
    BY ProfileStep, SameProfile DEF vars
  <1>3. ProfileInv => ProfileIsFiltered
    BY PreparationAssumption, OutputIsFiltered DEF ProfileInv, ProfileIsFiltered
  <1> QED BY <1>1, <1>2, <1>3, PTL DEF Spec
=============================================================================
