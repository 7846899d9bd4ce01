------------------------------- MODULE NordApi -------------------------------
(***************************************************************************)
(* NordApiClient and ResponseVerifier: how a GET ends, and what the client  *)
(* reads in the body of one that succeeded.  A reply is what arrived:       *)
(*   status    the HTTP status, 0 when none came                            *)
(*   large     the body is over the limit                                   *)
(*   headers   the four headers of the signature are there                  *)
(*   scheme    the algorithm and the key are the supported ones              *)
(*   expired   x-accept-before is past, or no number                        *)
(*   digest    the signed digest is the body's own, the one of no body, or    *)
(*             another one: the body was cut short or changed on its way     *)
(*   signed    the RSA signature is Nord's                                  *)
(*   key       the embedded key could be imported                           *)
(***************************************************************************)
EXTENDS Naturals, Sequences, SequencesExt

\* One of each that getUrlOnQtThread tells apart, and both of a rejected token
Statuses == {0, 200, 401, 403, 500}
RawReplies == [status : Statuses, large : BOOLEAN, headers : BOOLEAN, scheme : BOOLEAN,
               expired : BOOLEAN, digest : {"own", "empty", "other"}, signed : BOOLEAN,
               key : BOOLEAN]

Success(r) == r.status \in 200..299

\* Mutant: the digest of no body is taken for any reply
EmptyDigestAnywhere(r) == r.digest \in {"own", "empty"}

\* Only an error reply may be signed over no body.
DigestMatches(r) == r.digest = "own" \/ (~Success(r) /\ r.digest = "empty")

Verified(r) == r.key /\ r.headers /\ r.scheme /\ ~r.expired /\ DigestMatches(r) /\ r.signed

\* Mutant: the status is looked at before the signature
StatusFirst(r, token) ==
    CASE r.status = 0 -> "network_failure"
      [] r.status # 0 /\ token /\ r.status \in {401, 403} -> "token_rejected"
      [] r.status # 0 /\ ~(token /\ r.status \in {401, 403}) ->
            IF r.large \/ (Verified(r) /\ ~Success(r)) THEN "api_failure"
            ELSE IF ~Verified(r) THEN "response_verification_failed" ELSE "none"

\* getUrlOnQtThread: errorCode, or "none"
ErrorOf(r, token) ==
    CASE r.large -> "api_failure"
      [] ~r.large /\ r.status = 0 -> "network_failure"
      [] ~r.large /\ r.status # 0 /\ ~Verified(r) -> "response_verification_failed"
      [] OTHER -> IF Success(r) THEN "none"
                  ELSE IF token /\ r.status \in {401, 403} THEN "token_rejected"
                  ELSE "api_failure"

\* What a reply really is: Nord's word in full, Nord's refusal, or neither.
Truth(r) ==
    LET nords == r.signed /\ ~r.expired /\ r.headers /\ r.scheme /\ r.status # 0
    IN  IF nords /\ Success(r) /\ r.digest = "own" /\ ~r.large THEN "answer"
        ELSE IF nords /\ r.status \in {401, 403} THEN "refusal" ELSE "nothing"

-----------------------------------------------------------------------------
(* What the client reads in a body *)

\* credentials(): the account's names are required, the NordLynx key is not.
UsableCredentials(body) == body.names

\* servers_technologies in recommendedPath
Filter(settings) ==
    IF settings.technology = "nordlynx" THEN 35
    ELSE IF settings.protocol = "tcp" THEN 5 ELSE 3

NoFilter == 0

\* countryId(): the id of a code, in a catalog of [code, id, cities]
HasCountry(catalog, code) == \E i \in DOMAIN catalog : catalog[i].code = code
CountryId(catalog, code) == catalog[SelectInSeq(catalog, LAMBDA c : c.code = code)].id

\* locations(): a country stands for itself only when it lists no city.
Locations(catalog) ==
    UNION {LET c == catalog[i]
           IN  IF c.cities = {} THEN {[country |-> c.id, city |-> NoFilter]}
               ELSE {[country |-> c.id, city |-> city] : city \in c.cities}
           : i \in DOMAIN catalog}

\* Server::fromNordJson: a server needs an id, a station and a host name; the
\* key is what the metadata of technology 35 says.
IsServer(s) == s.id > 0 /\ s.station # "none" /\ s.host # "none"
ParseServers(body) == SelectSeq(body, IsServer)

\* hostnamePattern, before the profile is asked for
NordHost(s) == s.host = "nord"
=============================================================================
