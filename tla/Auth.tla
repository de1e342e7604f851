-------------------------------- MODULE Auth --------------------------------
(***************************************************************************)
(* internal/auth and the way the management API uses it                    *)
(* (internal/server/server.go, handleManagement and requirePermission):    *)
(* which request reaches which handler, and under whose name.              *)
(* A request is a record [ip, headerKey, authorization, queryKey]; its     *)
(* Authorization header is a record [scheme, value], the value a key or a  *)
(* token.  A token is a record [genuine, expired, issuer, audiences,       *)
(* permissions, subject]: "genuine" says that a configured key of the kind *)
(* its algorithm asks for verifies it, "permissions" are those of both     *)
(* claims.  The key is a string, the token a record; cryptography and the  *)
(* wording of refusals are left out.                                       *)
(***************************************************************************)
EXTENDS SequencesExt

CONSTANTS
  Authentication,   \* the auth section the server was started with, a record
                    \* [enabled, apiKeys, jwt, issuer, audience, allowIPs]
  NoCredential,     \* a header, a parameter or a setting that is not there
  NoPrincipal

\* The keys are listed.
ASSUME KeysAssumption == Authentication.apiKeys \in Seq(ToSet(Authentication.apiKeys))

HasPermission(granted, permission) ==
  \/ granted \intersect {"admin", permission} # {}
  \/ "write" \in granted /\ permission \in {"read", "reload"}
  \/ "stats:write" \in granted /\ permission = "stats:read"

(* X-API-Key, then the ApiKey scheme, then the query parameter.            *)
ExtractAPIKey(r) ==
  CASE r.headerKey # NoCredential -> r.headerKey
    [] r.headerKey = NoCredential /\ r.authorization.scheme = "ApiKey" -> r.authorization.value
    [] OTHER -> r.queryKey

(* Of two entries with one key the map keeps the last.                     *)
AuthenticateKey(r) ==
  LET key   == ExtractAPIKey(r)
      place == SelectLastInSeq(Authentication.apiKeys, LAMBDA entry : entry.key = key)
  IN  IF key = NoCredential \/ place = 0 THEN NoPrincipal
      ELSE [id |-> Authentication.apiKeys[place].name,
            permissions |-> Authentication.apiKeys[place].permissions]

(* ValidToken that takes a token made out for somebody else.               *)
ValidTokenAnyAudience(token) ==
  /\ token.genuine /\ ~token.expired
  /\ Authentication.issuer \in {NoCredential, token.issuer}

ValidToken(token) ==
  /\ token.genuine /\ ~token.expired
  /\ Authentication.issuer \in {NoCredential, token.issuer}
  /\ Authentication.audience = NoCredential \/ Authentication.audience \in token.audiences

(* A token without permissions may read.                                   *)
AuthenticateToken(r) ==
  IF r.authorization.scheme = "Bearer" /\ ValidToken(r.authorization.value)
    THEN [id |-> r.authorization.value.subject,
          permissions |-> IF r.authorization.value.permissions = {} THEN {"read"}
                            ELSE r.authorization.value.permissions]
    ELSE NoPrincipal

(* The first authenticator that accepts the request decides.               *)
Authenticate(r) ==
  IF AuthenticateKey(r) # NoPrincipal THEN AuthenticateKey(r)
  ELSE IF Authentication.jwt THEN AuthenticateToken(r) ELSE NoPrincipal

(* Wrap: an address of the allowlist is let through without a principal.   *)
Principal(r) ==
  IF Authentication.enabled /\ r.ip \notin Authentication.allowIPs
    THEN Authenticate(r) ELSE NoPrincipal

(* handleManagement: what an endpoint asks for.                            *)
Permission ==
  [config |-> "read", rules |-> "read", versions |-> "read", currentVersion |-> "read",
   audit |-> "read",
   stats |-> "stats:read", statsLive |-> "stats:read", statsRule |-> "stats:read",
   statsEnable |-> "stats:write", statsDisable |-> "stats:write", statsReset |-> "stats:write",
   reload |-> "reload", rollback |-> "write", debug |-> "admin"]

(* requirePermission, behind Wrap.                                         *)
Unauthorized(r) == Authentication.enabled /\ Principal(r) = NoPrincipal

Forbidden(r, endpoint) ==
  /\ Authentication.enabled /\ Principal(r) # NoPrincipal
  /\ ~HasPermission(Principal(r).permissions, Permission[endpoint])

Granted(r, endpoint) == ~Unauthorized(r) /\ ~Forbidden(r, endpoint)

(* handleRollback, lines 1055-1059.                                        *)
Actor(r) == IF Principal(r) = NoPrincipal THEN "anonymous" ELSE Principal(r).id
=============================================================================
