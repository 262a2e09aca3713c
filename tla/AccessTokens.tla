---------------------------- MODULE AccessTokens ----------------------------
(***************************************************************************)
(* The JWTs of the service: what create_access_token and                   *)
(* create_registration_token put into a token and what the two decoders    *)
(* make of one.  A token is its claims, a record; what no holder of        *)
(* JWT_SECRET has signed is Forged.  Time is in seconds.                   *)
(***************************************************************************)
EXTENDS Naturals

CONSTANTS JWT_ACCESS_TOKEN_TTL_SECONDS, REGISTRATION_TOKEN_TTL_SECONDS, Forged

ASSUME TtlAssumption ==
    {JWT_ACCESS_TOKEN_TTL_SECONDS, REGISTRATION_TOKEN_TTL_SECONDS} \subseteq Nat \ {0}

JWT_ISSUER == "relays"
JWT_VERSION == 1
JWT_ACCESS_TOKEN_TYPE == "access"
REGISTRATION_TOKEN_TYPE == "registration"

create_access_token(user_id, now) ==
    [iss |-> JWT_ISSUER, sub |-> user_id, type |-> JWT_ACCESS_TOKEN_TYPE,
     ver |-> JWT_VERSION, iat |-> now, exp |-> now + JWT_ACCESS_TOKEN_TTL_SECONDS]

create_registration_token(email, now) ==
    [iss |-> JWT_ISSUER, email |-> email, type |-> REGISTRATION_TOKEN_TYPE,
     iat |-> now, exp |-> now + REGISTRATION_TOKEN_TTL_SECONDS]

\* jwt.decode: the signature, the required claims, iat, exp and iss, in turn.
JwtDecode(token, require, now) ==
    IF token = Forged \/ ~(require \subseteq DOMAIN token) \/ token.iat > now
    THEN "invalid"
    ELSE IF token.exp <= now THEN "expired"
    ELSE IF token.iss # JWT_ISSUER THEN "invalid" ELSE "ok"

\* A user id always parses as a UUID.
decode_access_token(token, now) ==
    LET result == JwtDecode(token, {"iss", "sub", "type", "ver", "iat", "exp"}, now)
    IN  IF result = "expired" THEN "ACCESS_TOKEN_EXPIRED"
        ELSE IF result = "invalid" THEN "INVALID_ACCESS_TOKEN"
        ELSE IF token.type # JWT_ACCESS_TOKEN_TYPE \/ token.ver # JWT_VERSION
        THEN "INVALID_ACCESS_TOKEN" ELSE "ok"

\* The email claim of a token of ours is never empty.
decode_registration_token(token, now) ==
    IF JwtDecode(token, {"iss", "email", "type", "iat", "exp"}, now) # "ok"
       \/ token.type # REGISTRATION_TOKEN_TYPE
    THEN "INVALID_REQUEST" ELSE "ok"

(* The two kinds of token are never taken for one another, and each is     *)
(* good from the second it was made to the last before it expires.         *)
KindsApart(holder, made, now) ==
    LET access == create_access_token(holder, made)
        registration == create_registration_token(holder, made)
    IN  /\ decode_access_token(registration, now) # "ok"
        /\ decode_registration_token(access, now) # "ok"
        /\ decode_access_token(access, now) = "ok" <=>
              now \in made..made + JWT_ACCESS_TOKEN_TTL_SECONDS - 1
        /\ decode_registration_token(registration, now) = "ok" <=>
              now \in made..made + REGISTRATION_TOKEN_TTL_SECONDS - 1
=============================================================================
