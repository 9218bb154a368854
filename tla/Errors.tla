-------------------------------- MODULE Errors --------------------------------
(***************************************************************************)
(* What the clients make of a response: of a Connect one (connect/error.rs,*)
(* ConnectClient::unary) and of a REST one (Error::from_status and the     *)
(* clients of envd and of the volumes).                                    *)
(*                                                                         *)
(* A response is [http, code, data]: its status, the code its JSON body    *)
(* gives (<<"name", n>>, <<"number", n>>, or <<"none">> when there is no   *)
(* code, or no JSON) and what a success carries, if that decodes: <<value>>, *)
(* or << >>.  A result is <<"ok", value>> or <<"err", Error>>.             *)
(***************************************************************************)
EXTENDS Integers

Ok(v)  == <<"ok", v>>
Err(e) == <<"err", e>>

Success(v)           == [http |-> 200, code |-> <<"none">>, data |-> <<v>>]
Bare(status)         == [http |-> status, code |-> <<"none">>, data |-> << >>]
Named(status, name)  == [http |-> status, code |-> <<"name", name>>, data |-> << >>]
Numbered(status, n)  == [http |-> status, code |-> <<"number", n>>, data |-> << >>]
Garbled              == Bare(200)

Codes == {"canceled", "invalid_argument", "deadline_exceeded", "not_found",
          "already_exists", "permission_denied", "resource_exhausted",
          "failed_precondition", "aborted", "out_of_range", "unimplemented",
          "internal", "unavailable", "data_loss", "unauthenticated"}

FromName(name) == IF name \in Codes THEN name ELSE "unknown"

FromHttpStatus(status) ==
  CASE status = 400          -> "invalid_argument"
    [] status = 401          -> "unauthenticated"
    [] status = 403          -> "permission_denied"
    [] status = 404          -> "not_found"
    [] status = 409          -> "already_exists"
    [] status \in {413, 429} -> "resource_exhausted"
    [] status = 499          -> "canceled"
    [] status = 500          -> "internal"
    [] status \in {501, 505} -> "unimplemented"
    [] status \in {502, 503} -> "unavailable"
    [] status = 504          -> "deadline_exceeded"
    [] OTHER                 -> "unknown"

\* The code of the body comes first: a status stands for several codes.
ParseConnectError(a) ==
  CASE a.code[1] = "name"   -> FromName(a.code[2])
    [] a.code[1] = "number" -> FromHttpStatus(a.code[2])
    [] OTHER                -> FromHttpStatus(a.http)

MapCodeToError(code) ==
  CASE code = "invalid_argument"   -> "InvalidArgument"
    [] code = "unauthenticated"    -> "Authentication"
    [] code = "not_found"          -> "NotFound"
    [] code = "resource_exhausted" -> "RateLimit"
    [] code \in {"unavailable", "canceled", "deadline_exceeded"} -> "Timeout"
    [] code = "already_exists"     -> "Conflict"
    [] OTHER                       -> "Sandbox"

FromStatus(status) ==
  CASE status = 400 -> "InvalidArgument"
    [] status = 401 -> "Authentication"
    [] status = 403 -> "Forbidden"
    [] status = 404 -> "NotFound"
    [] status = 409 -> "Conflict"
    [] status = 429 -> "RateLimit"
    [] status = 502 -> "Timeout"
    [] status = 507 -> "NotEnoughSpace"
    [] OTHER        -> "Sandbox"

Decoded(a) == IF a.data = << >> THEN Err("Internal") ELSE Ok(a.data[1])

\* ConnectClient::unary.
Unary(a) == IF a.http \in 200..299 THEN Decoded(a)
            ELSE Err(MapCodeToError(ParseConnectError(a)))

\* request and request_json of the REST clients.
Rest(a) == IF a.http \in 200..299 THEN Decoded(a) ELSE Err(FromStatus(a.http))

\* A match on one error of a result: the error e becomes r.
OnError(result, e, r) == IF result = Err(e) THEN r ELSE result
===============================================================================
